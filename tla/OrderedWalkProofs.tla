-------------------------- MODULE OrderedWalkProofs --------------------------
(* Theorems of OrderedWalk: every answer is an arrangement of the ingested   *)
(* tokens that fits the ingested bits, a fallback is a cut walk, a grid is a *)
(* tensor of two axes, and an exact hash of a collection without repetitions *)
(* restores its order. The cells of a tensor and the windows of its axes     *)
(* come first, then the walk: its candidates, its invariants, its answers.   *)
EXTENDS OrderedWalk, Gf2RingProofs

-----------------------------------------------------------------------------
(* Recursive functions over the axes exist.                                  *)

\* A set of axes has one whose predecessor is not in it.
LEMMA LeastUpto ==
    ASSUME NEW n \in Nat, NEW T, T \subseteq 0..n, T # {}
    PROVE  \E m \in T : /\ m \in 0..n
                        /\ m > 0 => m - 1 \in 0..n /\ m - 1 \notin T
<1>1. T \subseteq Nat
    OBVIOUS
<1>2. PICK m \in T : \A k \in T : m <= k
    BY <1>1, LeastNatural
<1>3. m \in 0..n
    OBVIOUS
<1>4. m - 1 \notin T
    <2> SUFFICES ASSUME m - 1 \in T PROVE FALSE
        OBVIOUS
    <2>1. m <= m - 1
        BY <1>2
    <2> QED BY <1>3, <2>1
<1> QED BY <1>3, <1>4

\* What holds of 0 and passes from each number to the next holds up to n.
LEMMA InductionUp ==
    ASSUME NEW n \in Nat, NEW G, 0 \in G, \A m \in 1..n : m - 1 \in G => m \in G
    PROVE  \A m \in 0..n : m \in G
<1> DEFINE T == {m \in 0..n : m \notin G}
<1> SUFFICES ASSUME T # {} PROVE FALSE
    OBVIOUS
<1>1. PICK m \in T : m \in 0..n /\ (m > 0 => m - 1 \in 0..n /\ m - 1 \notin T)
    <2>1. T \subseteq 0..n
        OBVIOUS
    <2> HIDE DEF T
    <2> QED BY <2>1, LeastUpto
<1>2. m \notin G /\ m # 0
    BY <1>1
<1>3. m - 1 \in G /\ m \in 1..n
    BY <1>1, <1>2
<1> QED BY <1>2, <1>3

\* f is computed from the first axis to the last, or the other way.
Climbs(f, n, S, s0, g) ==
    f \in [0..n -> S] /\ f[0] = s0 /\ \A a \in 1..n : f[a] = g[<<a, f[a - 1]>>]

Descends(f, n, S, s0, g) ==
    f \in [0..n -> S] /\ f[n] = s0 /\ \A a \in 0..n - 1 : f[a] = g[<<a + 1, f[a + 1]>>]

\* A value defined along the axes, first to last, exists.
LEMMA RecursionUp ==
    ASSUME NEW n \in Nat, NEW S, NEW s0 \in S, NEW g \in [(1..n) \X S -> S]
    PROVE  \E f : Climbs(f, n, S, s0, g)
<1> DEFINE Def(m) == \E f : Climbs(f, m, S, s0, g)
           T == {m \in 0..n : ~Def(m)}
<1> SUFFICES ASSUME T # {} PROVE FALSE
    <2>1. n \in 0..n
        OBVIOUS
    <2>2. n \notin T => Def(n)
        BY <2>1
    <2> HIDE DEF T
    <2> QED BY <2>2
<1>1. PICK m \in T : m \in 0..n /\ (m > 0 => m - 1 \in 0..n /\ m - 1 \notin T)
    <2>1. T \subseteq 0..n
        OBVIOUS
    <2> HIDE DEF T
    <2> QED BY <2>1, LeastUpto
<1>2. m # 0
    <2> DEFINE f == [i \in 0..0 |-> s0]
    <2>1. f \in [0..0 -> S] /\ f[0] = s0 /\ \A a \in 1..0 : f[a] = g[<<a, f[a - 1]>>]
        OBVIOUS
    <2>2. Def(0)
        BY <2>1 DEF Climbs
    <2>3. ~Def(m)
        BY <1>1
    <2> HIDE DEF Def
    <2> QED BY <2>2, <2>3
<1>3. m \in 1..n /\ m - 1 \in 0..n
    BY <1>1, <1>2
<1>4. Def(m - 1)
    <2>1. m - 1 \notin T
        BY <1>1, <1>3
    <2> HIDE DEF Def
    <2> QED BY <1>3, <2>1
<1>5. PICK f \in [0..m - 1 -> S] : f[0] = s0 /\ \A a \in 1..m - 1 : f[a] = g[<<a, f[a - 1]>>]
    BY <1>4 DEF Climbs
<1> DEFINE h == [i \in 0..m |-> IF i = m THEN g[<<m, f[m - 1]>>] ELSE f[i]]
<1>6. f[m - 1] \in S /\ g[<<m, f[m - 1]>>] \in S
    BY <1>3
<1>7. h \in [0..m -> S] /\ h[0] = s0
    BY <1>3, <1>5, <1>6
<1>8. ASSUME NEW a \in 1..m
      PROVE  h[a] = g[<<a, h[a - 1]>>]
    <2>1. h[a - 1] = f[a - 1]
        BY <1>3
    <2>2. CASE a = m
        <3>1. h[m] = g[<<m, f[m - 1]>>]
            BY <1>3
        <3> HIDE DEF h
        <3> QED BY <2>1, <2>2, <3>1
    <2>3. CASE a # m
        <3>1. a \in 1..m - 1 /\ h[a] = f[a]
            BY <1>3, <2>3
        <3>2. f[a] = g[<<a, f[a - 1]>>]
            BY <3>1, <1>5
        <3> HIDE DEF h
        <3> QED BY <3>1, <3>2, <2>1
    <2> QED BY <2>2, <2>3
<1>9. Def(m)
    <2> HIDE DEF h
    <2> QED BY <1>7, <1>8 DEF Climbs
<1> HIDE DEF Def
<1> QED BY <1>1, <1>9

\* The same from the last axis to the first.
LEMMA RecursionDown ==
    ASSUME NEW n \in Nat, NEW S, NEW s0 \in S, NEW g \in [(1..n) \X S -> S]
    PROVE  \E f : Descends(f, n, S, s0, g)
<1> DEFINE q == [e \in (1..n) \X S |-> g[<<n + 1 - e[1], e[2]>>]]
<1>1. q \in [(1..n) \X S -> S]
    OBVIOUS
<1>2. PICK h \in [0..n -> S] : h[0] = s0 /\ \A a \in 1..n : h[a] = q[<<a, h[a - 1]>>]
    <2> HIDE DEF q
    <2>1. \E h : Climbs(h, n, S, s0, q)
        BY <1>1, RecursionUp
    <2> QED BY <2>1 DEF Climbs
<1> DEFINE f == [i \in 0..n |-> h[n - i]]
<1>3. f \in [0..n -> S] /\ f[n] = s0
    BY <1>2
<1>4. ASSUME NEW a \in 0..n - 1
      PROVE  f[a] = g[<<a + 1, f[a + 1]>>]
    <2>1. f[a] = h[n - a] /\ f[a + 1] = h[n - a - 1] /\ n - a \in 1..n
        OBVIOUS
    <2>2. h[n - a] = q[<<n - a, h[n - a - 1]>>]
        <3> HIDE DEF q
        <3> QED BY <1>2, <2>1
    <2>3. h[n - a - 1] \in S
        OBVIOUS
    <2>4. q[<<n - a, h[n - a - 1]>>] = g[<<n + 1 - (n - a), h[n - a - 1]>>]
        BY <2>1, <2>3
    <2>5. n + 1 - (n - a) = a + 1
        OBVIOUS
    <2> HIDE DEF q, f
    <2> QED BY <2>1, <2>2, <2>4, <2>5
<1> HIDE DEF f
<1> QED BY <1>3, <1>4 DEF Descends

-----------------------------------------------------------------------------
(* Indexes and positions of cells.                                           *)

\* Strides are products: the stride of an axis is that of the next one times its extent.
LEMMA StridesFacts ==
    ASSUME NEW shape \in Seq(Nat)
    PROVE  /\ strides(shape) \in [0..Len(shape) -> Nat]
           /\ strides(shape)[Len(shape)] = 1
           /\ \A a \in 0..Len(shape) - 1 :
                strides(shape)[a] = strides(shape)[a + 1] * shape[a + 1]
<1> DEFINE n == Len(shape)
           g == [e \in (1..n) \X Nat |-> e[2] * shape[e[1]]]
           IsIt(s) == s = [i \in 0..n |-> IF i = n THEN 1 ELSE s[i + 1] * shape[i + 1]]
<1>0. n \in Nat /\ 1 \in Nat /\ \A a \in 1..n : shape[a] \in Nat
    OBVIOUS
<1>1. g \in [(1..n) \X Nat -> Nat]
    OBVIOUS
<1>2. PICK f \in [0..n -> Nat] : f[n] = 1 /\ \A a \in 0..n - 1 : f[a] = g[<<a + 1, f[a + 1]>>]
    <2> HIDE DEF g, n
    <2>1. \E h : Descends(h, n, Nat, 1, g)
        BY <1>0, <1>1, RecursionDown
    <2> QED BY <2>1 DEF Descends
<1>3. \A a \in 0..n - 1 : f[a] = f[a + 1] * shape[a + 1]
    <2> SUFFICES ASSUME NEW a \in 0..n - 1
                 PROVE  f[a] = f[a + 1] * shape[a + 1]
        OBVIOUS
    <2>1. a + 1 \in 1..n /\ f[a + 1] \in Nat
        OBVIOUS
    <2>2. g[<<a + 1, f[a + 1]>>] = f[a + 1] * shape[a + 1]
        BY <2>1
    <2>3. f[a] = g[<<a + 1, f[a + 1]>>]
        <3> HIDE DEF g
        <3> QED BY <1>2
    <2> HIDE DEF g
    <2> QED BY <2>2, <2>3
<1> HIDE DEF g
<1>4. IsIt(f)
    <2>1. \A i \in 0..n : f[i] = IF i = n THEN 1 ELSE f[i + 1] * shape[i + 1]
        BY <1>0, <1>2, <1>3
    <2> QED BY <2>1
<1>5. strides(shape) = CHOOSE s : IsIt(s)
    BY DEF strides
<1>6. IsIt(strides(shape))
    <2> HIDE DEF IsIt
    <2> QED BY <1>4, <1>5
<1> DEFINE s == strides(shape)
<1>7. s = [i \in 0..n |-> IF i = n THEN 1 ELSE s[i + 1] * shape[i + 1]]
    BY <1>6
<1> HIDE DEF s
<1>8. s[n] = 1 /\ \A a \in 0..n - 1 : s[a] = s[a + 1] * shape[a + 1]
    BY <1>7
<1>9. s = f
    <2> DEFINE T == {m \in 0..n : s[n - m] # f[n - m]}
    <2> SUFFICES ASSUME T # {} PROVE FALSE
        <3>1. \A i \in 0..n : n - i \in 0..n /\ n - (n - i) = i
            OBVIOUS
        <3>2. T = {} => \A i \in 0..n : s[i] = f[i]
            BY <3>1
        <3>3. DOMAIN s = 0..n /\ s = [i \in DOMAIN s |-> s[i]]
            BY <1>7
        <3> HIDE DEF T
        <3> QED BY <3>2, <3>3
    <2>1. PICK m \in T : m \in 0..n /\ (m > 0 => m - 1 \in 0..n /\ m - 1 \notin T)
        <3>1. T \subseteq 0..n
            OBVIOUS
        <3> HIDE DEF T, n
        <3> QED BY <1>0, <3>1, LeastUpto
    <2>2. s[n - m] # f[n - m]
        BY <2>1
    <2>3. m # 0
        BY <1>2, <1>8, <2>2
    <2>4. m - 1 \in 0..n /\ m - 1 \notin T /\ n - m \in 0..n - 1 /\ n - (m - 1) = n - m + 1
        BY <2>1, <2>3
    <2>5. s[n - m + 1] = f[n - m + 1]
        BY <2>4
    <2>6. s[n - m] = f[n - m]
        <3> HIDE DEF T
        <3> QED BY <1>3, <1>8, <2>4, <2>5
    <2> QED BY <2>2, <2>6
<1> QED BY <1>2, <1>3, <1>9 DEF s
\* The same, from an axis to the one before it.
LEMMA StridesStep ==
    ASSUME NEW shape \in Seq(Nat)
    PROVE  /\ Len(shape) \in Nat /\ strides(shape)[Len(shape)] = 1
           /\ \A a \in 0..Len(shape) : strides(shape)[a] \in Nat
           /\ \A a \in 1..Len(shape) : /\ a - 1 \in 0..Len(shape) /\ a \in 0..Len(shape)
                                       /\ shape[a] \in Nat
                                       /\ strides(shape)[a - 1] = strides(shape)[a] * shape[a]
<1> DEFINE n == Len(shape)
           s == strides(shape)
<1>1. s \in [0..n -> Nat] /\ s[n] = 1 /\ n \in Nat /\ \A a \in 1..n : shape[a] \in Nat
    BY StridesFacts
<1>2. ASSUME NEW a \in 1..n
      PROVE  s[a - 1] = s[a] * shape[a]
    <2>1. a - 1 \in 0..n - 1 /\ (a - 1) + 1 = a
        OBVIOUS
    <2>2. s[a - 1] = s[(a - 1) + 1] * shape[(a - 1) + 1]
        BY <2>1, StridesFacts
    <2> QED BY <2>1, <2>2
<1> HIDE DEF s, n
<1>3. \A a \in 1..n : a - 1 \in 0..n /\ a \in 0..n
    BY <1>1
<1> QED BY <1>1, <1>2, <1>3 DEF s, n

\* Multiplication by an extent keeps the order, and a digit below it leaves room for one more.
LEMMA Products ==
    ASSUME NEW m \in Nat
    PROVE  /\ \A c \in Int, d \in Int : c <= d => c * m <= d * m
           /\ \A c \in Int : c * m \in Int
           /\ \A c \in Nat, h \in Nat : c + 1 <= h => c * m \in Nat /\ c * m + m <= m * h
<1>1. ASSUME NEW c \in Int, NEW d \in Int, c <= d
      PROVE  c * m <= d * m
    <2>1. (d - c) * m \in Nat
        BY <1>1
    <2>2. d * m = c * m + (d - c) * m
        OBVIOUS
    <2> QED BY <2>1, <2>2
<1>2. ASSUME NEW c \in Nat, NEW h \in Nat, c + 1 <= h
      PROVE  c * m \in Nat /\ c * m + m <= m * h
    <2>1. (c + 1) * m <= h * m
        BY <1>1, <1>2
    <2>2. (c + 1) * m = c * m + m /\ h * m = m * h
        OBVIOUS
    <2> QED BY <2>1, <2>2
<1> QED BY <1>1, <1>2

\* A shape with cells has no empty axis.
LEMMA StridesPositive ==
    ASSUME NEW shape \in Seq(Nat), strides(shape)[0] > 0
    PROVE  \A a \in 0..Len(shape) : /\ strides(shape)[a] \in Nat \ {0}
                                    /\ a > 0 => shape[a] \in Nat \ {0}
<1> DEFINE n == Len(shape)
           s == strides(shape)
           G == {a \in 0..n : s[a] \in Nat \ {0} /\ (a > 0 => shape[a] \in Nat \ {0})}
<1>1. n \in Nat /\ s \in [0..n -> Nat] /\ \A a \in 0..n - 1 : s[a] = s[a + 1] * shape[a + 1]
    BY StridesFacts
<1> HIDE DEF s
<1>2. 0 \in G
    BY <1>1 DEF s
<1>3. ASSUME NEW m \in 1..n, m - 1 \in G
      PROVE  m \in G
    <2>1. s[m - 1] > 0 /\ s[m - 1] = s[m] * shape[m] /\ s[m] \in Nat /\ shape[m] \in Nat
        <3>1. m - 1 \in 0..n - 1 /\ (m - 1) + 1 = m /\ s[m - 1] \in Nat \ {0}
            BY <1>3
        <3>2. s[m - 1] = s[(m - 1) + 1] * shape[(m - 1) + 1]
            BY <1>1, <3>1
        <3>3. shape[m] \in Nat /\ s[m] \in Nat
            BY <1>1
        <3> HIDE DEF G
        <3> QED BY <3>1, <3>2, <3>3
    <2>2. s[m] > 0 /\ shape[m] > 0
        BY <2>1
    <2> QED BY <2>1, <2>2
<1> HIDE DEF G, n
<1>4. \A a \in 0..n : a \in G
    BY <1>1, <1>2, <1>3, InductionUp
<1> QED BY <1>4 DEF G, s, n

\* The sum over the axes that CellIndex makes.
IsCellSum(sum, shape, p) ==
    /\ sum \in [0..Len(shape) -> Int] /\ sum[0] = 0
    /\ \A a \in 1..Len(shape) : sum[a] = sum[a - 1] + (p[a] - Border) * strides(shape)[a]

\* The index of a cell is the sum of its coordinates times their strides.
LEMMA CellSum ==
    ASSUME NEW shape \in Seq(Nat), NEW p, \A a \in 1..Len(shape) : p[a] \in Int
    PROVE  \E sum : IsCellSum(sum, shape, p) /\ CellIndex(shape, p) = sum[Len(shape)]
<1> DEFINE n == Len(shape)
           s == strides(shape)
           g == [e \in (1..n) \X Int |-> e[2] + (p[e[1]] - Border) * s[e[1]]]
           IsIt(f) == f = [a \in 0..n |-> IF a = 0 THEN 0 ELSE f[a - 1] + (p[a] - Border) * s[a]]
<1>1. n \in Nat /\ s \in [0..n -> Nat] /\ Border \in Nat /\ 0 \in Int
    BY StridesFacts DEF Border, MaxN
<1> HIDE DEF s
<1>2. g \in [(1..n) \X Int -> Int]
    BY <1>1
<1>3. PICK f : Climbs(f, n, Int, 0, g)
    <2> HIDE DEF g, n
    <2> QED BY <1>1, <1>2, RecursionUp
<1>4. f \in [0..n -> Int] /\ f[0] = 0 /\ \A a \in 1..n : f[a] = g[<<a, f[a - 1]>>]
    BY <1>3 DEF Climbs
<1>5. ASSUME NEW a \in 1..n
      PROVE  f[a] = f[a - 1] + (p[a] - Border) * s[a]
    <2>1. f[a - 1] \in Int
        BY <1>1, <1>4, SMTT(40)
    <2>2. g[<<a, f[a - 1]>>] = f[a - 1] + (p[a] - Border) * s[a]
        BY <2>1
    <2> HIDE DEF g
    <2> QED BY <1>4, <2>2
<1> HIDE DEF g
<1>6. IsIt(f)
    <2>1. \A a \in 0..n : f[a] = IF a = 0 THEN 0 ELSE f[a - 1] + (p[a] - Border) * s[a]
        BY <1>1, <1>4, <1>5
    <2> QED BY <1>4, <2>1
<1>7. CellIndex(shape, p) = (CHOOSE h : IsIt(h))[n]
    BY DEF CellIndex, s
<1> DEFINE h == CHOOSE h : IsIt(h)
<1>8. IsIt(h)
    <2> HIDE DEF IsIt
    <2> QED BY <1>6
<1> HIDE DEF h
<1>9. /\ DOMAIN h = 0..n /\ h[0] = 0
      /\ \A a \in 1..n : h[a] = h[a - 1] + (p[a] - Border) * s[a]
    <2>1. DOMAIN h = 0..n
        BY <1>8
    <2>2. \A a \in 0..n : h[a] = IF a = 0 THEN 0 ELSE h[a - 1] + (p[a] - Border) * s[a]
        BY <1>8, Zenon
    <2>3. \A a \in 1..n : a \in 0..n /\ a # 0
        BY <1>1
    <2> HIDE DEF IsIt
    <2> QED BY <1>1, <2>1, <2>2, <2>3
<1>10. h \in [0..n -> Int]
    <2> DEFINE G == {a \in 0..n : h[a] \in Int}
    <2>1. 0 \in G
        BY <1>1, <1>9
    <2>2. ASSUME NEW m \in 1..n, m - 1 \in G
          PROVE  m \in G
        <3>1. h[m - 1] \in Int /\ (p[m] - Border) * s[m] \in Int
            BY <1>1, <2>2, SMTT(40)
        <3> QED BY <1>9, <3>1
    <2>3. \A a \in 0..n : a \in G
        <3> HIDE DEF G, n
        <3> QED BY <1>1, <2>1, <2>2, InductionUp
    <2>4. h = [a \in 0..n |-> h[a]]
        BY <1>8, <1>9
    <2> QED BY <2>3, <2>4
<1> QED BY <1>7, <1>9, <1>10 DEF IsCellSum, h, s

\* Division with a rest, for the provers.
LEMMA Division ==
    ASSUME NEW x \in Nat, NEW d \in Nat \ {0}
    PROVE  /\ x \div d \in Nat /\ x % d \in 0..d - 1 /\ x % d \in Nat
           /\ x = (x \div d) * d + (x % d)
           /\ \A m \in Nat : x < m * d => x \div d < m
OBVIOUS

\* The rests to_multi leaves.
IsRest(rest, idx, shape) ==
    /\ rest \in [0..Len(shape) -> Nat] /\ rest[0] = idx
    /\ \A a \in 1..Len(shape) : rest[a] = rest[a - 1] % strides(shape)[a]

\* to_multi divides by the strides in turn; what is left goes to the next axis.
LEMMA RestExists ==
    ASSUME NEW shape \in Seq(Nat), strides(shape)[0] > 0, NEW idx \in Nat
    PROVE  \E rest : /\ IsRest(rest, idx, shape)
                     /\ to_multi(idx, shape) =
                            [a \in 1..Len(shape) |-> rest[a - 1] \div strides(shape)[a]]
<1> DEFINE n == Len(shape)
           s == strides(shape)
           g == [e \in (1..n) \X Nat |-> e[2] % s[e[1]]]
           IsIt(f) == f = [a \in 0..n |-> IF a = 0 THEN idx ELSE f[a - 1] % s[a]]
<1>1. n \in Nat /\ \A a \in 0..n : s[a] \in Nat \ {0}
    BY StridesPositive
<1> HIDE DEF s
<1>2. g \in [(1..n) \X Nat -> Nat]
    <2>1. ASSUME NEW e \in (1..n) \X Nat
          PROVE  e[2] % s[e[1]] \in Nat
        <3> DEFINE x == e[2]
                   d == s[e[1]]
        <3>1. x \in Nat /\ d \in Nat \ {0}
            BY <1>1
        <3> HIDE DEF x, d
        <3>2. x % d \in Nat
            BY <3>1, Division
        <3> QED BY <3>2 DEF x, d
    <2> QED BY <2>1
<1>3. PICK f : Climbs(f, n, Nat, idx, g)
    <2> HIDE DEF g, n
    <2> QED BY <1>1, <1>2, RecursionUp
<1>4. f \in [0..n -> Nat] /\ f[0] = idx /\ \A a \in 1..n : f[a] = g[<<a, f[a - 1]>>]
    BY <1>3 DEF Climbs
<1>5. ASSUME NEW a \in 1..n
      PROVE  f[a] = f[a - 1] % s[a]
    <2>1. f[a - 1] \in Nat
        <3> HIDE DEF g
        <3>1. a - 1 \in 0..n
            BY <1>1
        <3> QED BY <1>4, <3>1
    <2>2. g[<<a, f[a - 1]>>] = f[a - 1] % s[a]
        BY <2>1
    <2> HIDE DEF g
    <2> QED BY <1>4, <2>2
<1> HIDE DEF g
<1>6. IsIt(f)
    <2>1. \A a \in 0..n : f[a] = IF a = 0 THEN idx ELSE f[a - 1] % s[a]
        BY <1>1, <1>4, <1>5
    <2> QED BY <1>4, <2>1
<1> DEFINE h == CHOOSE h : IsIt(h)
<1>7. to_multi(idx, shape) = [a \in 1..n |-> h[a - 1] \div s[a]]
    BY DEF to_multi, s
<1>8. IsIt(h)
    <2> HIDE DEF IsIt
    <2> QED BY <1>6
<1> HIDE DEF h
<1>9. /\ DOMAIN h = 0..n /\ h[0] = idx
      /\ \A a \in 1..n : h[a] = h[a - 1] % s[a]
    <2>1. DOMAIN h = 0..n
        BY <1>8
    <2>2. \A a \in 0..n : h[a] = IF a = 0 THEN idx ELSE h[a - 1] % s[a]
        BY <1>8, Zenon
    <2>3. \A a \in 1..n : a \in 0..n /\ a # 0
        BY <1>1
    <2> HIDE DEF IsIt
    <2> QED BY <1>1, <2>1, <2>2, <2>3
<1>10. h \in [0..n -> Nat]
    <2> DEFINE G == {a \in 0..n : h[a] \in Nat}
    <2>1. 0 \in G
        BY <1>1, <1>9
    <2>2. ASSUME NEW m \in 1..n, m - 1 \in G
          PROVE  m \in G
        <3>1. h[m - 1] \in Nat /\ s[m] \in Nat \ {0}
            BY <1>1, <2>2
        <3> DEFINE x == h[m - 1]
                   d == s[m]
        <3>2. x % d \in Nat
            <4>1. x \in Nat /\ d \in Nat \ {0}
                BY <3>1
            <4> HIDE DEF x, d
            <4> QED BY <4>1, Division
        <3> QED BY <1>9, <3>2
    <2>3. \A a \in 0..n : a \in G
        <3> HIDE DEF G, n
        <3> QED BY <1>1, <2>1, <2>2, InductionUp
    <2>4. h = [a \in 0..n |-> h[a]]
        BY <1>8, <1>9
    <2> QED BY <2>3, <2>4
<1> QED BY <1>7, <1>9, <1>10 DEF IsRest, s

\* A real cell is found where to_multi says that it is.
LEMMA ToMulti ==
    ASSUME NEW shape \in Seq(Nat), NEW idx \in 0..strides(shape)[0] - 1
    PROVE  /\ to_multi(idx, shape) \in [1..Len(shape) -> Nat]
           /\ \A a \in 1..Len(shape) : to_multi(idx, shape)[a] \in 0..shape[a] - 1
           /\ CellIndex(shape, [a \in 1..Len(shape) |-> to_multi(idx, shape)[a] + Border]) = idx
<1> DEFINE n == Len(shape)
           s == strides(shape)
           at == to_multi(idx, shape)
           p == [a \in 1..n |-> at[a] + Border]
<1>1. /\ n \in Nat /\ 0 \in 0..n /\ s[n] = 1 /\ idx \in Nat /\ idx < s[0] /\ Border \in Nat
      /\ \A a \in 0..n : s[a] \in Nat \ {0}
      /\ \A a \in 1..n : s[a - 1] = s[a] * shape[a] /\ shape[a] \in Nat
    <2>1. s[0] \in Nat
        BY StridesStep
    <2>2. idx \in Nat /\ idx < s[0] /\ s[0] > 0
        BY <2>1
    <2>3. \A a \in 0..n : s[a] \in Nat \ {0}
        BY <2>2, StridesPositive
    <2> QED BY <2>2, <2>3, StridesStep DEF Border, MaxN
<1>2. PICK r : IsRest(r, idx, shape) /\ at = [a \in 1..n |-> r[a - 1] \div s[a]]
    BY <1>1, RestExists
<1>3. /\ r \in [0..n -> Nat] /\ r[0] = idx
      /\ \A a \in 1..n : r[a] = r[a - 1] % s[a] /\ at[a] = r[a - 1] \div s[a]
    <2> HIDE DEF s, at
    <2> QED BY <1>2 DEF IsRest, s
<1> HIDE DEF s, at
<1>4. \A a \in 0..n : r[a] < s[a]
    <2> SUFFICES ASSUME NEW a \in 0..n
                 PROVE  r[a] < s[a]
        OBVIOUS
    <2>1. CASE a = 0
        BY <1>1, <1>3, <2>1
    <2>2. CASE a # 0
        <3>1. a \in 1..n /\ r[a - 1] \in Nat /\ s[a] \in Nat \ {0}
            BY <1>1, <1>3, <2>2, SMTT(40)
        <3>2. r[a - 1] % s[a] \in 0..s[a] - 1
            BY <3>1, Division
        <3> QED BY <1>3, <3>1, <3>2
    <2> QED BY <2>1, <2>2
<1>5. ASSUME NEW a \in 1..n
      PROVE  /\ at[a] \in Nat /\ at[a] < shape[a]
             /\ r[a - 1] = at[a] * s[a] + r[a]
    <2>1. /\ r[a - 1] \in Nat /\ r[a - 1] < s[a - 1] /\ s[a] \in Nat \ {0}
          /\ s[a - 1] = s[a] * shape[a] /\ shape[a] \in Nat
        BY <1>1, <1>3, <1>4
    <2>2. r[a - 1] < shape[a] * s[a]
        BY <2>1
    <2>3. /\ r[a - 1] \div s[a] \in Nat /\ r[a - 1] \div s[a] < shape[a]
          /\ r[a - 1] = (r[a - 1] \div s[a]) * s[a] + (r[a - 1] % s[a])
        BY <2>1, <2>2, Division
    <2> QED BY <1>3, <2>3
<1>6. at \in [1..n -> Nat]
    <2>1. at = [a \in 1..n |-> at[a]]
        BY <1>2
    <2> QED BY <1>5, <2>1
<1>7. CellIndex(shape, p) = idx
    <2>1. \A a \in 1..n : p[a] \in Int /\ p[a] - Border = at[a]
        BY <1>1, <1>5
    <2> HIDE DEF p
    <2>2. PICK sum : IsCellSum(sum, shape, p) /\ CellIndex(shape, p) = sum[n]
        BY <2>1, CellSum
    <2>3. /\ sum \in [0..n -> Int] /\ sum[0] = 0
          /\ \A a \in 1..n : sum[a] = sum[a - 1] + at[a] * s[a]
        BY <2>1, <2>2 DEF IsCellSum, s
    <2> DEFINE G == {a \in 0..n : sum[a] + r[a] = idx}
    <2>4. 0 \in G
        BY <1>1, <1>3, <2>3
    <2>5. ASSUME NEW m \in 1..n, m - 1 \in G
          PROVE  m \in G
        <3>1. /\ sum[m - 1] + r[m - 1] = idx /\ sum[m] = sum[m - 1] + at[m] * s[m]
              /\ r[m - 1] = at[m] * s[m] + r[m]
            BY <1>5, <2>3, <2>5
        <3>2. /\ sum[m - 1] \in Int /\ at[m] \in Nat /\ s[m] \in Nat /\ r[m] \in Nat
              /\ r[m - 1] \in Nat
            <4>1. m - 1 \in 0..n /\ m \in 0..n
                BY <1>1
            <4> HIDE DEF n
            <4> QED BY <1>1, <1>3, <1>5, <2>3, <4>1
        <3>4. at[m] * s[m] \in Nat
            BY <3>2
        <3>3. sum[m] + r[m] = idx
            BY <3>1, <3>2, <3>4, SMTT(40)
        <3> QED BY <3>3
    <2>6. \A a \in 0..n : a \in G
        <3> HIDE DEF G, n
        <3> QED BY <1>1, <2>4, <2>5, InductionUp
    <2>7. sum[n] + r[n] = idx /\ r[n] = 0 /\ sum[n] \in Int
        <3>1. n \in 0..n /\ r[n] \in Nat /\ r[n] < 1 /\ sum[n] \in Int
            BY <1>1, <1>3, <1>4, <2>3
        <3>2. n \in G
            BY <2>6, <3>1
        <3> HIDE DEF n
        <3> QED BY <3>1, <3>2
    <2> QED BY <1>1, <2>2, <2>7
<1> QED BY <1>1, <1>5, <1>6, <1>7 DEF at

\* A cell of the tensor has an index of the tensor.
LEMMA CellIndexRange ==
    ASSUME NEW shape \in Seq(Nat), NEW p, RealCell(shape, p),
           \A a \in 1..Len(shape) : p[a] \in Int
    PROVE  CellIndex(shape, p) \in 0..strides(shape)[0] - 1
<1> DEFINE n == Len(shape)
           s == strides(shape)
<1>1. /\ n \in Nat /\ s[n] = 1 /\ \A a \in 0..n : s[a] \in Nat
      /\ \A a \in 1..n : /\ a - 1 \in 0..n /\ a \in 0..n /\ shape[a] \in Nat
                         /\ s[a - 1] = s[a] * shape[a]
    BY StridesStep
<1>2. \A a \in 1..n : p[a] \in Int /\ p[a] - Border \in 0..shape[a] - 1
    BY DEF RealCell
<1>3. PICK sum : IsCellSum(sum, shape, p) /\ CellIndex(shape, p) = sum[n]
    BY CellSum
<1>4. /\ sum \in [0..n -> Int] /\ sum[0] = 0
      /\ \A a \in 1..n : sum[a] = sum[a - 1] + (p[a] - Border) * s[a]
    BY <1>3 DEF IsCellSum
<1> HIDE DEF s
<1> DEFINE G == {a \in 0..n : sum[a] >= 0 /\ sum[a] + s[a] <= s[0]}
<1>5. 0 \in G
    BY <1>1, <1>4
<1>6. ASSUME NEW m \in 1..n, m - 1 \in G
      PROVE  m \in G
    <2> DEFINE c == p[m] - Border
    <2>1. /\ sum[m - 1] >= 0 /\ sum[m - 1] + s[m - 1] <= s[0] /\ sum[m] = sum[m - 1] + c * s[m]
          /\ s[m - 1] = s[m] * shape[m] /\ sum[m - 1] \in Int /\ s[m] \in Nat /\ s[0] \in Nat
          /\ shape[m] \in Nat
        <3>1. 0 \in 0..n
            BY <1>1
        <3> QED BY <1>1, <1>4, <1>6, <3>1
    <2>2. c \in Nat /\ c + 1 <= shape[m]
        <3>1. c \in 0..shape[m] - 1
            BY <1>2
        <3> HIDE DEF c
        <3> QED BY <2>1, <3>1
    <2> HIDE DEF c
    <2>3. c * s[m] \in Nat /\ c * s[m] + s[m] <= s[m] * shape[m]
        BY <2>1, <2>2, Products
    <2>4. sum[m] >= 0 /\ sum[m] + s[m] <= s[0]
        BY <2>1, <2>3, SMTT(40)
    <2> QED BY <2>4
<1>7. \A a \in 0..n : a \in G
    <2> HIDE DEF G, n
    <2> QED BY <1>1, <1>5, <1>6, InductionUp
<1>8. sum[n] >= 0 /\ sum[n] + 1 <= s[0] /\ sum[n] \in Int /\ s[0] \in Nat
    <2>1. n \in 0..n
        BY <1>1
    <2>2. n \in G
        BY <1>7, <2>1
    <2> HIDE DEF n
    <2> QED BY <1>1, <1>4, <2>1, <2>2
<1> QED BY <1>3, <1>8 DEF s

\* A position that is nowhere greater has no greater index.
LEMMA CellIndexMono ==
    ASSUME NEW shape \in Seq(Nat), NEW p, NEW q,
           \A a \in 1..Len(shape) : p[a] \in Int /\ q[a] \in Int /\ p[a] <= q[a]
    PROVE  CellIndex(shape, p) \in Int /\ CellIndex(shape, p) <= CellIndex(shape, q)
<1> DEFINE n == Len(shape)
           s == strides(shape)
<1>1. n \in Nat /\ \A a \in 0..n : s[a] \in Nat
    BY StridesFacts
<1>2. PICK f : IsCellSum(f, shape, p) /\ CellIndex(shape, p) = f[n]
    BY CellSum
<1>3. PICK h : IsCellSum(h, shape, q) /\ CellIndex(shape, q) = h[n]
    BY CellSum
<1>4. /\ f \in [0..n -> Int] /\ f[0] = 0 /\ h \in [0..n -> Int] /\ h[0] = 0
      /\ \A a \in 1..n : f[a] = f[a - 1] + (p[a] - Border) * s[a]
      /\ \A a \in 1..n : h[a] = h[a - 1] + (q[a] - Border) * s[a]
    BY <1>2, <1>3 DEF IsCellSum
<1> HIDE DEF s
<1> DEFINE G == {a \in 0..n : f[a] <= h[a]}
<1>5. 0 \in G
    BY <1>1, <1>4
<1>6. ASSUME NEW m \in 1..n, m - 1 \in G
      PROVE  m \in G
    <2> DEFINE c == p[m] - Border
               d == q[m] - Border
    <2>1. c \in Int /\ d \in Int /\ c <= d
        BY DEF Border, MaxN
    <2>2. /\ f[m - 1] <= h[m - 1] /\ f[m - 1] \in Int /\ h[m - 1] \in Int /\ s[m] \in Nat
          /\ f[m] = f[m - 1] + c * s[m] /\ h[m] = h[m - 1] + d * s[m]
        BY <1>1, <1>4, <1>6, SMTT(40)
    <2> HIDE DEF c, d
    <2>3. c * s[m] <= d * s[m] /\ c * s[m] \in Int /\ d * s[m] \in Int
        BY <2>1, <2>2, Products
    <2>4. f[m] <= h[m]
        BY <2>2, <2>3
    <2> QED BY <2>4
<1>7. \A a \in 0..n : a \in G
    <2> HIDE DEF G, n
    <2> QED BY <1>1, <1>5, <1>6, InductionUp
<1>8. n \in G /\ f[n] \in Int
    <2>1. n \in 0..n
        BY <1>1
    <2> HIDE DEF n
    <2> QED BY <1>4, <1>7, <2>1
<1> QED BY <1>2, <1>3, <1>8

\* The same from the last axis to the first.
LEMMA InductionDown ==
    ASSUME NEW n \in Nat, NEW G, n \in G, \A m \in 0..n - 1 : m + 1 \in G => m \in G
    PROVE  \A m \in 0..n : m \in G
<1> DEFINE H == {m \in 0..n : n - m \in G}
<1>1. 0 \in H
    OBVIOUS
<1>2. ASSUME NEW m \in 1..n, m - 1 \in H
      PROVE  m \in H
    <2>1. n - (m - 1) \in G /\ n - (m - 1) = (n - m) + 1 /\ n - m \in 0..n - 1
        BY <1>2
    <2>2. n - m \in G
        BY <2>1
    <2> QED BY <2>2
<1>3. \A m \in 0..n : m \in H
    <2> HIDE DEF H
    <2> QED BY <1>1, <1>2, InductionUp
<1>4. \A m \in 0..n : n - m \in 0..n /\ n - (n - m) = m
    OBVIOUS
<1> QED BY <1>3, <1>4

\* The number of cells of a window, axis by axis.
IsPower(p, n, dim) ==
    /\ p \in [0..dim -> Nat] /\ p[0] = 1
    /\ \A a \in 1..dim : p[a] = p[a - 1] * n

\* A window of n cells an axis has n ^ dim cells, by repeated multiplication.
LEMMA PowerExists ==
    ASSUME NEW n \in Nat, NEW dim \in Nat
    PROVE  \E p : IsPower(p, n, dim) /\ cells_in_window(n, dim) = p[dim]
<1> DEFINE g == [e \in (1..dim) \X Nat |-> e[2] * n]
           IsIt(f) == f = [a \in 0..dim |-> IF a = 0 THEN 1 ELSE f[a - 1] * n]
<1>1. g \in [(1..dim) \X Nat -> Nat]
    OBVIOUS
<1>2. PICK f : Climbs(f, dim, Nat, 1, g)
    <2>1. 1 \in Nat
        OBVIOUS
    <2> HIDE DEF g
    <2> QED BY <1>1, <2>1, RecursionUp
<1>3. f \in [0..dim -> Nat] /\ f[0] = 1 /\ \A a \in 1..dim : f[a] = g[<<a, f[a - 1]>>]
    BY <1>2 DEF Climbs
<1>4. ASSUME NEW a \in 1..dim
      PROVE  f[a] = f[a - 1] * n
    <2>1. f[a - 1] \in Nat
        <3> HIDE DEF g
        <3> QED BY <1>3
    <2>2. g[<<a, f[a - 1]>>] = f[a - 1] * n
        BY <2>1
    <2> HIDE DEF g
    <2> QED BY <1>3, <2>2
<1> HIDE DEF g
<1>5. IsIt(f)
    <2>1. \A a \in 0..dim : f[a] = IF a = 0 THEN 1 ELSE f[a - 1] * n
        BY <1>3, <1>4
    <2> QED BY <1>3, <2>1
<1> DEFINE h == CHOOSE h : IsIt(h)
<1>6. cells_in_window(n, dim) = h[dim]
    BY DEF cells_in_window
<1>7. IsIt(h)
    <2> HIDE DEF IsIt
    <2> QED BY <1>5
<1> HIDE DEF h
<1>8. DOMAIN h = 0..dim /\ h[0] = 1 /\ \A a \in 1..dim : h[a] = h[a - 1] * n
    <2>1. DOMAIN h = 0..dim
        BY <1>7
    <2>2. \A a \in 0..dim : h[a] = IF a = 0 THEN 1 ELSE h[a - 1] * n
        BY <1>7, Zenon
    <2>3. \A a \in 1..dim : a \in 0..dim /\ a # 0
        OBVIOUS
    <2> HIDE DEF IsIt
    <2> QED BY <2>1, <2>2, <2>3
<1>9. h \in [0..dim -> Nat]
    <2> DEFINE G == {a \in 0..dim : h[a] \in Nat}
    <2>1. 0 \in G
        BY <1>8
    <2>2. ASSUME NEW m \in 1..dim, m - 1 \in G
          PROVE  m \in G
        <3>1. h[m - 1] \in Nat /\ h[m - 1] * n \in Nat
            BY <2>2
        <3> QED BY <1>8, <3>1
    <2>3. \A a \in 0..dim : a \in G
        <3> HIDE DEF G
        <3> QED BY <2>1, <2>2, InductionUp
    <2>4. h = [a \in 0..dim |-> h[a]]
        BY <1>7, <1>8
    <2> QED BY <2>3, <2>4
<1> QED BY <1>6, <1>8, <1>9 DEF IsPower

\* What is left of w after the digits of the axes behind a.
IsDigits(t, n, dim, w) ==
    /\ t \in [0..dim -> Nat] /\ t[dim] = w
    /\ \A a \in 0..dim - 1 : t[a] = t[a + 1] \div n

\* The offset of a cell of a window is its number in base n.
LEMMA DigitsExist ==
    ASSUME NEW n \in Nat \ {0}, NEW dim \in Nat, NEW w \in Nat
    PROVE  \E t : IsDigits(t, n, dim, w) /\ Offset(n, dim, w) = [a \in 1..dim |-> t[a] % n]
<1> DEFINE g == [e \in (1..dim) \X Nat |-> e[2] \div n]
           IsIt(f) == f = [a \in 0..dim |-> IF a = dim THEN w ELSE f[a + 1] \div n]
<1>1. g \in [(1..dim) \X Nat -> Nat]
    <2>1. \A x \in Nat : x \div n \in Nat
        BY Division
    <2> QED BY <2>1
<1>2. PICK f : Descends(f, dim, Nat, w, g)
    <2> HIDE DEF g
    <2> QED BY <1>1, RecursionDown
<1>3. f \in [0..dim -> Nat] /\ f[dim] = w /\ \A a \in 0..dim - 1 : f[a] = g[<<a + 1, f[a + 1]>>]
    BY <1>2 DEF Descends
<1>4. ASSUME NEW a \in 0..dim - 1
      PROVE  f[a] = f[a + 1] \div n
    <2>1. f[a + 1] \in Nat /\ a + 1 \in 1..dim
        <3> HIDE DEF g
        <3> QED BY <1>3
    <2>2. g[<<a + 1, f[a + 1]>>] = f[a + 1] \div n
        BY <2>1
    <2> HIDE DEF g
    <2> QED BY <1>3, <2>2
<1> HIDE DEF g
<1>5. IsIt(f)
    <2>1. \A a \in 0..dim : f[a] = IF a = dim THEN w ELSE f[a + 1] \div n
        BY <1>3, <1>4
    <2> QED BY <1>3, <2>1
<1> DEFINE h == CHOOSE h : IsIt(h)
<1>6. Offset(n, dim, w) = [a \in 1..dim |-> h[a] % n]
    BY DEF Offset
<1>7. IsIt(h)
    <2> HIDE DEF IsIt
    <2> QED BY <1>5
<1> HIDE DEF h
<1>8. DOMAIN h = 0..dim /\ h[dim] = w /\ \A a \in 0..dim - 1 : h[a] = h[a + 1] \div n
    <2>1. DOMAIN h = 0..dim
        BY <1>7
    <2>2. \A a \in 0..dim : h[a] = IF a = dim THEN w ELSE h[a + 1] \div n
        BY <1>7, Zenon
    <2>3. \A a \in 0..dim - 1 : a \in 0..dim /\ a # dim
        OBVIOUS
    <2>4. dim \in 0..dim
        OBVIOUS
    <2> HIDE DEF IsIt
    <2> QED BY <2>1, <2>2, <2>3, <2>4
<1>9. h \in [0..dim -> Nat]
    <2> DEFINE G == {a \in 0..dim : h[a] \in Nat}
    <2>1. dim \in G
        BY <1>8
    <2>2. ASSUME NEW m \in 0..dim - 1, m + 1 \in G
          PROVE  m \in G
        <3> DEFINE x == h[m + 1]
        <3>1. x \in Nat
            BY <2>2
        <3> HIDE DEF x
        <3>2. x \div n \in Nat
            BY <3>1, Division
        <3>3. h[m] = x \div n
            BY <1>8 DEF x
        <3> QED BY <3>2, <3>3
    <2>3. \A a \in 0..dim : a \in G
        <3> HIDE DEF G
        <3> QED BY <2>1, <2>2, InductionDown
    <2>4. h = [a \in 0..dim |-> h[a]]
        BY <1>7, <1>8
    <2> QED BY <2>3, <2>4
<1> QED BY <1>6, <1>8, <1>9 DEF IsDigits

\* An offset stays in the window.
LEMMA OffsetRange ==
    ASSUME NEW n \in Nat \ {0}, NEW dim \in Nat, NEW w \in Nat
    PROVE  Offset(n, dim, w) \in [1..dim -> 0..n - 1]
<1>1. PICK t : IsDigits(t, n, dim, w) /\ Offset(n, dim, w) = [a \in 1..dim |-> t[a] % n]
    BY DigitsExist
<1>2. ASSUME NEW a \in 1..dim
      PROVE  t[a] % n \in 0..n - 1
    <2> DEFINE x == t[a]
    <2>1. x \in Nat
        BY <1>1 DEF IsDigits
    <2> HIDE DEF x
    <2>2. x % n \in 0..n - 1
        BY <2>1, Division
    <2> QED BY <2>2 DEF x
<1> QED BY <1>1, <1>2

\* Every offset within a window is that of one of its cells.
LEMMA OffsetReaches ==
    ASSUME NEW n \in Nat \ {0}, NEW dim \in Nat, NEW d \in [1..dim -> 0..n - 1]
    PROVE  \E w \in 0..cells_in_window(n, dim) - 1 : Offset(n, dim, w) = d
<1> DEFINE g == [e \in (1..dim) \X Nat |-> e[2] * n + d[e[1]]]
<1>1. g \in [(1..dim) \X Nat -> Nat] /\ 0 \in Nat
    OBVIOUS
<1>2. PICK v : Climbs(v, dim, Nat, 0, g)
    <2> HIDE DEF g
    <2> QED BY <1>1, RecursionUp
<1>3. v \in [0..dim -> Nat] /\ v[0] = 0 /\ \A a \in 1..dim : v[a] = g[<<a, v[a - 1]>>]
    BY <1>2 DEF Climbs
<1>4. ASSUME NEW a \in 1..dim
      PROVE  /\ v[a - 1] \in Nat /\ v[a] \in Nat /\ d[a] \in 0..n - 1
             /\ v[a] = v[a - 1] * n + d[a]
    <2>1. v[a - 1] \in Nat /\ v[a] \in Nat /\ d[a] \in 0..n - 1
        <3> HIDE DEF g
        <3> QED BY <1>3
    <2>2. g[<<a, v[a - 1]>>] = v[a - 1] * n + d[a]
        BY <2>1
    <2> HIDE DEF g
    <2> QED BY <1>3, <2>1, <2>2
<1> HIDE DEF g
<1>5. ASSUME NEW a \in 1..dim
      PROVE  v[a] \div n = v[a - 1] /\ v[a] % n = d[a]
    <2> DEFINE x == v[a - 1]
               y == d[a]
    <2>1. x \in Nat /\ y \in 0..n - 1 /\ v[a] = x * n + y
        BY <1>4
    <2> HIDE DEF x, y
    <2>2. (x * n + y) \div n = x /\ (x * n + y) % n = y
        BY <2>1, SMTT(40)
    <2> QED BY <2>1, <2>2 DEF x, y
<1>6. PICK p : IsPower(p, n, dim) /\ cells_in_window(n, dim) = p[dim]
    BY PowerExists
<1> DEFINE w == v[dim]
<1>7. w \in 0..cells_in_window(n, dim) - 1
    <2> DEFINE G == {a \in 0..dim : v[a] < p[a]}
    <2>1. 0 \in G
        BY <1>3, <1>6 DEF IsPower
    <2>2. ASSUME NEW m \in 1..dim, m - 1 \in G
          PROVE  m \in G
        <3>1. /\ v[m - 1] \in Nat /\ v[m] = v[m - 1] * n + d[m] /\ d[m] \in 0..n - 1
              /\ v[m - 1] < p[m - 1]
            BY <1>4, <2>2
        <3>2. p[m] = p[m - 1] * n /\ p[m - 1] \in Nat /\ p[m] \in Nat
            <4>1. m - 1 \in 0..dim /\ m \in 0..dim
                OBVIOUS
            <4> QED BY <1>6, <4>1 DEF IsPower
        <3>3. (v[m - 1] + 1) * n <= p[m - 1] * n
            <4> DEFINE x == v[m - 1] + 1
                       y == p[m - 1]
            <4>1. x \in Int /\ y \in Int /\ x <= y
                BY <3>1, <3>2
            <4> HIDE DEF x, y
            <4>2. x * n <= y * n
                BY <4>1, Products
            <4> QED BY <4>2 DEF x, y
        <3>4. (v[m - 1] + 1) * n = v[m - 1] * n + n
            BY <3>1
        <3>5. v[m] < p[m]
            BY <3>1, <3>2, <3>3, <3>4, SMTT(40)
        <3> QED BY <3>5
    <2>3. \A a \in 0..dim : a \in G
        <3> HIDE DEF G
        <3> QED BY <2>1, <2>2, InductionUp
    <2>4. v[dim] < p[dim] /\ v[dim] \in Nat /\ p[dim] \in Nat
        <3>1. dim \in 0..dim
            OBVIOUS
        <3> QED BY <1>3, <1>6, <2>3, <3>1 DEF IsPower
    <2> QED BY <1>6, <2>4
<1>8. PICK t : IsDigits(t, n, dim, w) /\ Offset(n, dim, w) = [a \in 1..dim |-> t[a] % n]
    <2>1. w \in Nat
        BY <1>3
    <2> HIDE DEF w
    <2> QED BY <2>1, DigitsExist
<1>9. \A a \in 0..dim : t[a] = v[a]
    <2> DEFINE G == {a \in 0..dim : t[a] = v[a]}
    <2>1. dim \in G
        BY <1>8 DEF IsDigits
    <2>2. ASSUME NEW m \in 0..dim - 1, m + 1 \in G
          PROVE  m \in G
        <3>1. t[m + 1] = v[m + 1]
            BY <2>2
        <3>2. t[m] = t[m + 1] \div n
            BY <1>8 DEF IsDigits
        <3>3. m + 1 \in 1..dim /\ (m + 1) - 1 = m
            OBVIOUS
        <3>4. v[m + 1] \div n = v[(m + 1) - 1]
            BY <1>5, <3>3
        <3> QED BY <3>1, <3>2, <3>3, <3>4
    <2>3. \A a \in 0..dim : a \in G
        <3> HIDE DEF G
        <3> QED BY <2>1, <2>2, InductionDown
    <2> QED BY <2>3
<1>10. \A a \in 1..dim : t[a] % n = d[a]
    BY <1>5, <1>9
<1>11. Offset(n, dim, w) = d
    <2> HIDE DEF w
    <2> QED BY <1>8, <1>10
<1> QED BY <1>7, <1>11

\* The positions where a window of order n starts.
LEMMA AnchorsAre ==
    ASSUME NEW shape \in Seq(Nat), NEW n \in 1..MaxN, NEW p
    PROVE  p \in TensorAnchors(shape, n) <=>
              /\ p \in [1..Len(shape) -> Nat]
              /\ \A a \in 1..Len(shape) : p[a] <= shape[a] + 2 * Border - n
<1> DEFINE S == {shape[a] : a \in 1..Len(shape)} \cup {0}
           M == Max(S)
<1>1. M \in Nat /\ \A a \in 1..Len(shape) : shape[a] <= M /\ shape[a] \in Nat
    <2>1. IsFiniteSet({shape[a] : a \in 1..Len(shape)})
        <3> DEFINE X == {shape[a] : a \in 1..Len(shape)}
                   f == [a \in 1..Len(shape) |-> shape[a]]
        <3>1. IsFiniteSet(1..Len(shape))
            BY FS_Interval
        <3>2. f \in Surjection(1..Len(shape), X)
            BY DEF Surjection
        <3> HIDE DEF f, X
        <3>3. IsFiniteSet(X)
            BY <3>1, <3>2, FS_Surjection
        <3> QED BY <3>3 DEF X
    <2>2. IsFiniteSet(S)
        BY <2>1, FS_AddElement
    <2>3. S \subseteq Nat /\ S # {} /\ \A a \in 1..Len(shape) : shape[a] \in S /\ shape[a] \in Nat
        OBVIOUS
    <2> HIDE DEF S
    <2> QED BY <2>2, <2>3, MaxBounds
<1>2. TensorAnchors(shape, n) =
        {q \in [1..Len(shape) -> 0..M + 2 * Border] :
            \A a \in 1..Len(shape) : q[a] <= shape[a] + 2 * Border - n}
    BY DEF TensorAnchors
<1>3. Border = 3 /\ n \in 1..4
    BY DEF Border, MaxN
<1> HIDE DEF M
<1>4. ASSUME p \in [1..Len(shape) -> Nat],
             \A a \in 1..Len(shape) : p[a] <= shape[a] + 2 * Border - n
      PROVE  p \in [1..Len(shape) -> 0..M + 2 * Border]
    <2>1. ASSUME NEW a \in 1..Len(shape)
          PROVE  p[a] \in 0..M + 2 * Border
        <3>1. /\ p[a] \in Nat /\ shape[a] \in Nat /\ shape[a] <= M
              /\ p[a] <= shape[a] + 2 * Border - n
            BY <1>1, <1>4
        <3> QED BY <1>1, <1>3, <3>1
    <2> QED BY <1>4, <2>1
<1>5. \A x \in 0..M + 2 * Border : x \in Nat
    OBVIOUS
<1> QED BY <1>2, <1>4, <1>5

-----------------------------------------------------------------------------
(* A grid is a tensor of two axes.                                           *)

\* The strides of two axes.
LEMMA GridShape ==
    ASSUME NEW shape \in Nat \X Nat
    PROVE  /\ shape \in Seq(Nat) /\ Len(shape) = 2 /\ shape[1] \in Nat /\ shape[2] \in Nat
           /\ strides(shape)[2] = 1 /\ strides(shape)[1] = shape[2]
           /\ strides(shape)[0] = shape[1] * shape[2]
<1>1. shape \in Seq(Nat) /\ Len(shape) = 2 /\ shape[1] \in Nat /\ shape[2] \in Nat
    <2>1. PICK h \in Nat, w \in Nat : shape = <<h, w>>
        OBVIOUS
    <2> QED BY <2>1
<1> DEFINE s == strides(shape)
<1>2. s[2] = 1 /\ s[2 - 1] = s[2] * shape[2] /\ s[1 - 1] = s[1] * shape[1]
    <2>1. 1 \in 1..2 /\ 2 \in 1..2
        OBVIOUS
    <2> QED BY <1>1, <2>1, StridesStep
<1> HIDE DEF s
<1>3. s[1] = shape[2]
    BY <1>1, <1>2
<1>4. s[0] = shape[1] * shape[2]
    BY <1>1, <1>2, <1>3
<1> QED BY <1>1, <1>2, <1>3, <1>4 DEF s

\* A cell of the grid, or its border, is that of the tensor.
LEMMA GridCellIs ==
    ASSUME NEW shape \in Nat \X Nat, NEW cells, NEW p, p[1] \in Int, p[2] \in Int
    PROVE  /\ RealCell(shape, p) <=> /\ p[1] - Border \in 0..shape[1] - 1
                                     /\ p[2] - Border \in 0..shape[2] - 1
           /\ TensorCell(shape, cells, p) = GridCell(shape, cells, p[1], p[2])
<1>1. \A a : a \in 1..2 <=> a = 1 \/ a = 2
    OBVIOUS
<1>2. RealCell(shape, p) <=> /\ p[1] - Border \in 0..shape[1] - 1
                            /\ p[2] - Border \in 0..shape[2] - 1
    BY <1>1, GridShape, Zenon DEF RealCell
<1>3. CellIndex(shape, p) = (p[1] - Border) * shape[2] + (p[2] - Border)
    <2>1. PICK sum : IsCellSum(sum, shape, p) /\ CellIndex(shape, p) = sum[2]
        <3>1. \A a \in 1..2 : p[a] \in Int
            BY <1>1
        <3>2. Len(shape) = 2 /\ shape \in Seq(Nat)
            BY GridShape
        <3>3. \E sum : IsCellSum(sum, shape, p) /\ CellIndex(shape, p) = sum[Len(shape)]
            BY <3>1, <3>2, CellSum
        <3> QED BY <3>2, <3>3
    <2>2. /\ sum[0] = 0
          /\ sum[1] = sum[1 - 1] + (p[1] - Border) * strides(shape)[1]
          /\ sum[2] = sum[2 - 1] + (p[2] - Border) * strides(shape)[2]
        BY <1>1, <2>1, GridShape DEF IsCellSum
    <2>3. p[1] - Border \in Int /\ p[2] - Border \in Int
        BY DEF Border, MaxN
    <2> DEFINE c == p[1] - Border
               d == p[2] - Border
    <2>4. /\ sum[0] = 0 /\ sum[1] = sum[0] + c * shape[2] /\ sum[2] = sum[1] + d * 1
          /\ c \in Int /\ d \in Int /\ shape[2] \in Nat
        BY <2>2, <2>3, GridShape, SMTT(40)
    <2> HIDE DEF c, d
    <2>5. sum[2] = c * shape[2] + d
        BY <2>4
    <2> QED BY <2>1, <2>5 DEF c, d
<1> QED BY <1>2, <1>3, Zenon DEF TensorCell, GridCell

\* The offsets in a window of two axes, row by row.
LEMMA GridOffset ==
    ASSUME NEW n \in Nat \ {0}
    PROVE  /\ cells_in_window(n, 2) = n * n
           /\ \A w \in 0..n * n - 1 : /\ Offset(n, 2, w)[1] = w \div n
                                     /\ Offset(n, 2, w)[2] = w % n
<1>1. cells_in_window(n, 2) = n * n
    <2>1. PICK p : IsPower(p, n, 2) /\ cells_in_window(n, 2) = p[2]
        BY PowerExists
    <2>2. p[0] = 1 /\ p[1] = p[1 - 1] * n /\ p[2] = p[2 - 1] * n
        <3>1. 1 \in 1..2 /\ 2 \in 1..2
            OBVIOUS
        <3> QED BY <2>1, <3>1 DEF IsPower
    <2>3. p[1] = n /\ p[2] = n * n
        BY <2>2
    <2> QED BY <2>1, <2>3
<1>2. ASSUME NEW w \in 0..n * n - 1
      PROVE  Offset(n, 2, w)[1] = w \div n /\ Offset(n, 2, w)[2] = w % n
    <2>1. w \in Nat /\ w < n * n
        <3>1. n * n \in Nat
            OBVIOUS
        <3> QED BY <3>1
    <2>2. PICK t : IsDigits(t, n, 2, w) /\ Offset(n, 2, w) = [a \in 1..2 |-> t[a] % n]
        BY <2>1, DigitsExist, ZenonT(60)
    <2>3. t[2] = w /\ t[1] = t[1 + 1] \div n
        <3>1. 1 \in 0..2 - 1
            OBVIOUS
        <3> QED BY <2>2, <3>1 DEF IsDigits
    <2>4. w \div n \in Nat /\ w \div n < n
        BY <2>1, Division
    <2> DEFINE q == w \div n
    <2>5. q % n = q
        <3> HIDE DEF q
        <3>1. q \in Nat /\ q < n
            BY <2>4 DEF q
        <3> QED BY <3>1
    <2>6. Offset(n, 2, w)[1] = t[1] % n /\ Offset(n, 2, w)[2] = t[2] % n
        BY <2>2
    <2>7. t[1] = q
        BY <2>3
    <2> HIDE DEF q
    <2> QED BY <2>3, <2>5, <2>6, <2>7 DEF q
<1> QED BY <1>1, <1>2

\* Read row by row, a window of the grid is the tensor's.
LEMMA GridWindowIs ==
    ASSUME NEW shape \in Nat \X Nat, NEW cells, NEW n \in Nat \ {0}, NEW p,
           p[1] \in Int, p[2] \in Int
    PROVE  tensor_window(shape, cells, n, p) = grid_window(shape, cells, n, p[1], p[2])
<1>1. ASSUME NEW k \in 1..n * n
      PROVE  TensorCell(shape, cells, [a \in 1..2 |-> p[a] + Offset(n, 2, k - 1)[a]])
                = GridCell(shape, cells, p[1] + ((k - 1) \div n), p[2] + ((k - 1) % n))
    <2>1. k - 1 \in Nat /\ k - 1 \in 0..n * n - 1
        <3>1. n * n \in Nat
            OBVIOUS
        <3> QED BY <3>1
    <2> DEFINE w == k - 1
               q == [a \in 1..2 |-> p[a] + Offset(n, 2, w)[a]]
    <2>2. Offset(n, 2, w)[1] = w \div n /\ Offset(n, 2, w)[2] = w % n
        BY <2>1, GridOffset
    <2>3. w \div n \in Nat /\ w % n \in Nat
        <3>1. w \in Nat
            BY <2>1
        <3> HIDE DEF w
        <3> QED BY <3>1, Division
    <2> HIDE DEF w
    <2>4. q[1] = p[1] + (w \div n) /\ q[2] = p[2] + (w % n)
        BY <2>2
    <2>5. q[1] \in Int /\ q[2] \in Int
        <3> DEFINE x == w \div n
                   y == w % n
        <3>1. q[1] = p[1] + x /\ q[2] = p[2] + y /\ x \in Nat /\ y \in Nat
            BY <2>3, <2>4
        <3> HIDE DEF x, y, q
        <3> QED BY <3>1
    <2>6. TensorCell(shape, cells, q) = GridCell(shape, cells, q[1], q[2])
        <3> HIDE DEF q
        <3> QED BY <2>5, GridCellIs
    <2> HIDE DEF q
    <2>7. TensorCell(shape, cells, q) = GridCell(shape, cells, p[1] + (w \div n), p[2] + (w % n))
        BY <2>4, <2>6, Zenon
    <2> QED BY <2>7, Zenon DEF q, w
<1>2. tensor_window(shape, cells, n, p) =
        [k \in 1..n * n |-> TensorCell(shape, cells, [a \in 1..2 |-> p[a] + Offset(n, 2, k - 1)[a]])]
    BY GridShape, GridOffset, Zenon DEF tensor_window
<1> QED BY <1>1, <1>2, Zenon DEF grid_window

\* Both modules place their windows at the same anchors.
LEMMA GridAnchors ==
    ASSUME NEW shape \in Nat \X Nat, NEW n \in 1..MaxN
    PROVE  (0..shape[1] + 2 * Border - n) \X (0..shape[2] + 2 * Border - n) = TensorAnchors(shape, n)
<1> DEFINE A == 0..shape[1] + 2 * Border - n
           B == 0..shape[2] + 2 * Border - n
<1>1. /\ Border = 3 /\ n \in 1..4 /\ shape \in Seq(Nat) /\ Len(shape) = 2
      /\ shape[1] \in Nat /\ shape[2] \in Nat
    BY GridShape DEF Border, MaxN
<1>2. \A p : p \in TensorAnchors(shape, n) <=>
            /\ p \in [1..2 -> Nat]
            /\ \A a \in 1..2 : p[a] <= shape[a] + 2 * Border - n
    BY <1>1, AnchorsAre
<1>3. ASSUME NEW p \in A \X B
      PROVE  p \in TensorAnchors(shape, n)
    <2>1. PICK x \in A, y \in B : p = <<x, y>>
        OBVIOUS
    <2>2. /\ x \in Nat /\ y \in Nat /\ x <= shape[1] + 2 * Border - n
          /\ y <= shape[2] + 2 * Border - n
        BY <1>1
    <2>3. <<x, y>> \in [1..2 -> Nat]
        BY <2>2
    <2>4. \A a \in 1..2 : a = 1 \/ a = 2
        OBVIOUS
    <2> QED BY <1>2, <2>1, <2>2, <2>3, <2>4
<1>4. ASSUME NEW p \in TensorAnchors(shape, n)
      PROVE  p \in A \X B
    <2>1. /\ p \in [1..2 -> Nat] /\ p[1] <= shape[1] + 2 * Border - n
          /\ p[2] <= shape[2] + 2 * Border - n
        BY <1>2
    <2>2. p[1] \in A /\ p[2] \in B
        BY <1>1, <2>1
    <2>3. p = <<p[1], p[2]>>
        BY <2>1
    <2> HIDE DEF A, B
    <2> QED BY <2>2, <2>3
<1> QED BY <1>3, <1>4

\* Both modules set the same bits and make the same tables.
LEMMA GridIngest ==
    ASSUME NEW h, NEW shape \in Nat \X Nat, NEW cells
    PROVE  /\ ingest_grid(h, shape, cells).ch = ingest_tensor(h, shape, cells).ch
           /\ ingest_grid(h, shape, cells).luts = ingest_tensor(h, shape, cells).luts
<1> DEFINE GA(n) == IF cells = <<>> THEN {}
                    ELSE (0..shape[1] + 2 * Border - n) \X (0..shape[2] + 2 * Border - n)
           GR(n) == {a \in GA(n) : /\ a[1] - Border \in 0..shape[1] - 1
                                   /\ a[2] - Border \in 0..shape[2] - 1}
           GB(n, a) == Pos(h, seed(n, 2), grid_window(shape, cells, n, a[1], a[2]))
           TA(n) == IF cells = <<>> THEN {} ELSE TensorAnchors(shape, n)
           TB(n, p) == Pos(h, seed(n, Len(shape)), tensor_window(shape, cells, n, p))
<1>1. Len(shape) = 2
    BY GridShape
<1>2. ASSUME NEW n \in 1..4
      PROVE  GA(n) = TA(n)
    BY GridAnchors DEF MaxN
<1>3. ASSUME NEW n \in 1..4, NEW a \in TA(n)
      PROVE  /\ a[1] \in Int /\ a[2] \in Int /\ GB(n, a) = TB(n, a)
             /\ RealCell(shape, a) <=> /\ a[1] - Border \in 0..shape[1] - 1
                                       /\ a[2] - Border \in 0..shape[2] - 1
             /\ TensorCell(shape, cells, a) = GridCell(shape, cells, a[1], a[2])
    <2>1. a \in [1..2 -> Nat]
        BY <1>1, AnchorsAre, GridShape DEF MaxN
    <2>2. a[1] \in Int /\ a[2] \in Int
        BY <2>1
    <2>3. tensor_window(shape, cells, n, a) = grid_window(shape, cells, n, a[1], a[2])
        BY <2>2, GridWindowIs
    <2> QED BY <1>1, <2>2, <2>3, GridCellIs, Zenon
<1>4. ASSUME NEW n \in 1..4
      PROVE  /\ {GB(n, a) : a \in GA(n)} = {TB(n, a) : a \in TA(n)}
             /\ {<<GB(n, a), GridCell(shape, cells, a[1], a[2])>> : a \in GR(n)} =
                    {<<TB(n, p), TensorCell(shape, cells, p)>> : p \in {q \in TA(n) : RealCell(shape, q)}}
    <2>1. GR(n) = {q \in TA(n) : RealCell(shape, q)} /\ GR(n) \subseteq TA(n)
        <3> HIDE DEF GA, TA, GB, TB
        <3> QED BY <1>2, <1>3
    <2>2. GA(n) = TA(n) /\ \A a \in TA(n) : GB(n, a) = TB(n, a)
        BY <1>2, <1>3
    <2>3. \A a \in GR(n) : <<GB(n, a), GridCell(shape, cells, a[1], a[2])>>
                                = <<TB(n, a), TensorCell(shape, cells, a)>>
        BY <1>3, <2>1, Zenon
    <2> HIDE DEF GA, TA, GR, GB, TB
    <2> QED BY <2>1, <2>2, <2>3
<1> HIDE DEF GA, TA, GR, GB, TB
<1>5. ingest_grid(h, shape, cells).ch = [n \in 1..4 |-> {GB(n, a) : a \in GA(n)}]
    BY DEF ingest_grid, GA, GB
<1>6. ingest_tensor(h, shape, cells).ch = [n \in 1..4 |-> {TB(n, a) : a \in TA(n)}]
    BY DEF ingest_tensor, TA, TB
<1>7. ingest_grid(h, shape, cells).luts =
        [n \in 1..3 |-> {<<GB(n, a), GridCell(shape, cells, a[1], a[2])>> : a \in GR(n)}]
    BY DEF ingest_grid, GA, GB, GR
<1>8. ingest_tensor(h, shape, cells).luts =
        [n \in 1..3 |-> {<<TB(n, p), TensorCell(shape, cells, p)>> :
                            p \in {q \in TA(n) : RealCell(shape, q)}}]
    BY DEF ingest_tensor, TA, TB
<1>9. \A n \in 1..3 : n \in 1..4
    OBVIOUS
<1>10. ingest_grid(h, shape, cells).ch = ingest_tensor(h, shape, cells).ch
    BY <1>4, <1>5, <1>6, Zenon
<1>11. ingest_grid(h, shape, cells).luts = ingest_tensor(h, shape, cells).luts
    <2> DEFINE GL(n) == {<<GB(n, a), GridCell(shape, cells, a[1], a[2])>> : a \in GR(n)}
               TL(n) == {<<TB(n, p), TensorCell(shape, cells, p)>> :
                            p \in {q \in TA(n) : RealCell(shape, q)}}
    <2>1. \A n \in 1..3 : GL(n) = TL(n)
        BY <1>4, <1>9, Zenon
    <2>2. ingest_grid(h, shape, cells).luts = [n \in 1..3 |-> GL(n)]
        BY <1>7
    <2>3. ingest_tensor(h, shape, cells).luts = [n \in 1..3 |-> TL(n)]
        BY <1>8
    <2> HIDE DEF GL, TL
    <2> QED BY <2>1, <2>2, <2>3
<1> QED BY <1>10, <1>11

\* Row and column of an index.
LEMMA GridMulti ==
    ASSUME NEW shape \in Nat \X Nat, shape[1] * shape[2] > 0, NEW idx \in Nat
    PROVE  /\ to_multi(idx, shape)[1] = idx \div shape[2] /\ idx \div shape[2] \in Nat
           /\ to_multi(idx, shape)[2] = idx % shape[2] /\ idx % shape[2] \in Nat
<1>1. /\ shape \in Seq(Nat) /\ Len(shape) = 2 /\ shape[2] \in Nat \ {0}
      /\ strides(shape)[2] = 1 /\ strides(shape)[1] = shape[2] /\ strides(shape)[0] > 0
    <2>1. shape[1] \in Nat /\ shape[2] \in Nat
        BY GridShape
    <2>2. shape[2] # 0
        BY <2>1
    <2> QED BY <2>1, <2>2, GridShape
<1>2. PICK r : /\ IsRest(r, idx, shape)
              /\ to_multi(idx, shape) = [a \in 1..2 |-> r[a - 1] \div strides(shape)[a]]
    <2>1. \E r : /\ IsRest(r, idx, shape)
                 /\ to_multi(idx, shape) =
                        [a \in 1..Len(shape) |-> r[a - 1] \div strides(shape)[a]]
        BY <1>1, RestExists
    <2> QED BY <1>1, <2>1, Zenon
<1>3. r[0] = idx /\ r[1] = r[1 - 1] % strides(shape)[1]
    <2>1. 1 \in 1..2
        OBVIOUS
    <2> QED BY <1>1, <1>2, <2>1 DEF IsRest
<1>4. /\ to_multi(idx, shape)[1] = r[1 - 1] \div strides(shape)[1]
      /\ to_multi(idx, shape)[2] = r[2 - 1] \div strides(shape)[2]
    <2>1. 1 \in 1..2 /\ 2 \in 1..2
        OBVIOUS
    <2> QED BY <1>2, <2>1, Zenon
<1>5. 1 - 1 = 0 /\ 2 - 1 = 1
    OBVIOUS
<1> DEFINE x == idx \div shape[2]
           y == idx % shape[2]
<1>6. x \in Nat /\ y \in Nat
    BY <1>1, Division
<1>7. to_multi(idx, shape)[1] = x /\ to_multi(idx, shape)[2] = y \div 1
    BY <1>1, <1>3, <1>4, <1>5, Zenon
<1> HIDE DEF x, y
<1>8. y \div 1 = y
    BY <1>6
<1> QED BY <1>6, <1>7, <1>8 DEF x, y

\* Both modules judge a candidate alike.
LEMMA GridSuccessor ==
    ASSUME NEW i, i.shape \in Nat \X Nat, i.shape[1] * i.shape[2] > 0,
           NEW pth, Len(pth) \in Nat, NEW x
    PROVE  grid_successor_ok(i, pth, x) = tensor_successor_ok(i, pth, x)
<1> DEFINE sh == i.shape
           at == to_multi(Len(pth), sh)
           G(n) == contains(i, n, grid_window(sh, Append(pth, x), n,
                        (Len(pth) \div sh[2]) + MaxN - n, (Len(pth) % sh[2]) + MaxN - n))
           T(n) == contains(i, n, tensor_window(sh, Append(pth, x), n,
                        [a \in 1..2 |-> at[a] + MaxN - n]))
<1>1. Len(sh) = 2
    BY GridShape
<1>2. /\ at[1] = Len(pth) \div sh[2] /\ at[1] \in Nat
      /\ at[2] = Len(pth) % sh[2] /\ at[2] \in Nat
    <2>1. sh \in Nat \X Nat /\ sh[1] * sh[2] > 0
        OBVIOUS
    <2> HIDE DEF sh
    <2> QED BY <2>1, GridMulti
<1> HIDE DEF at
<1>3. ASSUME NEW n \in 2..MaxN
      PROVE  G(n) = T(n)
    <2> DEFINE p == [a \in 1..2 |-> at[a] + MaxN - n]
    <2>1. MaxN \in Nat /\ n \in Nat \ {0}
        BY DEF MaxN
    <2>2. p[1] = at[1] + MaxN - n /\ p[2] = at[2] + MaxN - n
        OBVIOUS
    <2>3. p[1] \in Int /\ p[2] \in Int
        BY <1>2, <2>1, <2>2
    <2> HIDE DEF p
    <2>4. tensor_window(sh, Append(pth, x), n, p) =
            grid_window(sh, Append(pth, x), n, p[1], p[2])
        BY <2>1, <2>3, GridWindowIs
    <2>5. /\ p[1] = (Len(pth) \div sh[2]) + MaxN - n
          /\ p[2] = (Len(pth) % sh[2]) + MaxN - n
        BY <1>2, <2>2, Zenon
    <2>6. tensor_window(sh, Append(pth, x), n, p) =
            grid_window(sh, Append(pth, x), n,
                        (Len(pth) \div sh[2]) + MaxN - n, (Len(pth) % sh[2]) + MaxN - n)
        BY <2>4, <2>5, Zenon
    <2> QED BY <2>6, Zenon DEF p
<1>4. grid_successor_ok(i, pth, x) = \A n \in 2..MaxN : G(n)
    BY DEF grid_successor_ok
<1>5. tensor_successor_ok(i, pth, x) = \A n \in 2..MaxN : T(n)
    BY <1>1, Zenon DEF tensor_successor_ok, at
<1> HIDE DEF G, T
<1> QED BY <1>3, <1>4, <1>5

\* And a complete path.
LEMMA GridTermination ==
    ASSUME NEW i, i.shape \in Nat \X Nat, NEW pth
    PROVE  grid_termination_ok(i, pth) = tensor_termination_ok(i, pth)
<1> DEFINE sh == i.shape
           G(n) == contains(i, n, grid_window(sh, pth, n, sh[1] + MaxN - 1 - n, sh[2] + MaxN - n))
           T(n) == contains(i, n, tensor_window(sh, pth, n,
                        [a \in 1..2 |-> sh[a] + (IF a = 2 THEN 3 ELSE 2) - (n - 1)]))
<1>1. Len(sh) = 2 /\ sh[1] \in Nat /\ sh[2] \in Nat
    BY GridShape
<1>2. ASSUME NEW n \in 2..MaxN
      PROVE  G(n) = T(n)
    <2> DEFINE p == [a \in 1..2 |-> sh[a] + (IF a = 2 THEN 3 ELSE 2) - (n - 1)]
    <2>1. MaxN = 4 /\ n \in Nat \ {0}
        BY DEF MaxN
    <2>2. p[1] = sh[1] + 2 - (n - 1) /\ p[2] = sh[2] + 3 - (n - 1)
        OBVIOUS
    <2>3. /\ p[1] \in Int /\ p[2] \in Int
          /\ p[1] = sh[1] + MaxN - 1 - n /\ p[2] = sh[2] + MaxN - n
        <3> HIDE DEF sh, p
        <3> QED BY <1>1, <2>1, <2>2
    <2> HIDE DEF p
    <2>4. tensor_window(sh, pth, n, p) = grid_window(sh, pth, n, p[1], p[2])
        BY <2>1, <2>3, GridWindowIs
    <2>5. tensor_window(sh, pth, n, p) =
            grid_window(sh, pth, n, sh[1] + MaxN - 1 - n, sh[2] + MaxN - n)
        BY <2>3, <2>4, Zenon
    <2> QED BY <2>5 DEF p
<1>3. grid_termination_ok(i, pth) = \A n \in 2..MaxN : G(n)
    BY DEF grid_termination_ok
<1>4. tensor_termination_ok(i, pth) = \A n \in 2..MaxN : T(n)
    BY <1>1, Zenon DEF tensor_termination_ok
<1> HIDE DEF G, T
<1> QED BY <1>2, <1>3, <1>4

-----------------------------------------------------------------------------
(* What a tensor's ingest makes; a grid's makes the same.                    *)

TensorLike(i) ==
    /\ i.shape \in Seq(Nat) /\ i.cells \in Seq(Tokens)
    /\ Len(i.cells) = strides(i.shape)[0]
    /\ i.ch = ingest_tensor(i.hash, i.shape, i.cells).ch
    /\ i.luts = ingest_tensor(i.hash, i.shape, i.cells).luts

\* A cell that is not border holds an ingested token.
LEMMA TensorCellReal ==
    ASSUME NEW i, TensorLike(i), NEW p, RealCell(i.shape, p),
           \A a \in 1..Len(i.shape) : p[a] \in Int
    PROVE  /\ CellIndex(i.shape, p) \in 0..Len(i.cells) - 1
           /\ TensorCell(i.shape, i.cells, p) = i.cells[CellIndex(i.shape, p) + 1]
           /\ TensorCell(i.shape, i.cells, p) \in Tokens
<1>1. CellIndex(i.shape, p) \in 0..Len(i.cells) - 1
    BY CellIndexRange DEF TensorLike
<1>2. TensorCell(i.shape, i.cells, p) = i.cells[CellIndex(i.shape, p) + 1]
    BY DEF TensorCell
<1>3. CellIndex(i.shape, p) + 1 \in 1..Len(i.cells) /\ i.cells \in Seq(Tokens)
    BY <1>1 DEF TensorLike
<1> QED BY <1>1, <1>2, <1>3

\* A row of a table of a tensor names an ingested token.
LEMMA TensorLuts ==
    ASSUME NEW i, TensorLike(i), NEW n \in 1..3, NEW r \in i.luts[n]
    PROVE  \E k \in 1..Len(i.cells) : r[2] = i.cells[k]
<1> DEFINE TA == IF i.cells = <<>> THEN {} ELSE TensorAnchors(i.shape, n)
           TB(p) == Pos(i.hash, seed(n, Len(i.shape)), tensor_window(i.shape, i.cells, n, p))
<1>1. i.luts[n] = {<<TB(p), TensorCell(i.shape, i.cells, p)>> : p \in {q \in TA : RealCell(i.shape, q)}}
    BY DEF TensorLike, ingest_tensor
<1> HIDE DEF TB
<1>2. PICK p \in TensorAnchors(i.shape, n) :
            RealCell(i.shape, p) /\ r[2] = TensorCell(i.shape, i.cells, p)
    BY <1>1
<1>3. p \in [1..Len(i.shape) -> Nat]
    BY AnchorsAre DEF TensorLike, MaxN
<1>4. /\ CellIndex(i.shape, p) \in 0..Len(i.cells) - 1
      /\ TensorCell(i.shape, i.cells, p) = i.cells[CellIndex(i.shape, p) + 1]
    BY <1>2, <1>3, TensorCellReal
<1> DEFINE k == CellIndex(i.shape, p) + 1
<1>5. k \in 1..Len(i.cells) /\ Len(i.cells) \in Nat
    BY <1>4 DEF TensorLike
<1> QED BY <1>2, <1>4, <1>5

\* Every window of the ingested cells has its bit in the ingest.
LEMMA TensorHit ==
    ASSUME NEW i, TensorLike(i), i.cells # <<>>, NEW n \in 1..4, NEW p \in TensorAnchors(i.shape, n)
    PROVE  contains(i, n, tensor_window(i.shape, i.cells, n, p))
<1> DEFINE TB(q) == Pos(i.hash, seed(n, Len(i.shape)), tensor_window(i.shape, i.cells, n, q))
<1>1. i.ch[n] = {TB(q) : q \in TensorAnchors(i.shape, n)}
    BY DEF TensorLike, ingest_tensor
<1>2. TB(p) \in i.ch[n]
    <2> HIDE DEF TB
    <2> QED BY <1>1
<1> QED BY <1>2 DEF contains

\* The next position to fill is a cell of the tensor.
LEMMA CandidatePosition ==
    ASSUME NEW i, TensorLike(i), NEW k \in 0..Len(i.cells) - 1
    PROVE  /\ to_multi(k, i.shape) \in [1..Len(i.shape) -> Nat]
           /\ \A a \in 1..Len(i.shape) : /\ to_multi(k, i.shape)[a] \in 0..i.shape[a] - 1
                                         /\ to_multi(k, i.shape)[a] \in Nat
                                         /\ i.shape[a] \in Nat
           /\ CellIndex(i.shape, [a \in 1..Len(i.shape) |-> to_multi(k, i.shape)[a] + Border]) = k
<1>1. i.shape \in Seq(Nat) /\ k \in 0..strides(i.shape)[0] - 1
    BY DEF TensorLike
<1>2. /\ to_multi(k, i.shape) \in [1..Len(i.shape) -> Nat]
      /\ \A a \in 1..Len(i.shape) : to_multi(k, i.shape)[a] \in 0..i.shape[a] - 1
      /\ CellIndex(i.shape, [a \in 1..Len(i.shape) |-> to_multi(k, i.shape)[a] + Border]) = k
    BY <1>1, ToMulti
<1>3. \A a \in 1..Len(i.shape) : i.shape[a] \in Nat /\ to_multi(k, i.shape)[a] \in Nat
    BY <1>1, <1>2
<1> QED BY <1>2, <1>3

\* The cells up to the one at idx, x in its place.
LEMMA PastCells ==
    ASSUME NEW i, TensorLike(i), NEW k \in 0..Len(i.cells) - 1, NEW x \in Tokens, NEW q,
           \A a \in 1..Len(i.shape) : q[a] \in Int /\ q[a] <= to_multi(k, i.shape)[a] + Border,
           RealCell(i.shape, q)
    PROVE  /\ CellIndex(i.shape, q) \in 0..k
           /\ TensorCell(i.shape, Append(SubSeq(i.cells, 1, k), x), q) =
                IF CellIndex(i.shape, q) = k THEN x ELSE i.cells[CellIndex(i.shape, q) + 1]
<1> DEFINE sh == i.shape
           at == to_multi(k, sh)
           p == [a \in 1..Len(sh) |-> at[a] + Border]
           c == CellIndex(sh, q)
<1>1. at \in [1..Len(sh) -> Nat] /\ CellIndex(sh, p) = k
    BY ToMulti DEF TensorLike
<1>2. c <= k /\ c \in Int
    <2>1. \A a \in 1..Len(sh) : q[a] \in Int /\ p[a] \in Int /\ q[a] <= p[a]
        BY <1>1, SMTT(40) DEF Border, MaxN
    <2>2. sh \in Seq(Nat)
        BY DEF TensorLike
    <2> HIDE DEF p, sh
    <2>3. CellIndex(sh, q) \in Int /\ CellIndex(sh, q) <= CellIndex(sh, p)
        BY <2>1, <2>2, CellIndexMono
    <2> QED BY <1>1, <2>3
<1>3. c \in 0..Len(i.cells) - 1
    BY TensorCellReal
<1>4. c \in 0..k
    BY <1>2, <1>3
<1>5. TensorCell(sh, Append(SubSeq(i.cells, 1, k), x), q) = Append(SubSeq(i.cells, 1, k), x)[c + 1]
    BY DEF TensorCell
<1>6. i.cells \in Seq(Tokens) /\ Len(i.cells) \in Nat
    BY DEF TensorLike
<1> HIDE DEF c
<1> DEFINE w == SubSeq(i.cells, 1, k)
<1>7. w \in Seq(Tokens) /\ Len(w) = k /\ \A m \in 1..k : w[m] = i.cells[m]
    BY <1>6
<1> HIDE DEF w
<1>8. Append(w, x)[c + 1] = IF c = k THEN x ELSE i.cells[c + 1]
    <2>1. CASE c = k
        BY <1>7, <2>1
    <2>2. CASE c # k
        <3>1. c + 1 \in 1..k
            BY <1>4, <2>2
        <3>2. Append(w, x)[c + 1] = w[c + 1]
            BY <1>7, <3>1
        <3> QED BY <1>7, <2>2, <3>1, <3>2
    <2> QED BY <2>1, <2>2
<1> QED BY <1>4, <1>5, <1>8 DEF c, w

\* The anchors of a candidate are visited by the ingest.
LEMMA CandidateAnchor ==
    ASSUME NEW i, TensorLike(i), NEW k \in 0..Len(i.cells) - 1, NEW n \in 2..MaxN
    PROVE  /\ [a \in 1..Len(i.shape) |-> to_multi(k, i.shape)[a] + MaxN - n] \in TensorAnchors(i.shape, n)
           /\ \A a \in 1..Len(i.shape) : to_multi(k, i.shape)[a] \in 0..i.shape[a] - 1
<1> DEFINE sh == i.shape
           at == to_multi(k, sh)
           p == [a \in 1..Len(sh) |-> at[a] + MaxN - n]
<1>1. \A a \in 1..Len(sh) : at[a] \in 0..sh[a] - 1 /\ sh[a] \in Nat
    BY CandidatePosition
<1>2. MaxN = 4 /\ Border = 3 /\ n \in 2..4 /\ n \in 1..MaxN
    BY DEF MaxN, Border
<1> HIDE DEF at, sh
<1>3. ASSUME NEW a \in 1..Len(sh)
      PROVE  at[a] + MaxN - n \in Nat /\ at[a] + MaxN - n <= sh[a] + 2 * Border - n
    BY <1>1, <1>2
<1>4. p \in [1..Len(sh) -> Nat] /\ \A a \in 1..Len(sh) : p[a] <= sh[a] + 2 * Border - n
    BY <1>3
<1> HIDE DEF p
<1>5. p \in TensorAnchors(sh, n)
    BY <1>2, <1>4, AnchorsAre DEF TensorLike, sh
<1> QED BY <1>1, <1>5 DEF p, sh, at

\* The next cell is a candidate behind those before it.
LEMMA TensorFollows ==
    ASSUME NEW i, TensorLike(i), NEW k \in 0..Len(i.cells) - 1
    PROVE  tensor_successor_ok(i, SubSeq(i.cells, 1, k), i.cells[k + 1])
<1> DEFINE sh == i.shape
           at == to_multi(k, sh)
           d == Append(SubSeq(i.cells, 1, k), i.cells[k + 1])
           p(n) == [a \in 1..Len(sh) |-> at[a] + MaxN - n]
<1>1. i.cells \in Seq(Tokens) /\ i.cells[k + 1] \in Tokens /\ Len(SubSeq(i.cells, 1, k)) = k
    BY DEF TensorLike
<1>2. ASSUME NEW n \in 2..MaxN
      PROVE  contains(i, n, tensor_window(sh, d, n, p(n)))
    <2> DEFINE q(m) == [a \in 1..Len(sh) |-> p(n)[a] + Offset(n, Len(sh), m - 1)[a]]
    <2>1. ASSUME NEW m \in 1..cells_in_window(n, Len(sh))
          PROVE  TensorCell(sh, d, q(m)) = TensorCell(sh, i.cells, q(m))
        <3>1. /\ MaxN = 4 /\ Border = 3 /\ n \in 2..4 /\ n \in Nat \ {0} /\ m - 1 \in Nat
              /\ Len(sh) \in Nat
            BY DEF MaxN, Border, TensorLike
        <3> DEFINE o == Offset(n, Len(sh), m - 1)
        <3>2. \A a \in 1..Len(sh) : o[a] \in 0..n - 1 /\ at[a] \in Nat
            <4>1. o \in [1..Len(sh) -> 0..n - 1]
                BY <3>1, OffsetRange
            <4> QED BY <4>1, CandidatePosition
        <3> HIDE DEF o, at
        <3>3. \A a \in 1..Len(sh) : q(m)[a] = at[a] + MaxN - n + o[a]
            BY DEF o
        <3> DEFINE z == q(m)
        <3>4. \A a \in 1..Len(sh) : z[a] \in Int /\ z[a] <= at[a] + Border
            <4> HIDE DEF z
            <4> SUFFICES ASSUME NEW a \in 1..Len(sh)
                         PROVE  z[a] \in Int /\ z[a] <= at[a] + Border
                OBVIOUS
            <4>1. z[a] = at[a] + MaxN - n + o[a]
                BY <3>3 DEF z
            <4> QED BY <3>1, <3>2, <4>1
        <3> HIDE DEF z
        <3>5. CASE RealCell(sh, z)
            <4>1. /\ CellIndex(sh, z) \in 0..k
                  /\ TensorCell(sh, d, z) =
                        IF CellIndex(sh, z) = k THEN i.cells[k + 1] ELSE i.cells[CellIndex(sh, z) + 1]
                BY <1>1, <3>4, <3>5, PastCells, SMTT(40) DEF at
            <4>2. TensorCell(sh, i.cells, z) = i.cells[CellIndex(sh, z) + 1]
                BY <3>5 DEF TensorCell
            <4> HIDE DEF d
            <4>3. TensorCell(sh, d, z) = TensorCell(sh, i.cells, z)
                BY <4>1, <4>2
            <4> QED BY <4>3, Zenon DEF z
        <3>6. CASE ~RealCell(sh, z)
            <4>1. TensorCell(sh, d, z) = TensorCell(sh, i.cells, z)
                BY <3>6, Zenon DEF TensorCell
            <4> QED BY <4>1, Zenon DEF z
        <3> QED BY <3>5, <3>6
    <2>2. tensor_window(sh, d, n, p(n)) = tensor_window(sh, i.cells, n, p(n))
        <3> HIDE DEF d
        <3>1. tensor_window(sh, d, n, p(n)) =
                [m \in 1..cells_in_window(n, Len(sh)) |-> TensorCell(sh, d, q(m))]
            BY Zenon DEF tensor_window
        <3>2. tensor_window(sh, i.cells, n, p(n)) =
                [m \in 1..cells_in_window(n, Len(sh)) |-> TensorCell(sh, i.cells, q(m))]
            BY Zenon DEF tensor_window
        <3> HIDE DEF q
        <3> QED BY <2>1, <3>1, <3>2, Zenon
    <2>3. p(n) \in TensorAnchors(sh, n) /\ n \in 1..4 /\ i.cells # <<>>
        <3>1. i.cells # <<>>
            BY <1>1
        <3>2. p(n) \in TensorAnchors(sh, n)
            BY CandidateAnchor
        <3> HIDE DEF p
        <3> QED BY <3>1, <3>2 DEF MaxN
    <2> HIDE DEF p, d
    <2> QED BY <2>2, <2>3, TensorHit
<1>3. tensor_successor_ok(i, SubSeq(i.cells, 1, k), i.cells[k + 1]) =
        \A n \in 2..MaxN : contains(i, n, tensor_window(sh, d, n, p(n)))
    BY <1>1, Zenon DEF tensor_successor_ok
<1> HIDE DEF p, d
<1> QED BY <1>2, <1>3

\* The ingested cells of a tensor pass the check of a complete path.
LEMMA TensorEnds ==
    ASSUME NEW i, TensorLike(i), i.cells # <<>>
    PROVE  tensor_termination_ok(i, i.cells)
<1> DEFINE sh == i.shape
           dim == Len(sh)
           p(n) == [a \in 1..dim |-> sh[a] + (IF a = dim THEN 3 ELSE 2) - (n - 1)]
<1>1. ASSUME NEW n \in 2..MaxN
      PROVE  contains(i, n, tensor_window(sh, i.cells, n, p(n)))
    <2>1. MaxN = 4 /\ Border = 3 /\ n \in 2..4 /\ n \in 1..MaxN /\ n \in 1..4
        BY DEF MaxN, Border
    <2>2. \A a \in 1..dim : sh[a] \in Nat
        BY DEF TensorLike
    <2>3. \A a \in 1..dim : sh[a] # 0
        <3>1. strides(sh)[0] > 0 /\ sh \in Seq(Nat) /\ Len(i.cells) = strides(sh)[0]
            <4>1. Len(i.cells) \in Nat /\ Len(i.cells) # 0
                BY DEF TensorLike
            <4> QED BY <4>1 DEF TensorLike
        <3> HIDE DEF sh
        <3>2. \A a \in 0..Len(sh) : a > 0 => sh[a] \in Nat \ {0}
            BY <3>1, StridesPositive
        <3>3. Len(sh) \in Nat
            BY <3>1
        <3> QED BY <3>2, <3>3
    <2>4. ASSUME NEW a \in 1..dim
          PROVE  p(n)[a] \in Nat /\ p(n)[a] <= sh[a] + 2 * Border - n
        <3>1. p(n)[a] = sh[a] + 3 - (n - 1) \/ p(n)[a] = sh[a] + 2 - (n - 1)
            OBVIOUS
        <3>2. sh[a] \in Nat /\ sh[a] # 0
            BY <2>2, <2>3
        <3> HIDE DEF p, sh
        <3> QED BY <2>1, <3>1, <3>2
    <2>5. p(n) \in [1..dim -> Nat] /\ \A a \in 1..dim : p(n)[a] <= sh[a] + 2 * Border - n
        <3>1. p(n) = [a \in 1..dim |-> p(n)[a]]
            OBVIOUS
        <3> HIDE DEF p
        <3> QED BY <2>4, <3>1
    <2> HIDE DEF p
    <2>6. p(n) \in TensorAnchors(sh, n)
        BY <2>1, <2>5, AnchorsAre DEF TensorLike
    <2> QED BY <2>1, <2>6, TensorHit
<1>2. tensor_termination_ok(i, i.cells) =
        \A n \in 2..MaxN : contains(i, n, tensor_window(sh, i.cells, n, p(n)))
    BY Zenon DEF tensor_termination_ok
<1> HIDE DEF p
<1> QED BY <1>1, <1>2

-----------------------------------------------------------------------------
(* What a sequence's ingest makes.                                           *)

SeqLike(i) == i.cells \in Seq(Tokens) /\ i = ingest(i.hash, i.cells)

\* A sequence between one element and two.
LEMMA Surrounded ==
    ASSUME NEW S, NEW a \in Seq(S), NEW s \in Seq(S), NEW b \in Seq(S), Len(a) = 1, Len(b) = 2
    PROVE  /\ (a \o s) \o b \in Seq(S) /\ Len((a \o s) \o b) = Len(s) + 3
           /\ ((a \o s) \o b)[1] = a[1]
           /\ ((a \o s) \o b)[Len(s) + 2] = b[1] /\ ((a \o s) \o b)[Len(s) + 3] = b[2]
           /\ \A k \in 1..Len(s) : ((a \o s) \o b)[k + 1] = s[k]
<1>1. ASSUME NEW u \in Seq(S), NEW v \in Seq(S)
      PROVE  /\ u \o v \in Seq(S) /\ Len(u \o v) = Len(u) + Len(v)
             /\ \A k \in 1..Len(u) : (u \o v)[k] = u[k]
             /\ \A k \in 1..Len(v) : (u \o v)[Len(u) + k] = v[k]
    OBVIOUS
<1> DEFINE c == a \o s
           d == c \o b
<1>2. /\ c \in Seq(S) /\ Len(c) = Len(a) + Len(s)
      /\ \A k \in 1..Len(a) : c[k] = a[k]
      /\ \A k \in 1..Len(s) : c[Len(a) + k] = s[k]
    BY <1>1
<1> HIDE DEF c
<1>3. /\ d \in Seq(S) /\ Len(d) = Len(c) + Len(b)
      /\ \A k \in 1..Len(c) : d[k] = c[k]
      /\ \A k \in 1..Len(b) : d[Len(c) + k] = b[k]
    BY <1>1, <1>2
<1> HIDE DEF d
<1>4. /\ Len(s) \in Nat /\ Len(c) = Len(s) + 1 /\ c[1] = a[1]
    BY <1>2
<1>5. \A k \in 1..Len(s) : c[k + 1] = s[k]
    <2>1. \A k \in 1..Len(s) : Len(a) + k = k + 1
        BY <1>4
    <2> QED BY <1>2, <2>1
<1>6. Len(d) = Len(s) + 3 /\ d[1] = a[1]
    BY <1>3, <1>4
<1>7. \A k \in 1..Len(s) : d[k + 1] = s[k]
    BY <1>3, <1>4, <1>5
<1>8. d[Len(s) + 2] = b[1] /\ d[Len(s) + 3] = b[2]
    <2>1. 1 \in 1..Len(b) /\ 2 \in 1..Len(b) /\ Len(c) + 1 = Len(s) + 2 /\ Len(c) + 2 = Len(s) + 3
        BY <1>4
    <2>2. d[Len(c) + 1] = b[1] /\ d[Len(c) + 2] = b[2]
        BY <1>3, <2>1
    <2> QED BY <2>1, <2>2
<1> QED BY <1>3, <1>6, <1>7, <1>8 DEF d, c

\* A padded sequence: one pad before it and two after.
LEMMA PaddedIs ==
    ASSUME NEW s \in Seq(Tokens)
    PROVE  /\ padded(s) \in Seq(Tokens \cup {Pad}) /\ Len(padded(s)) = Len(s) + 3
           /\ Len(s) \in Nat
           /\ padded(s)[1] = Pad /\ padded(s)[Len(s) + 2] = Pad /\ padded(s)[Len(s) + 3] = Pad
           /\ \A k \in 1..Len(s) : padded(s)[k + 1] = s[k]
<1> DEFINE A == <<Pad>>
           B == <<Pad, Pad>>
           T == Tokens \cup {Pad}
<1>1. /\ A \in Seq(T) /\ B \in Seq(T) /\ s \in Seq(T) /\ Len(A) = 1 /\ Len(B) = 2
      /\ A[1] = Pad /\ B[1] = Pad /\ B[2] = Pad /\ Len(s) \in Nat
    OBVIOUS
<1>2. padded(s) = (A \o s) \o B
    BY DEF padded
<1> HIDE DEF A, B, T
<1>3. /\ padded(s) \in Seq(T) /\ Len(padded(s)) = Len(s) + 3
      /\ padded(s)[1] = A[1]
      /\ padded(s)[Len(s) + 2] = B[1] /\ padded(s)[Len(s) + 3] = B[2]
      /\ \A k \in 1..Len(s) : padded(s)[k + 1] = s[k]
    <2> DEFINE D == (A \o s) \o B
    <2>1. /\ D \in Seq(T) /\ Len(D) = Len(s) + 3
          /\ D[1] = A[1]
          /\ D[Len(s) + 2] = B[1] /\ D[Len(s) + 3] = B[2]
          /\ \A k \in 1..Len(s) : D[k + 1] = s[k]
        BY <1>1, Surrounded, SMTT(40)
    <2> HIDE DEF D
    <2>2. padded(s) = D
        BY <1>2 DEF D
    <2> QED BY <2>1, <2>2
<1> QED BY <1>1, <1>3 DEF T

SeqWindows(s, n) == IF s = <<>> THEN {} ELSE windows(padded(s), n)
SeqBit(h, n, w) == Pos(h, seed(n, 1), w)
SeqBits(h, s, n) == {SeqBit(h, n, w[2]) : w \in SeqWindows(s, n)}
SeqRows(h, s, n) ==
    {<<SeqBit(h, n, w[2]), w[2][1]>> : w \in {v \in SeqWindows(s, n) : v[1] - 1 \in 1..Len(s)}}

\* The fields of the ingest of a sequence.
LEMMA SeqFields ==
    ASSUME NEW i, SeqLike(i)
    PROVE  /\ i.kind = "seq" /\ Len(i.shape) = 1
           /\ i.ch = [n \in 1..4 |-> SeqBits(i.hash, i.cells, n)]
           /\ i.luts = [n \in 1..3 |-> SeqRows(i.hash, i.cells, n)]
<1> DEFINE c == i.cells
           h == i.hash
<1>1. i = ingest(h, c)
    BY DEF SeqLike
<1> HIDE DEF c, h
<1>2. /\ i.kind = "seq" /\ Len(i.shape) = 1
      /\ i.ch = [n \in 1..4 |-> SeqBits(h, c, n)]
      /\ i.luts = [n \in 1..3 |-> SeqRows(h, c, n)]
    BY <1>1 DEF ingest, SeqWindows, SeqBit, SeqBits, SeqRows
<1> QED BY <1>2 DEF c, h

\* Every window of the padded sequence was set, and only those.
LEMMA SeqHit ==
    ASSUME NEW i, SeqLike(i), i.cells # <<>>, NEW n \in 1..4, NEW w
    PROVE  contains(i, n, w) <=>
              \E k \in 1..Len(i.cells) + 4 - n :
                  Pos(i.hash, seed(n, 1), w)
                    = Pos(i.hash, seed(n, 1), SubSeq(padded(i.cells), k, k + n - 1))
<1> DEFINE S(k) == SubSeq(padded(i.cells), k, k + n - 1)
           K == 1..Len(i.cells) + 4 - n
<1>1. contains(i, n, w) <=> SeqBit(i.hash, n, w) \in SeqBits(i.hash, i.cells, n)
    <2>1. i.ch = [m \in 1..4 |-> SeqBits(i.hash, i.cells, m)] /\ Len(i.shape) = 1
        BY SeqFields
    <2>2. i.ch[n] = SeqBits(i.hash, i.cells, n)
        BY <2>1
    <2> QED BY <2>1, <2>2, Zenon DEF contains, SeqBit
<1>2. Len(padded(i.cells)) - n + 1 = Len(i.cells) + 4 - n
    BY PaddedIs DEF SeqLike
<1>3. SeqWindows(i.cells, n) = {<<k, S(k)>> : k \in K}
    BY <1>2, Zenon DEF windows, SeqWindows
<1> HIDE DEF S, K
<1>4. ASSUME SeqBit(i.hash, n, w) \in SeqBits(i.hash, i.cells, n)
      PROVE  \E k \in K : SeqBit(i.hash, n, w) = SeqBit(i.hash, n, S(k))
    <2>1. PICK v \in SeqWindows(i.cells, n) : SeqBit(i.hash, n, w) = SeqBit(i.hash, n, v[2])
        BY <1>4 DEF SeqBits
    <2>2. PICK k \in K : v = <<k, S(k)>>
        BY <1>3
    <2>3. v[2] = S(k)
        BY <2>2
    <2> QED BY <2>1, <2>3, Zenon
<1>5. ASSUME NEW k \in K, SeqBit(i.hash, n, w) = SeqBit(i.hash, n, S(k))
      PROVE  SeqBit(i.hash, n, w) \in SeqBits(i.hash, i.cells, n)
    <2>1. <<k, S(k)>> \in SeqWindows(i.cells, n) /\ <<k, S(k)>>[2] = S(k)
        BY <1>3
    <2>2. SeqBit(i.hash, n, S(k)) \in SeqBits(i.hash, i.cells, n)
        BY <2>1, Zenon DEF SeqBits
    <2> QED BY <1>5, <2>2
<1>6. contains(i, n, w) <=> \E k \in K : SeqBit(i.hash, n, w) = SeqBit(i.hash, n, S(k))
    BY <1>1, <1>4, <1>5, Zenon
<1> QED BY <1>6 DEF SeqBit, S, K

\* A row of a table of a sequence names an ingested token.
LEMMA SeqLuts ==
    ASSUME NEW i, SeqLike(i), NEW n \in 1..3, NEW r \in i.luts[n]
    PROVE  \E k \in 1..Len(i.cells) : r[2] = i.cells[k]
<1>1. r \in SeqRows(i.hash, i.cells, n)
    <2>1. i.luts = [m \in 1..3 |-> SeqRows(i.hash, i.cells, m)]
        BY SeqFields
    <2>2. i.luts[n] = SeqRows(i.hash, i.cells, n)
        BY <2>1
    <2> QED BY <2>2
<1>2. PICK w \in SeqWindows(i.cells, n) : w[1] - 1 \in 1..Len(i.cells) /\ r[2] = w[2][1]
    BY <1>1 DEF SeqRows
<1>3. PICK k \in 1..(Len(padded(i.cells)) - n + 1) : w = <<k, SubSeq(padded(i.cells), k, k + n - 1)>>
    BY DEF SeqWindows, windows
<1> DEFINE p == padded(i.cells)
<1>4. p \in Seq(Tokens \cup {Pad}) /\ \A m \in 1..Len(i.cells) : p[m + 1] = i.cells[m]
    BY PaddedIs DEF SeqLike
<1> HIDE DEF p
<1>5. k - 1 \in 1..Len(i.cells) /\ r[2] = SubSeq(p, k, k + n - 1)[1]
    BY <1>2, <1>3 DEF p
<1>6. SubSeq(p, k, k + n - 1)[1] = p[k]
    <2>1. k \in 1..Len(p) - n + 1
        BY <1>3 DEF p
    <2> QED BY <1>4, <2>1
<1>7. p[(k - 1) + 1] = i.cells[k - 1] /\ (k - 1) + 1 = k
    BY <1>4, <1>5
<1> QED BY <1>5, <1>6, <1>7

\* What lies behind a beginning of the cells, the pads included.
LEMMA BackIs ==
    ASSUME NEW s \in Seq(Tokens), NEW j \in 0..Len(s), NEW m \in 0..j
    PROVE  Back(SubSeq(s, 1, j), m) = padded(s)[j - m + 1]
<1>1. Len(SubSeq(s, 1, j)) = j /\ \A a \in 1..j : SubSeq(s, 1, j)[a] = s[a]
    OBVIOUS
<1>2. CASE m < j
    <2>1. j - m \in 1..j /\ j - m \in 1..Len(s)
        BY <1>2
    <2> QED BY <1>1, <1>2, <2>1, PaddedIs DEF Back
<1>3. CASE m = j
    <2>1. ~(m < j) /\ j - m + 1 = 1
        BY <1>3
    <2> QED BY <1>1, <2>1, PaddedIs DEF Back
<1> QED BY <1>2, <1>3

\* The windows of a sequence, cell by cell.
LEMMA Triples ==
    ASSUME NEW S, NEW p \in Seq(S), NEW k \in 1..Len(p)
    PROVE  /\ SubSeq(p, k, k) = <<p[k]>>
           /\ k + 1 <= Len(p) => SubSeq(p, k, k + 1) = <<p[k], p[k + 1]>>
           /\ k + 2 <= Len(p) => SubSeq(p, k, k + 2) = <<p[k], p[k + 1], p[k + 2]>>
           /\ k + 3 <= Len(p) => SubSeq(p, k, k + 3) = <<p[k], p[k + 1], p[k + 2], p[k + 3]>>
<1>1. ASSUME NEW n \in 0..3, k + n <= Len(p)
      PROVE  /\ SubSeq(p, k, k + n) \in Seq(S) /\ Len(SubSeq(p, k, k + n)) = n + 1
             /\ \A a \in 1..n + 1 : SubSeq(p, k, k + n)[a] = p[k + a - 1]
    BY <1>1
<1>2. p[k] \in S /\ \A n \in 0..3 : k + n <= Len(p) => p[k + n] \in S
    OBVIOUS
<1>3. SubSeq(p, k, k) = <<p[k]>>
    <2> DEFINE s == SubSeq(p, k, k + 0)
    <2>1. s \in Seq(S) /\ Len(s) = 1 /\ s[1] = p[k + 1 - 1]
        BY <1>1
    <2> HIDE DEF s
    <2>2. s = <<p[k]>>
        BY <1>2, <2>1
    <2> QED BY <2>2 DEF s
<1>4. ASSUME k + 1 <= Len(p)
      PROVE  SubSeq(p, k, k + 1) = <<p[k], p[k + 1]>>
    <2> DEFINE s == SubSeq(p, k, k + 1)
    <2>1. s \in Seq(S) /\ Len(s) = 2 /\ s[1] = p[k] /\ s[2] = p[k + 1]
        <3>1. /\ s \in Seq(S) /\ Len(s) = 1 + 1
              /\ \A a \in 1..1 + 1 : s[a] = p[k + a - 1]
            BY <1>1, <1>4, 1 \in 0..3
        <3> HIDE DEF s
        <3> QED BY <3>1
    <2>2. p[k] \in S /\ p[k + 1] \in S
        BY <1>2, <1>4
    <2> HIDE DEF s
    <2>3. s = <<p[k], p[k + 1]>>
        BY <2>1, <2>2
    <2> QED BY <2>3 DEF s
<1>5. ASSUME k + 2 <= Len(p)
      PROVE  SubSeq(p, k, k + 2) = <<p[k], p[k + 1], p[k + 2]>>
    <2> DEFINE s == SubSeq(p, k, k + 2)
    <2>1. s \in Seq(S) /\ Len(s) = 3 /\ s[1] = p[k] /\ s[2] = p[k + 1] /\ s[3] = p[k + 2]
        <3>1. /\ s \in Seq(S) /\ Len(s) = 2 + 1
              /\ \A a \in 1..2 + 1 : s[a] = p[k + a - 1]
            BY <1>1, <1>5, 2 \in 0..3
        <3> HIDE DEF s
        <3> QED BY <3>1
    <2>2. p[k] \in S /\ p[k + 1] \in S /\ p[k + 2] \in S
        BY <1>2, <1>5
    <2> HIDE DEF s
    <2>3. s = <<p[k], p[k + 1], p[k + 2]>>
        BY <2>1, <2>2
    <2> QED BY <2>3 DEF s
<1>6. ASSUME k + 3 <= Len(p)
      PROVE  SubSeq(p, k, k + 3) = <<p[k], p[k + 1], p[k + 2], p[k + 3]>>
    <2> DEFINE s == SubSeq(p, k, k + 3)
    <2>1. /\ s \in Seq(S) /\ Len(s) = 4
          /\ s[1] = p[k] /\ s[2] = p[k + 1] /\ s[3] = p[k + 2] /\ s[4] = p[k + 3]
        <3>1. /\ s \in Seq(S) /\ Len(s) = 3 + 1
              /\ \A a \in 1..3 + 1 : s[a] = p[k + a - 1]
            BY <1>1, <1>6, 3 \in 0..3
        <3> HIDE DEF s
        <3> QED BY <3>1
    <2>2. p[k] \in S /\ p[k + 1] \in S /\ p[k + 2] \in S /\ p[k + 3] \in S
        BY <1>2, <1>6
    <2> HIDE DEF s
    <2>3. s = <<p[k], p[k + 1], p[k + 2], p[k + 3]>>
        BY <2>1, <2>2
    <2> QED BY <2>3 DEF s
<1> QED BY <1>3, <1>4, <1>5, <1>6

\* What follows a beginning of the cells is a candidate, or the pad that ends them.
LEMMA SeqFollows ==
    ASSUME NEW i, SeqLike(i), i.cells # <<>>, NEW j \in 0..Len(i.cells)
    PROVE  SeqSuccessorOk(i, SubSeq(i.cells, 1, j), padded(i.cells)[j + 2])
<1> DEFINE s == i.cells
           p == padded(s)
           w == SubSeq(s, 1, j)
           x == p[j + 2]
<1>1. /\ s \in Seq(Tokens) /\ p \in Seq(Tokens \cup {Pad}) /\ Len(p) = Len(s) + 3 /\ Len(s) \in Nat
    BY PaddedIs DEF SeqLike
<1>2. \A m \in 0..j : Back(w, m) = p[j - m + 1]
    BY <1>1, BackIs
<1>3. Len(w) = j
    BY <1>1
<1>4. ASSUME NEW n \in 1..4, NEW k \in 1..Len(s) + 4 - n
      PROVE  contains(i, n, SubSeq(p, k, k + n - 1))
    BY SeqHit
<1> HIDE DEF p, w
<1>5. contains(i, 2, <<Back(w, 0), x>>)
    <2>1. j + 1 \in 1..Len(s) + 4 - 2 /\ 2 \in 1..4 /\ (j + 1) + 2 - 1 = (j + 1) + 1
        BY <1>1
    <2>2. contains(i, 2, SubSeq(p, j + 1, (j + 1) + 1))
        BY <1>4, <2>1
    <2>3. SubSeq(p, j + 1, (j + 1) + 1) = <<p[j + 1], p[(j + 1) + 1]>>
        <3>1. j + 1 \in 1..Len(p) /\ (j + 1) + 1 <= Len(p)
            BY <1>1
        <3> QED BY <1>1, <3>1, Triples
    <2>4. Back(w, 0) = p[j + 1]
        BY <1>2
    <2>5. (j + 1) + 1 = j + 2
        OBVIOUS
    <2> QED BY <2>2, <2>3, <2>4, <2>5
<1>6. ASSUME w # <<>>
      PROVE  contains(i, 3, <<Back(w, 1), Back(w, 0), x>>)
    <2>1. j >= 1
        BY <1>1, <1>6 DEF w
    <2>2. j \in 1..Len(s) + 4 - 3 /\ 3 \in 1..4 /\ j + 3 - 1 = j + 2
        BY <1>1, <2>1
    <2>3. contains(i, 3, SubSeq(p, j, j + 2))
        BY <1>4, <2>2
    <2>4. SubSeq(p, j, j + 2) = <<p[j], p[j + 1], p[j + 2]>>
        <3>1. j \in 1..Len(p) /\ j + 2 <= Len(p)
            BY <1>1, <2>1
        <3> QED BY <1>1, <3>1, Triples
    <2>5. Back(w, 0) = p[j + 1] /\ Back(w, 1) = p[j]
        <3>1. 0 \in 0..j /\ 1 \in 0..j /\ j - 0 + 1 = j + 1 /\ j - 1 + 1 = j
            BY <2>1
        <3>2. Back(w, 0) = p[j - 0 + 1] /\ Back(w, 1) = p[j - 1 + 1]
            BY <1>2, <3>1
        <3> QED BY <3>1, <3>2
    <2> QED BY <2>3, <2>4, <2>5
<1>7. ASSUME Len(w) >= 2
      PROVE  contains(i, 4, <<Back(w, 2), Back(w, 1), Back(w, 0), x>>)
    <2>1. j >= 2
        BY <1>3, <1>7
    <2>2. j - 1 \in 1..Len(s) + 4 - 4 /\ 4 \in 1..4 /\ (j - 1) + 4 - 1 = (j - 1) + 3
        BY <1>1, <2>1
    <2>3. contains(i, 4, SubSeq(p, j - 1, (j - 1) + 3))
        BY <1>4, <2>2
    <2>4. SubSeq(p, j - 1, (j - 1) + 3) = <<p[j - 1], p[(j - 1) + 1], p[(j - 1) + 2], p[(j - 1) + 3]>>
        <3>1. j - 1 \in 1..Len(p) /\ (j - 1) + 3 <= Len(p)
            BY <1>1, <2>1
        <3> QED BY <1>1, <3>1, Triples
    <2>5. Back(w, 0) = p[j + 1] /\ Back(w, 1) = p[j] /\ Back(w, 2) = p[j - 1]
        <3>1. /\ 0 \in 0..j /\ 1 \in 0..j /\ 2 \in 0..j
              /\ j - 0 + 1 = j + 1 /\ j - 1 + 1 = j /\ j - 2 + 1 = j - 1
            BY <2>1
        <3>2. Back(w, 0) = p[j - 0 + 1] /\ Back(w, 1) = p[j - 1 + 1] /\ Back(w, 2) = p[j - 2 + 1]
            BY <1>2, <3>1
        <3> QED BY <3>1, <3>2
    <2>6. (j - 1) + 1 = j /\ (j - 1) + 2 = j + 1 /\ (j - 1) + 3 = j + 2
        OBVIOUS
    <2> QED BY <2>3, <2>4, <2>5, <2>6
<1> HIDE DEF x
<1>8. SeqSuccessorOk(i, w, x)
    BY <1>5, <1>6, <1>7 DEF SeqSuccessorOk
<1> QED BY <1>8 DEF w, x, p

\* What a job's collection is, by its kind.
Alike(i) ==
    \/ i.kind = "seq" /\ SeqLike(i)
    \/ i.kind = "grid" /\ TensorLike(i) /\ i.shape \in Nat \X Nat
    \/ i.kind = "tensor" /\ TensorLike(i)

\* The ingested cells pass the walk's checks, whatever the kind of the collection.
LEMMA OriginalOk ==
    ASSUME NEW i, Alike(i), i.cells # <<>>
    PROVE  /\ \A k \in 0..Len(i.cells) - 1 : SuccessorOk(i, SubSeq(i.cells, 1, k), i.cells[k + 1])
           /\ EndOk(i, i.cells)
           /\ \A n \in 1..3 : \A r \in i.luts[n] : \E k \in 1..Len(i.cells) : r[2] = i.cells[k]
<1>1. CASE i.kind = "seq"
    <2>1. SeqLike(i) /\ i.cells \in Seq(Tokens) /\ Len(i.cells) \in Nat
        BY <1>1 DEF Alike, SeqLike
    <2>2. ASSUME NEW k \in 0..Len(i.cells) - 1
          PROVE  SuccessorOk(i, SubSeq(i.cells, 1, k), i.cells[k + 1])
        <3>1. k + 1 \in 1..Len(i.cells) /\ (k + 1) + 1 = k + 2 /\ k \in 0..Len(i.cells)
            BY <2>1
        <3>2. padded(i.cells)[k + 2] = i.cells[k + 1]
            BY <2>1, <3>1, PaddedIs
        <3>3. SeqSuccessorOk(i, SubSeq(i.cells, 1, k), padded(i.cells)[k + 2])
            BY <2>1, <3>1, SeqFollows
        <3> QED BY <1>1, <3>2, <3>3, Zenon DEF SuccessorOk
    <2>3. EndOk(i, i.cells)
        <3>1. SubSeq(i.cells, 1, Len(i.cells)) = i.cells /\ Len(i.cells) \in 0..Len(i.cells)
            BY <2>1
        <3>2. padded(i.cells)[Len(i.cells) + 2] = Pad
            BY <2>1, PaddedIs
        <3>3. SeqSuccessorOk(i, SubSeq(i.cells, 1, Len(i.cells)), padded(i.cells)[Len(i.cells) + 2])
            BY <2>1, <3>1, SeqFollows
        <3> QED BY <1>1, <3>1, <3>2, <3>3, Zenon DEF EndOk, SeqEndOk
    <2> QED BY <2>1, <2>2, <2>3, SeqLuts
<1>2. CASE i.kind = "tensor"
    <2>1. TensorLike(i)
        BY <1>2 DEF Alike
    <2>2. \A k \in 0..Len(i.cells) - 1 : SuccessorOk(i, SubSeq(i.cells, 1, k), i.cells[k + 1])
        BY <1>2, <2>1, TensorFollows, Zenon DEF SuccessorOk
    <2>3. EndOk(i, i.cells)
        BY <1>2, <2>1, TensorEnds, Zenon DEF EndOk
    <2> QED BY <2>1, <2>2, <2>3, TensorLuts
<1>3. CASE i.kind = "grid"
    <2>1. TensorLike(i) /\ i.shape \in Nat \X Nat
        BY <1>3 DEF Alike
    <2>2. ASSUME NEW k \in 0..Len(i.cells) - 1
          PROVE  SuccessorOk(i, SubSeq(i.cells, 1, k), i.cells[k + 1])
        <3>1. /\ Len(i.cells) \in Nat /\ Len(i.cells) = strides(i.shape)[0]
              /\ Len(SubSeq(i.cells, 1, k)) \in Nat
            BY <2>1 DEF TensorLike
        <3>2. i.shape[1] * i.shape[2] > 0
            BY <2>1, <3>1, GridShape
        <3>3. tensor_successor_ok(i, SubSeq(i.cells, 1, k), i.cells[k + 1])
            BY <2>1, TensorFollows
        <3>4. grid_successor_ok(i, SubSeq(i.cells, 1, k), i.cells[k + 1])
            BY <2>1, <3>1, <3>2, <3>3, GridSuccessor, Zenon
        <3> QED BY <1>3, <3>4, Zenon DEF SuccessorOk
    <2>3. EndOk(i, i.cells)
        <3>1. tensor_termination_ok(i, i.cells)
            BY <2>1, TensorEnds
        <3>2. grid_termination_ok(i, i.cells)
            BY <2>1, <3>1, GridTermination, Zenon
        <3> QED BY <1>3, <3>2, Zenon DEF EndOk
    <2> QED BY <2>1, <2>2, <2>3, TensorLuts
<1> QED BY <1>1, <1>2, <1>3 DEF Alike

\* Every job is about such a collection.
LEMMA JobsAlike ==
    ASSUME NEW j \in Jobs
    PROVE  Alike(j.ing)
<1> DEFINE i == j.ing
<1>1. CASE i.kind = "seq"
    <2>1. i.cells \in Seq(Tokens) /\ i = ingest(i.hash, i.cells)
        BY <1>1, JobsAssumption
    <2> QED BY <1>1, <2>1 DEF Alike, SeqLike
<1>2. CASE i.kind = "grid"
    <2>1. /\ i.cells \in Seq(Tokens) /\ i.shape \in Nat \X Nat
          /\ Len(i.cells) = i.shape[1] * i.shape[2]
          /\ i = ingest_grid(i.hash, i.shape, i.cells)
        BY <1>2, JobsAssumption
    <2>2. /\ i.ch = ingest_tensor(i.hash, i.shape, i.cells).ch
          /\ i.luts = ingest_tensor(i.hash, i.shape, i.cells).luts
        BY <2>1, GridIngest
    <2>3. i.shape \in Seq(Nat) /\ Len(i.cells) = strides(i.shape)[0]
        BY <2>1, GridShape
    <2> QED BY <1>2, <2>1, <2>2, <2>3, Zenon DEF Alike, TensorLike
<1>3. CASE i.kind = "tensor"
    <2>1. /\ i.cells \in Seq(Tokens) /\ i.shape \in Seq(Nat)
          /\ Len(i.cells) = strides(i.shape)[0]
          /\ i = ingest_tensor(i.hash, i.shape, i.cells)
        BY <1>3, JobsAssumption
    <2>2. /\ i.ch = ingest_tensor(i.hash, i.shape, i.cells).ch
          /\ i.luts = ingest_tensor(i.hash, i.shape, i.cells).luts
        BY <2>1, Zenon
    <2> QED BY <1>3, <2>1, <2>2, Zenon DEF Alike, TensorLike
<1> QED BY <1>1, <1>2, <1>3, JobsAssumption

-----------------------------------------------------------------------------
(* How often a token occurs.                                                 *)

\* A count is a number, and zero for what does not occur.
LEMMA OccurrencesType ==
    ASSUME NEW S, NEW s \in Seq(S), NEW t
    PROVE  /\ Occurrences(s, t) \in Nat
           /\ IsFiniteSet({i \in DOMAIN s : s[i] = t})
           /\ Occurrences(s, t) = 0 <=> \A i \in 1..Len(s) : s[i] # t
<1>1. IsFiniteSet(1..Len(s)) /\ DOMAIN s = 1..Len(s)
    BY FS_Interval
<1>2. IsFiniteSet({i \in DOMAIN s : s[i] = t})
    BY <1>1, FS_Subset
<1>3. Occurrences(s, t) = 0 <=> {i \in DOMAIN s : s[i] = t} = {}
    BY <1>2, FS_EmptySet DEF Occurrences
<1> QED
    BY <1>1, <1>2, <1>3, FS_CardinalityType DEF Occurrences

\* One more cell, one more occurrence of its token.
LEMMA OccurrencesAppend ==
    ASSUME NEW S, NEW s \in Seq(S), NEW x \in S, NEW t
    PROVE  Occurrences(Append(s, x), t) = Occurrences(s, t) + (IF x = t THEN 1 ELSE 0)
<1> DEFINE A == {i \in DOMAIN s : s[i] = t}
           B == {i \in DOMAIN Append(s, x) : Append(s, x)[i] = t}
<1>1. IsFiniteSet(A) /\ Len(s) + 1 \notin A /\ Cardinality(A) \in Nat
    <2>1. IsFiniteSet(A)
        BY OccurrencesType
    <2>2. Len(s) + 1 \notin A
        OBVIOUS
    <2> HIDE DEF A
    <2> QED BY <2>1, <2>2, FS_CardinalityType
<1>2. CASE x = t
    <2>1. B = A \cup {Len(s) + 1}
        BY <1>2
    <2>2. Cardinality(A \cup {Len(s) + 1}) = Cardinality(A) + 1
        <3> HIDE DEF A
        <3> QED BY <1>1, FS_AddElement
    <2> HIDE DEF A, B
    <2>3. Cardinality(B) = Cardinality(A) + 1
        BY <2>1, <2>2, Zenon
    <2> QED BY <1>2, <2>3 DEF Occurrences, A, B
<1>3. CASE x # t
    <2>1. B = A
        BY <1>3
    <2>2. Occurrences(Append(s, x), t) = Occurrences(s, t)
        BY <2>1, Zenon DEF Occurrences
    <2>3. Occurrences(s, t) \in Nat
        BY OccurrencesType
    <2> HIDE DEF A, B
    <2> QED BY <1>3, <2>2, <2>3
<1> QED BY <1>2, <1>3

\* A beginning has no more of a token, and less of the one that follows.
LEMMA OccurrencesUpto ==
    ASSUME NEW S, NEW s \in Seq(S), NEW k \in 0..Len(s) - 1
    PROVE  /\ SubSeq(s, 1, k) \in Seq(S) /\ Len(SubSeq(s, 1, k)) = k
           /\ Occurrences(SubSeq(s, 1, k), s[k + 1]) < Occurrences(s, s[k + 1])
<1> DEFINE t == s[k + 1]
           A == {i \in DOMAIN s : s[i] = t}
           B == {i \in DOMAIN SubSeq(s, 1, k) : SubSeq(s, 1, k)[i] = t}
<1>1. SubSeq(s, 1, k) \in Seq(S) /\ Len(SubSeq(s, 1, k)) = k
    OBVIOUS
<1>2. B \subseteq A /\ k + 1 \in A /\ k + 1 \notin B
    OBVIOUS
<1>3. IsFiniteSet(A)
    BY OccurrencesType
<1>4. Cardinality(B) < Cardinality(A)
    <2> HIDE DEF A, B
    <2>1. /\ IsFiniteSet(B) /\ Cardinality(B) <= Cardinality(A)
          /\ Cardinality(B) = Cardinality(A) => B = A
        BY <1>2, <1>3, FS_Subset
    <2>2. Cardinality(A) \in Nat /\ Cardinality(B) \in Nat
        BY <1>3, <2>1, FS_CardinalityType
    <2> QED BY <1>2, <2>1, <2>2
<1> QED BY <1>1, <1>4 DEF Occurrences

\* How many places of s hold a token of T.
Places(s, T) == {i \in 1..Len(s) : s[i] \in T}

\* The places of a set of tokens, one token at a time.
LEMMA PlacesMore ==
    ASSUME NEW S, NEW s \in Seq(S), NEW T, NEW t, t \notin T
    PROVE  /\ IsFiniteSet(Places(s, T)) /\ Cardinality(Places(s, T)) \in Nat
           /\ Cardinality(Places(s, T \cup {t})) = Cardinality(Places(s, T)) + Occurrences(s, t)
<1> DEFINE A == Places(s, T)
           B == {i \in DOMAIN s : s[i] = t}
<1>1. IsFiniteSet(A)
    BY FS_Interval, FS_Subset DEF Places
<1>2. IsFiniteSet(B)
    BY OccurrencesType
<1>3. A \cap B = {} /\ Places(s, T \cup {t}) = A \cup B
    BY DEF Places
<1> HIDE DEF A, B
<1>4. Cardinality(A \cup B) = Cardinality(A) + Cardinality(B) - Cardinality(A \cap B)
    BY <1>1, <1>2, FS_Union
<1>5. Cardinality(A \cap B) = 0
    BY <1>3, FS_EmptySet
<1>6. Cardinality(A) \in Nat /\ Cardinality(B) \in Nat
    BY <1>1, <1>2, FS_CardinalityType
<1>7. Cardinality(Places(s, T \cup {t})) = Cardinality(A \cup B)
    BY <1>3, Zenon
<1>8. Cardinality(B) = Occurrences(s, t)
    BY DEF B, Occurrences
<1> QED BY <1>1, <1>4, <1>5, <1>6, <1>7, <1>8 DEF A

\* Two sequences of one length, one with no more of any token than the other,
\* have equally many of each.
LEMMA CountsAgree ==
    ASSUME NEW S, NEW p \in Seq(S), NEW c \in Seq(S), Len(p) = Len(c),
           \A t \in S : Occurrences(p, t) <= Occurrences(c, t)
    PROVE  \A t \in S : Occurrences(p, t) = Occurrences(c, t)
<1> DEFINE R == {p[i] : i \in 1..Len(p)} \cup {c[i] : i \in 1..Len(c)}
<1>1. IsFiniteSet(R) /\ R \subseteq S
    <2>1. ASSUME NEW s \in Seq(S)
          PROVE  IsFiniteSet({s[i] : i \in 1..Len(s)}) /\ {s[i] : i \in 1..Len(s)} \subseteq S
        <3>1. IsFiniteSet(1..Len(s))
            BY FS_Interval
        <3> DEFINE f == [i \in 1..Len(s) |-> s[i]]
                   X == {s[i] : i \in 1..Len(s)}
        <3>2. f \in Surjection(1..Len(s), X)
            BY DEF Surjection
        <3>3. IsFiniteSet(X)
            <4> HIDE DEF f, X
            <4> QED BY <3>1, <3>2, FS_Surjection
        <3> QED BY <3>3
    <2>2. /\ IsFiniteSet({p[i] : i \in 1..Len(p)}) /\ {p[i] : i \in 1..Len(p)} \subseteq S
          /\ IsFiniteSet({c[i] : i \in 1..Len(c)}) /\ {c[i] : i \in 1..Len(c)} \subseteq S
        BY <2>1
    <2> QED BY <2>2, FS_Union
<1>2. ASSUME NEW T \in SUBSET S, IsFiniteSet(T)
      PROVE  Cardinality(Places(p, T)) <= Cardinality(Places(c, T))
    <2> DEFINE G == {U \in SUBSET T : Cardinality(Places(p, U)) <= Cardinality(Places(c, U))}
    <2>1. Hereditary(T, G)
        <3> SUFFICES ASSUME NEW U \in SUBSET T, \A r \in SUBSET U : r # U => r \in G
                     PROVE  U \in G
            BY DEF Hereditary
        <3>1. CASE U = {}
            <4>1. Places(p, U) = {} /\ Places(c, U) = {}
                BY <3>1 DEF Places
            <4>2. Cardinality({}) = 0
                BY FS_EmptySet
            <4>3. Cardinality(Places(p, U)) = 0 /\ Cardinality(Places(c, U)) = 0
                BY <4>1, <4>2, Zenon
            <4> QED BY <4>3
        <3>2. CASE U # {}
            <4>1. PICK u \in U : TRUE
                BY <3>2
            <4> DEFINE W == U \ {u}
            <4>2. W \in G /\ W \cup {u} = U /\ u \notin W /\ u \in S
                BY <4>1
            <4> HIDE DEF W
            <4>3. /\ Cardinality(Places(p, W)) \in Nat /\ Cardinality(Places(c, W)) \in Nat
                  /\ Cardinality(Places(p, U)) = Cardinality(Places(p, W)) + Occurrences(p, u)
                  /\ Cardinality(Places(c, U)) = Cardinality(Places(c, W)) + Occurrences(c, u)
                BY <4>2, PlacesMore
            <4>4. /\ Cardinality(Places(p, W)) <= Cardinality(Places(c, W))
                  /\ Occurrences(p, u) <= Occurrences(c, u)
                BY <4>2
            <4>5. Occurrences(p, u) \in Nat /\ Occurrences(c, u) \in Nat
                BY OccurrencesType
            <4>6. Cardinality(Places(p, U)) <= Cardinality(Places(c, U))
                BY <4>3, <4>4, <4>5
            <4> QED BY <4>6
        <3> QED BY <3>1, <3>2, Zenon
    <2>2. T \in G
        <3> HIDE DEF G
        <3> QED BY <1>2, <2>1, StrongInduction
    <2> QED BY <2>2
<1> SUFFICES ASSUME NEW t \in S, Occurrences(p, t) < Occurrences(c, t)
             PROVE  FALSE
    <2>1. \A u \in S : Occurrences(p, u) \in Nat /\ Occurrences(c, u) \in Nat
        BY OccurrencesType
    <2> QED BY <2>1
<1> DEFINE T == R \ {t}
<1>3. IsFiniteSet(T) /\ T \in SUBSET S /\ t \notin T
    BY <1>1, FS_Subset
<1>4. Places(p, T \cup {t}) = 1..Len(p) /\ Places(c, T \cup {t}) = 1..Len(c)
    BY DEF Places
<1> HIDE DEF T
<1>5. /\ Cardinality(Places(p, T)) \in Nat /\ Cardinality(Places(c, T)) \in Nat
      /\ Cardinality(Places(p, T \cup {t})) = Cardinality(Places(p, T)) + Occurrences(p, t)
      /\ Cardinality(Places(c, T \cup {t})) = Cardinality(Places(c, T)) + Occurrences(c, t)
    BY <1>3, PlacesMore
<1>6. Cardinality(Places(p, T)) <= Cardinality(Places(c, T))
    BY <1>2, <1>3
<1>7. Cardinality(Places(p, T \cup {t})) = Cardinality(Places(c, T \cup {t}))
    BY <1>4
<1>8. Occurrences(p, t) \in Nat /\ Occurrences(c, t) \in Nat
    BY OccurrencesType
<1> QED BY <1>5, <1>6, <1>7, <1>8

-----------------------------------------------------------------------------
(* The walk, for a job: what it may use next, and what it has restored.      *)

\* The tokens that pass the gate and the codebook.
TokensOf(j) == unordered_tokens_gated(j.ing, j.gx, j.codebook)

\* How many of each the path has not used.
LeftOf(j, p) == [t \in TokensOf(j) |-> j.ing.tf[t] - Occurrences(p, t)]

\* The candidates after a path.
NextOf(j, p) == {t \in TokensOf(j) : LeftOf(j, p)[t] > 0 /\ SuccessorOk(j.ing, p, t)}

\* The beginning of a path.
Upto(p, k) == SubSeq(p, 1, k)

\* A path every token of which was a candidate when it was taken.
Sound(j, p) ==
    /\ p \in Seq(TokensOf(j))
    /\ \A t \in TokensOf(j) : Occurrences(p, t) <= j.ing.tf[t]
    /\ \A k \in 0..Len(p) - 1 : p[k + 1] \in NextOf(j, Upto(p, k))

\* A path that is an answer: a sequence of one token is not judged.
Complete(j, p) ==
    /\ Sound(j, p)
    /\ Len(p) = Total(j.ing)
    /\ EndOk(j.ing, p) \/ (j.ing.kind = "seq" /\ Total(j.ing) = 1)

\* The tokens that every cell of the collection has are there.
Covered(j) == \A k \in 1..Total(j.ing) : j.ing.cells[k] \in TokensOf(j)

\* The states in which the recursion of the walk is under way.
Walking == {"pick", "call", "false", "true"}

\* The inductive invariant: whatever is on the path, in a beam or answered was a candidate
\* when it was taken, the lists of candidates are of the path's positions, and what is left
\* is what the path has not used.
WalkInv ==
    /\ job \in Jobs
    /\ pc \in Walking \cup {"start", "beam", "judge", "walk", "done", "panic"}
    /\ budget \in Nat
    /\ Sound(job, path) /\ Len(path) <= Total(job.ing) /\ rem = LeftOf(job, path)
    /\ todo \in Seq(SUBSET TokensOf(job))
    /\ \A d \in 1..Len(todo) : todo[d] \subseteq NextOf(job, Upto(path, d - 1))
    /\ pc \in {"start", "walk", "beam", "judge"} => path = <<>> /\ todo = <<>>
    /\ pc \notin {"start", "done"} => TokensOf(job) # {} /\ Total(job.ing) # 0
    /\ pc = "pick" => Len(todo) = Len(path) + 1 /\ Len(todo) <= Total(job.ing)
    /\ pc \in {"call", "false", "true"} => Len(todo) = Len(path)
    /\ pc = "true" => Complete(job, path)
    /\ \A p \in beam : Sound(job, p)
    /\ \A p \in completed : Complete(job, p)
    /\ pc = "done" => answer.via # "none"
    /\ answer.via \in {"none", "empty", "set", "walk", "beam"}
    /\ answer.via \in {"walk", "beam"} => Complete(job, answer.cells)
    /\ answer.via = "empty" => (TokensOf(job) = {} \/ Total(job.ing) = 0) /\ answer.cells = <<>>

\* While there is budget, the ingested order is on the path or still to be tried:
\* wherever the path follows it so far, its next token is the next one of the path or
\* among the candidates left, and a walk that returns false has left it.
OpenInv ==
    budget > 0 /\ Covered(job) =>
        /\ pc = "false" => path # Upto(job.ing.cells, Len(path))
        /\ pc \in Walking \ {"true"} =>
            \A d \in 1..Len(todo) :
                Upto(path, d - 1) = Upto(job.ing.cells, d - 1) =>
                    \/ job.ing.cells[d] \in todo[d]
                    \/ d <= Len(path) /\ path[d] = job.ing.cells[d]
        /\ answer.via # "set"

\* What the code computes from its state is what the job and the path determine.
LEMMA CandidatesOf ==
    /\ tokens = TokensOf(job)
    /\ \A p : Left(p) = LeftOf(job, p) /\ Candidates(p, LeftOf(job, p)) = NextOf(job, p)
BY DEF tokens, TokensOf, Left, LeftOf, ing, Candidates, NextOf

\* The counts of a job are those of its cells.
LEMMA JobCounts ==
    ASSUME NEW j \in Jobs
    PROVE  /\ j.ing.cells \in Seq(Tokens) /\ Total(j.ing) = Len(j.ing.cells)
           /\ Total(j.ing) \in Nat
           /\ j.ing.tf = Tf(j.ing.cells)
           /\ \A t \in Tokens : j.ing.tf[t] = Occurrences(j.ing.cells, t) /\ j.ing.tf[t] \in Nat
           /\ j.ing.kind \in {"seq", "grid", "tensor"}
<1>1. j.ing.cells \in Seq(Tokens)
    BY JobsAssumption
<1>2. j.ing.tf = Tf(j.ing.cells) /\ j.ing.kind \in {"seq", "grid", "tensor"}
    <2>1. CASE j.ing = ingest(j.ing.hash, j.ing.cells)
        BY <2>1 DEF ingest
    <2>2. CASE j.ing = ingest_grid(j.ing.hash, j.ing.shape, j.ing.cells)
        BY <2>2 DEF ingest_grid
    <2>3. CASE j.ing = ingest_tensor(j.ing.hash, j.ing.shape, j.ing.cells)
        BY <2>3 DEF ingest_tensor
    <2> QED BY <2>1, <2>2, <2>3, JobsAssumption
<1>3. \A t \in Tokens : Tf(j.ing.cells)[t] = Occurrences(j.ing.cells, t)
    BY DEF Tf
<1>4. \A t \in Tokens : Occurrences(j.ing.cells, t) \in Nat
    BY <1>1, OccurrencesType
<1>5. \A t \in Tokens : j.ing.tf[t] = Occurrences(j.ing.cells, t)
    BY <1>2, <1>3, Zenon
<1> QED BY <1>1, <1>2, <1>4, <1>5 DEF Total
\* What may be restored was ingested.
LEMMA JobTokens ==
    ASSUME NEW j \in Jobs, NEW t \in TokensOf(j)
    PROVE  /\ t \in Tokens /\ j.ing.tf[t] \in Nat \ {0} /\ Total(j.ing) # 0
           /\ \E k \in 1..Len(j.ing.cells) : t = j.ing.cells[k]
<1> DEFINE i == j.ing
           M == {<<gate(i.ch[n], j.gx), i.luts[n]>> : n \in 1..3}
<1>1. t \in materialize(M)
    BY DEF TokensOf, unordered_tokens_gated
<1>2. PICK p \in M : t \in candidates(p[2], p[1])
    BY <1>1 DEF materialize
<1>3. PICK n \in 1..3 : p = <<gate(i.ch[n], j.gx), i.luts[n]>>
    BY <1>2
<1>4. PICK b : t \in fiber(i.luts[n], b)
    BY <1>2, <1>3 DEF candidates
<1>5. PICK r \in i.luts[n] : t = r[2]
    BY <1>4 DEF fiber
<1>6. Alike(i)
    BY JobsAlike
<1>7. i.cells # <<>>
    <2> SUFFICES ASSUME i.cells = <<>> PROVE FALSE
        OBVIOUS
    <2>1. CASE SeqLike(i)
        <3>1. \E k \in 1..Len(i.cells) : r[2] = i.cells[k]
            BY <2>1, SeqLuts
        <3> QED BY <3>1
    <2>2. CASE TensorLike(i)
        <3>1. \E k \in 1..Len(i.cells) : r[2] = i.cells[k]
            BY <2>2, TensorLuts
        <3> QED BY <3>1
    <2> QED BY <1>6, <2>1, <2>2 DEF Alike
<1>8. PICK k \in 1..Len(i.cells) : t = i.cells[k]
    BY <1>5, <1>6, <1>7, OriginalOk
<1>9. i.cells \in Seq(Tokens) /\ Len(i.cells) \in Nat
    BY JobCounts
<1>10. t \in Tokens
    BY <1>8, <1>9
<1>11. Occurrences(i.cells, t) \in Nat /\ Occurrences(i.cells, t) # 0
    BY <1>8, <1>9, OccurrencesType
<1>12. i.tf[t] = Occurrences(i.cells, t)
    BY <1>10, JobCounts
<1> QED BY <1>8, <1>9, <1>10, <1>11, <1>12 DEF Total

-----------------------------------------------------------------------------
(* Paths.                                                                    *)

\* The beginnings of a path that grew by a token.
LEMMA UptoAppend ==
    ASSUME NEW S, NEW p \in Seq(S), NEW t \in S
    PROVE  /\ \A k \in 0..Len(p) : Upto(Append(p, t), k) = Upto(p, k)
           /\ Upto(p, Len(p)) = p /\ Upto(p, 0) = <<>>
           /\ Len(Append(p, t)) = Len(p) + 1 /\ Append(p, t)[Len(p) + 1] = t
           /\ Append(p, t) \in Seq(S)
           /\ \A k \in 1..Len(p) : Append(p, t)[k] = p[k]
BY DEF Upto

\* The beginnings of a path without its last token.
LEMMA UptoFront ==
    ASSUME NEW S, NEW p \in Seq(S), p # <<>>
    PROVE  /\ Len(p) \in Nat \ {0} /\ p[Len(p)] \in S
           /\ SubSeq(p, 1, Len(p) - 1) \in Seq(S)
           /\ Len(SubSeq(p, 1, Len(p) - 1)) = Len(p) - 1
           /\ \A k \in 0..Len(p) - 1 : Upto(SubSeq(p, 1, Len(p) - 1), k) = Upto(p, k)
           /\ \A k \in 1..Len(p) - 1 : SubSeq(p, 1, Len(p) - 1)[k] = p[k]
           /\ Append(SubSeq(p, 1, Len(p) - 1), p[Len(p)]) = p
<1> DEFINE q == SubSeq(p, 1, Len(p) - 1)
           t == p[Len(p)]
<1>1. Len(p) \in Nat \ {0} /\ t \in S
    OBVIOUS
<1>2. q \in Seq(S) /\ Len(q) = Len(p) - 1 /\ \A k \in 1..Len(p) - 1 : q[k] = p[k]
    <2>1. Len(p) - 1 \in 0..Len(p)
        BY <1>1
    <2>2. \A m \in 0..Len(p) : /\ SubSeq(p, 1, m) \in Seq(S) /\ Len(SubSeq(p, 1, m)) = m
                               /\ \A k \in 1..m : SubSeq(p, 1, m)[k] = p[k]
        BY <1>1
    <2> QED BY <2>1, <2>2, Zenon
<1>3. t = p[Len(p)]
    OBVIOUS
<1> HIDE DEF q, t
<1>4. Append(q, t) = p
    <2>1. /\ Append(q, t) \in Seq(S) /\ Len(Append(q, t)) = Len(q) + 1
          /\ \A k \in 1..Len(q) : Append(q, t)[k] = q[k]
          /\ Append(q, t)[Len(q) + 1] = t
        BY <1>1, <1>2
    <2>2. Len(Append(q, t)) = Len(p)
        BY <1>1, <1>2, <2>1
    <2>3. ASSUME NEW k \in 1..Len(p)
          PROVE  Append(q, t)[k] = p[k]
        <3>1. CASE k = Len(p)
            BY <1>1, <1>2, <1>3, <2>1, <3>1
        <3>2. CASE k # Len(p)
            BY <1>1, <1>2, <2>1, <3>2
        <3> QED BY <3>1, <3>2
    <2> DEFINE a == Append(q, t)
    <2>4. a \in Seq(S) /\ Len(a) = Len(p) /\ \A k \in 1..Len(p) : a[k] = p[k]
        BY <2>1, <2>2, <2>3
    <2> HIDE DEF a
    <2>5. a = p
        BY <2>4
    <2> QED BY <2>5 DEF a
<1>5. ASSUME NEW k \in 0..Len(p) - 1
      PROVE  Upto(q, k) = Upto(p, k)
    <2>1. /\ SubSeq(q, 1, k) \in Seq(S) /\ Len(SubSeq(q, 1, k)) = k
          /\ \A i \in 1..k : SubSeq(q, 1, k)[i] = q[i]
        BY <1>1, <1>2
    <2>2. /\ SubSeq(p, 1, k) \in Seq(S) /\ Len(SubSeq(p, 1, k)) = k
          /\ \A i \in 1..k : SubSeq(p, 1, k)[i] = p[i]
        BY <1>1
    <2>3. \A i \in 1..k : q[i] = p[i]
        BY <1>1, <1>2
    <2> DEFINE a == SubSeq(q, 1, k)
               b == SubSeq(p, 1, k)
    <2>4. a = b
        <3> HIDE DEF a, b
        <3> QED BY <2>1, <2>2, <2>3 DEF a, b
    <2> QED BY <2>4 DEF Upto
<1> QED BY <1>1, <1>2, <1>4, <1>5 DEF q, t

\* What is left of a token is an integer.
LEMMA LeftType ==
    ASSUME NEW j \in Jobs, NEW S, NEW p \in Seq(S)
    PROVE  /\ DOMAIN LeftOf(j, p) = TokensOf(j)
           /\ \A t \in TokensOf(j) : /\ LeftOf(j, p)[t] = j.ing.tf[t] - Occurrences(p, t)
                                     /\ LeftOf(j, p)[t] \in Int
                                     /\ Occurrences(p, t) \in Nat /\ j.ing.tf[t] \in Nat
<1>1. \A t \in TokensOf(j) : Occurrences(p, t) \in Nat /\ j.ing.tf[t] \in Nat
    BY OccurrencesType, JobTokens
<1>2. \A t \in TokensOf(j) : LeftOf(j, p)[t] = j.ing.tf[t] - Occurrences(p, t)
    BY DEF LeftOf
<1>3. DOMAIN LeftOf(j, p) = TokensOf(j)
    BY DEF LeftOf
<1>4. ASSUME NEW t \in TokensOf(j)
      PROVE  LeftOf(j, p)[t] \in Int
    BY <1>1, <1>2
<1> QED BY <1>1, <1>2, <1>3, <1>4

Spent(f, t) == [f EXCEPT ![t] = @ - 1]

Regained(f, t) == [f EXCEPT ![t] = @ + 1]

\* Taking a token spends one of it.
LEMMA LeftAppend ==
    ASSUME NEW j \in Jobs, NEW p \in Seq(TokensOf(j)), NEW t \in TokensOf(j)
    PROVE  LeftOf(j, Append(p, t)) = Spent(LeftOf(j, p), t)
<1>1. ASSUME NEW u \in TokensOf(j)
      PROVE  j.ing.tf[u] - Occurrences(Append(p, t), u) =
                IF u = t THEN LeftOf(j, p)[u] - 1 ELSE LeftOf(j, p)[u]
    <2>1. /\ LeftOf(j, p)[u] = j.ing.tf[u] - Occurrences(p, u)
          /\ Occurrences(p, u) \in Nat /\ j.ing.tf[u] \in Nat
        BY LeftType
    <2>2. Occurrences(Append(p, t), u) = Occurrences(p, u) + (IF t = u THEN 1 ELSE 0)
        BY OccurrencesAppend
    <2> QED BY <2>1, <2>2
<1>2. DOMAIN LeftOf(j, p) = TokensOf(j)
    BY LeftType
<1>3. LeftOf(j, p) = [u \in TokensOf(j) |-> LeftOf(j, p)[u]]
    BY <1>2 DEF LeftOf
<1> DEFINE f == LeftOf(j, p)
<1>4. Spent(f, t) = [u \in TokensOf(j) |-> IF u = t THEN f[u] - 1 ELSE f[u]]
    <2>1. f = [u \in TokensOf(j) |-> f[u]]
        BY <1>3
    <2> HIDE DEF f
    <2> QED BY <2>1 DEF Spent
<1>5. LeftOf(j, Append(p, t)) = [u \in TokensOf(j) |-> j.ing.tf[u] - Occurrences(Append(p, t), u)]
    BY DEF LeftOf
<1> HIDE DEF f
<1>6. \A u \in TokensOf(j) : j.ing.tf[u] - Occurrences(Append(p, t), u) = IF u = t THEN f[u] - 1 ELSE f[u]
    BY <1>1 DEF f
<1>7. LeftOf(j, Append(p, t)) = Spent(f, t)
    BY <1>4, <1>5, <1>6, Zenon
<1> QED BY <1>7 DEF f

\* Taking it back regains it.
LEMMA LeftFront ==
    ASSUME NEW j \in Jobs, NEW p \in Seq(TokensOf(j)), p # <<>>
    PROVE  LeftOf(j, SubSeq(p, 1, Len(p) - 1)) = Regained(LeftOf(j, p), p[Len(p)])
<1> DEFINE q == SubSeq(p, 1, Len(p) - 1)
           t == p[Len(p)]
           f == LeftOf(j, q)
<1>1. q \in Seq(TokensOf(j)) /\ t \in TokensOf(j) /\ Append(q, t) = p
    BY UptoFront
<1>2. LeftOf(j, p) = Spent(LeftOf(j, q), t)
    <2> HIDE DEF q, t
    <2>1. LeftOf(j, Append(q, t)) = Spent(LeftOf(j, q), t)
        BY <1>1, LeftAppend
    <2> QED BY <1>1, <2>1, Zenon
<1>3. f = [u \in TokensOf(j) |-> f[u]] /\ \A u \in TokensOf(j) : f[u] \in Int
    <2> HIDE DEF q
    <2> QED BY <1>1, LeftType DEF LeftOf
<1> HIDE DEF q, t, f
<1>4. f = Regained(Spent(f, t), t)
    <2>1. f[t] \in Int /\ (f[t] - 1) + 1 = f[t]
        BY <1>1, <1>3
    <2> QED BY <1>1, <1>3, <2>1 DEF Spent, Regained
<1>5. f = Regained(LeftOf(j, p), t)
    BY <1>2, <1>4, Zenon DEF f
<1> QED BY <1>5 DEF f, q, t

\* The empty path is sound, with everything left.
LEMMA SoundEmpty ==
    ASSUME NEW j \in Jobs
    PROVE  /\ Sound(j, <<>>) /\ Upto(<<>>, 0) = <<>>
           /\ LeftOf(j, <<>>) = [t \in TokensOf(j) |-> j.ing.tf[t]]
<1>1. <<>> \in Seq(TokensOf(j)) /\ Len(<<>>) = 0
    OBVIOUS
<1>2. ASSUME NEW t \in TokensOf(j)
      PROVE  Occurrences(<<>>, t) = 0 /\ j.ing.tf[t] \in Nat
    <2>1. j.ing.tf[t] \in Nat
        BY JobTokens
    <2>2. \A i \in 1..Len(<<>>) : <<>>[i] # t
        BY <1>1
    <2>3. Occurrences(<<>>, t) = 0
        BY <1>1, <2>2, OccurrencesType
    <2> QED BY <2>1, <2>3
<1>3. \A t \in TokensOf(j) : j.ing.tf[t] - Occurrences(<<>>, t) = j.ing.tf[t]
    BY <1>2
<1>4. LeftOf(j, <<>>) = [t \in TokensOf(j) |-> j.ing.tf[t]]
    BY <1>3, Zenon DEF LeftOf
<1>5. \A t \in TokensOf(j) : Occurrences(<<>>, t) <= j.ing.tf[t]
    BY <1>2
<1>6. 0..Len(<<>>) - 1 = {}
    BY <1>1
<1>7. Upto(<<>>, 0) = <<>>
    BY DEF Upto
<1> QED BY <1>1, <1>4, <1>5, <1>6, <1>7 DEF Sound

\* A candidate keeps a path sound.
LEMMA SoundAppend ==
    ASSUME NEW j \in Jobs, NEW p, Sound(j, p), NEW t \in NextOf(j, p)
    PROVE  Sound(j, Append(p, t)) /\ t \in TokensOf(j) /\ p \in Seq(TokensOf(j))
<1>1. p \in Seq(TokensOf(j)) /\ t \in TokensOf(j) /\ LeftOf(j, p)[t] > 0 /\ Len(p) \in Nat
    BY DEF Sound, NextOf
<1> DEFINE q == Append(p, t)
<1>2. /\ \A k \in 0..Len(p) : Upto(q, k) = Upto(p, k)
      /\ Upto(p, Len(p)) = p
      /\ Len(q) = Len(p) + 1 /\ q[Len(p) + 1] = t
      /\ q \in Seq(TokensOf(j))
      /\ \A k \in 1..Len(p) : q[k] = p[k]
    BY <1>1, UptoAppend
<1>3. ASSUME NEW u \in TokensOf(j)
      PROVE  Occurrences(q, u) <= j.ing.tf[u]
    <2>1. Occurrences(q, u) = Occurrences(p, u) + (IF t = u THEN 1 ELSE 0)
        BY <1>1, OccurrencesAppend
    <2>2. /\ Occurrences(p, u) \in Nat /\ j.ing.tf[u] \in Nat
          /\ LeftOf(j, p)[u] = j.ing.tf[u] - Occurrences(p, u)
        BY <1>1, LeftType
    <2>3. Occurrences(p, u) <= j.ing.tf[u]
        BY DEF Sound
    <2> HIDE DEF q
    <2> QED BY <1>1, <2>1, <2>2, <2>3
<1> HIDE DEF q
<1>4. ASSUME NEW k \in 0..Len(q) - 1
      PROVE  q[k + 1] \in NextOf(j, Upto(q, k))
    <2>1. CASE k = Len(p)
        <3>1. Upto(q, k) = p /\ q[k + 1] = t
            BY <1>1, <1>2, <2>1
        <3> QED BY <3>1
    <2>2. CASE k # Len(p)
        <3>1. k \in 0..Len(p) - 1 /\ k + 1 \in 1..Len(p) /\ k \in 0..Len(p)
            BY <1>1, <1>2, <2>2
        <3>2. Upto(q, k) = Upto(p, k) /\ q[k + 1] = p[k + 1]
            BY <1>2, <3>1
        <3>3. p[k + 1] \in NextOf(j, Upto(p, k))
            BY <3>1 DEF Sound
        <3> QED BY <3>2, <3>3
    <2> QED BY <2>1, <2>2
<1> QED BY <1>1, <1>2, <1>3, <1>4 DEF Sound, q

\* So does going back.
LEMMA SoundFront ==
    ASSUME NEW j \in Jobs, NEW p, Sound(j, p), p # <<>>
    PROVE  /\ Sound(j, SubSeq(p, 1, Len(p) - 1)) /\ p \in Seq(TokensOf(j))
           /\ Regained(LeftOf(j, p), p[Len(p)]) = LeftOf(j, SubSeq(p, 1, Len(p) - 1))
<1> DEFINE q == SubSeq(p, 1, Len(p) - 1)
           t == p[Len(p)]
<1>1. p \in Seq(TokensOf(j))
    BY DEF Sound
<1>2. /\ Len(p) \in Nat \ {0} /\ t \in TokensOf(j)
      /\ q \in Seq(TokensOf(j)) /\ Len(q) = Len(p) - 1
      /\ \A k \in 0..Len(p) - 1 : Upto(q, k) = Upto(p, k)
      /\ \A k \in 1..Len(p) - 1 : q[k] = p[k]
      /\ Append(q, t) = p
    BY <1>1, UptoFront
<1>3. Regained(LeftOf(j, p), t) = LeftOf(j, q)
    BY <1>1, LeftFront
<1> HIDE DEF q, t
<1>4. ASSUME NEW u \in TokensOf(j)
      PROVE  Occurrences(q, u) <= j.ing.tf[u]
    <2>1. Occurrences(Append(q, t), u) = Occurrences(q, u) + (IF t = u THEN 1 ELSE 0)
        <3>1. q \in Seq(TokensOf(j)) /\ t \in TokensOf(j)
            BY <1>2
        <3> QED BY <3>1, OccurrencesAppend
    <2>2. Occurrences(p, u) = Occurrences(q, u) + (IF t = u THEN 1 ELSE 0)
        BY <1>2, <2>1, Zenon
    <2>3. Occurrences(p, u) <= j.ing.tf[u] /\ j.ing.tf[u] \in Nat /\ Occurrences(q, u) \in Nat
        BY <1>2, LeftType DEF Sound
    <2> QED BY <2>2, <2>3
<1>5. ASSUME NEW k \in 0..Len(q) - 1
      PROVE  q[k + 1] \in NextOf(j, Upto(q, k))
    <2>1. k \in 0..Len(p) - 1 /\ k + 1 \in 1..Len(p) - 1
        BY <1>2
    <2>2. p[k + 1] \in NextOf(j, Upto(p, k))
        BY <2>1 DEF Sound
    <2>3. Upto(q, k) = Upto(p, k) /\ q[k + 1] = p[k + 1]
        BY <1>2, <2>1
    <2> QED BY <2>2, <2>3
<1> QED BY <1>1, <1>2, <1>3, <1>4, <1>5 DEF Sound, q, t

-----------------------------------------------------------------------------
(* Every path of the walk and of the beam is sound.                          *)

\* Every job starts with an empty path.
LEMMA WalkInit == Init => WalkInv
<1> SUFFICES ASSUME Init PROVE WalkInv
    OBVIOUS
<1>1. /\ job \in Jobs /\ pc = "start" /\ path = <<>> /\ todo = <<>> /\ budget = Budget
      /\ beam = {} /\ completed = {} /\ answer = NoAnswer
      /\ rem = [t \in TokensOf(job) |-> job.ing.tf[t]]
    BY DEF Init, TokensOf
<1>2. Sound(job, path) /\ rem = LeftOf(job, path)
    BY <1>1, SoundEmpty
<1>3. Len(path) <= Total(job.ing) /\ budget \in Nat
    BY <1>1, JobCounts, BudgetPositive
<1>4. /\ todo \in Seq(SUBSET TokensOf(job))
      /\ \A d \in 1..Len(todo) : todo[d] \subseteq NextOf(job, Upto(path, d - 1))
    BY <1>1
<1>5. answer.via = "none"
    BY <1>1 DEF NoAnswer
<1> QED BY <1>1, <1>2, <1>3, <1>4, <1>5 DEF WalkInv, Walking

\* A return of a complete path, or of nothing.
LEMMA ReturnKeeps ==
    ASSUME WalkInv, NEW how \in {"empty", "set", "walk", "beam"}, NEW cells, Return(how, cells),
           how \in {"walk", "beam"} => Complete(job, cells),
           how = "empty" => (TokensOf(job) = {} \/ Total(job.ing) = 0) /\ cells = <<>>
    PROVE  WalkInv'
<1>1. /\ pc' = "done" /\ answer' = [via |-> how, cells |-> cells]
      /\ job' = job /\ path' = path /\ rem' = rem /\ todo' = todo /\ budget' = budget
      /\ beam' = beam /\ completed' = completed
    BY DEF Return
<1>2. answer'.via = how /\ answer'.cells = cells
    BY <1>1
<1> QED BY <1>1, <1>2 DEF WalkInv, Walking

\* The actions that only move on.
LEMMA MoveKeeps ==
    ASSUME WalkInv, job' = job, path' = path, rem' = rem, todo' = todo, budget' = budget,
           \/ pc \in {"start", "judge"} /\ pc' = "walk"
           \/ pc = "walk" /\ pc' = "call"
           \/ pc \in {"beam", "judge", "start"} /\ pc' \in {"beam", "judge", "panic", "walk"}
           \/ pc = "call" /\ pc' = "false",
           pc = "start" => TokensOf(job) # {} /\ Total(job.ing) # 0,
           \A p \in beam' : Sound(job, p),
           \A p \in completed' : Complete(job, p),
           answer' = answer
    PROVE  WalkInv'
BY DEF WalkInv, Walking

\* The walk enters a position: it gives up, judges a complete path, or lists candidates.
LEMMA CallKeeps ==
    ASSUME WalkInv, Call
    PROVE  WalkInv'
<1>1. /\ pc = "call" /\ job \in Jobs /\ Sound(job, path) /\ Len(path) <= Total(job.ing)
      /\ rem = LeftOf(job, path) /\ Len(todo) = Len(path)
      /\ path \in Seq(TokensOf(job)) /\ todo \in Seq(SUBSET TokensOf(job))
      /\ budget \in Nat /\ Total(job.ing) \in Nat
    BY JobCounts DEF Call, CallOutOfBudget, CallAtEnd, CallInside, WalkInv, Sound
<1>2. CASE CallOutOfBudget
    BY <1>2, MoveKeeps DEF CallOutOfBudget, WalkInv
<1>3. CASE CallAtEnd
    <2>1. /\ job' = job /\ path' = path /\ rem' = rem /\ todo' = todo
          /\ beam' = beam /\ completed' = completed /\ answer' = answer
          /\ budget' \in Nat /\ Len(path) = Total(job.ing)
          /\ pc' \in {"true", "false"}
          /\ pc' = "true" => EndOk(job.ing, path)
        BY <1>1, <1>3 DEF CallAtEnd, Full, ing
    <2>2. pc' = "true" => Complete(job, path)
        BY <1>1, <2>1 DEF Complete
    <2>3. Sound(job', path') /\ Len(path') <= Total(job'.ing) /\ rem' = LeftOf(job', path')
        BY <1>1, <2>1
    <2>4. \A d \in 1..Len(todo') : todo'[d] \subseteq NextOf(job', Upto(path', d - 1))
        BY <2>1 DEF WalkInv
    <2>5. todo' \in Seq(SUBSET TokensOf(job')) /\ Len(todo') = Len(path')
        BY <1>1, <2>1
    <2>6. (\A p \in beam' : Sound(job', p)) /\ (\A p \in completed' : Complete(job', p))
        BY <2>1 DEF WalkInv
    <2>7. /\ answer'.via \in {"none", "empty", "set", "walk", "beam"}
          /\ answer'.via \in {"walk", "beam"} => Complete(job', answer'.cells)
          /\ answer'.via = "empty" => (TokensOf(job') = {} \/ Total(job'.ing) = 0) /\ answer'.cells = <<>>
          /\ TokensOf(job') # {} /\ Total(job'.ing) # 0 /\ job' \in Jobs
        BY <1>1, <2>1 DEF WalkInv
    <2>8. pc' = "true" => Complete(job', path')
        BY <2>1, <2>2
    <2>9. /\ pc' \in Walking /\ pc' \notin {"start", "walk", "beam", "judge"}
          /\ pc' # "pick" /\ pc' # "done"
        BY <2>1 DEF Walking
    <2> QED BY <2>1, <2>3, <2>4, <2>5, <2>6, <2>7, <2>8, <2>9 DEF WalkInv
<1>4. CASE CallInside
    <2> DEFINE N == NextOf(job, path)
    <2>1. Candidates(path, rem) = N /\ N \in SUBSET TokensOf(job)
        BY <1>1, CandidatesOf DEF NextOf
    <2> HIDE DEF N
    <2>2. /\ job' = job /\ path' = path /\ rem' = rem /\ todo' = Append(todo, N)
          /\ beam' = beam /\ completed' = completed /\ answer' = answer /\ pc' = "pick"
          /\ budget' \in Nat /\ Len(path) # Total(job.ing)
        BY <1>1, <1>4, <2>1 DEF CallInside, Full, ing
    <2>3. /\ todo' \in Seq(SUBSET TokensOf(job)) /\ Len(todo') = Len(path) + 1
          /\ Len(todo') <= Total(job.ing)
          /\ \A d \in 1..Len(path) : todo'[d] = todo[d]
          /\ todo'[Len(path) + 1] = N
        BY <1>1, <2>1, <2>2
    <2>4. ASSUME NEW d \in 1..Len(todo')
          PROVE  todo'[d] \subseteq NextOf(job, Upto(path, d - 1))
        <3>1. CASE d = Len(path) + 1
            <4>1. Upto(path, d - 1) = path
                BY <1>1, <3>1 DEF Upto
            <4> QED BY <2>3, <3>1, <4>1 DEF N
        <3>2. CASE d # Len(path) + 1
            <4>1. d \in 1..Len(todo) /\ d \in 1..Len(path)
                BY <1>1, <2>3, <3>2
            <4> QED BY <2>3, <4>1 DEF WalkInv
        <3> QED BY <3>1, <3>2
    <2> QED BY <1>1, <2>2, <2>3, <2>4 DEF WalkInv, Walking
<1> QED BY <1>2, <1>3, <1>4 DEF Call

\* It takes a candidate and deletes it from the list of its position.
LEMMA PickKeeps ==
    ASSUME WalkInv, Pick
    PROVE  /\ WalkInv' /\ job' = job
           /\ \E t \in NextOf(job, path) :
                /\ path' = Append(path, t) /\ t \in todo[Len(path) + 1]
                /\ Len(todo') = Len(path) + 1 /\ Len(todo) = Len(path) + 1
                /\ \A d \in 1..Len(path) : todo'[d] = todo[d]
                /\ todo'[Len(path) + 1] = todo[Len(path) + 1] \ {t}
<1>1. /\ pc = "pick" /\ job \in Jobs /\ Sound(job, path) /\ Len(todo) <= Total(job.ing)
      /\ rem = LeftOf(job, path) /\ Len(todo) = Len(path) + 1
      /\ path \in Seq(TokensOf(job)) /\ todo \in Seq(SUBSET TokensOf(job))
      /\ Len(path) \in Nat /\ Total(job.ing) \in Nat
    BY JobCounts DEF Pick, WalkInv, Sound
<1> DEFINE n == Len(path) + 1
<1>2. PICK t \in todo[n] : /\ path' = Append(path, t) /\ rem' = Spent(rem, t)
                           /\ todo' = [todo EXCEPT ![n] = @ \ {t}]
    BY <1>1 DEF Pick, Best, top, Spent
<1>3. /\ pc' = "call" /\ job' = job /\ budget' = budget /\ beam' = beam
      /\ completed' = completed /\ answer' = answer
    BY DEF Pick
<1>4. n \in 1..Len(todo) /\ Upto(path, n - 1) = path
    BY <1>1 DEF Upto
<1>5. t \in NextOf(job, path)
    <2>1. todo[n] \subseteq NextOf(job, Upto(path, n - 1))
        BY <1>4 DEF WalkInv
    <2> QED BY <1>2, <1>4, <2>1
<1>6. Sound(job, path') /\ t \in TokensOf(job)
    BY <1>1, <1>2, <1>5, SoundAppend
<1>7. rem' = LeftOf(job, path')
    <2>1. LeftOf(job, Append(path, t)) = Spent(LeftOf(job, path), t)
        BY <1>1, <1>6, LeftAppend
    <2> QED BY <1>1, <1>2, <2>1
<1>8. /\ Len(path') = n /\ \A k \in 0..Len(path) : Upto(path', k) = Upto(path, k)
    BY <1>1, <1>2, <1>6, UptoAppend
<1>9. /\ todo' \in Seq(SUBSET TokensOf(job)) /\ Len(todo') = n
      /\ \A d \in 1..Len(path) : todo'[d] = todo[d]
      /\ todo'[n] = todo[n] \ {t}
    BY <1>1, <1>2
<1>10. ASSUME NEW d \in 1..Len(todo')
       PROVE  todo'[d] \subseteq NextOf(job, Upto(path', d - 1))
    <2>1. d \in 1..Len(todo) /\ d - 1 \in 0..Len(path)
        BY <1>1, <1>9
    <2>2. todo'[d] \subseteq todo[d]
        BY <1>1, <1>9, <2>1
    <2>3. todo[d] \subseteq NextOf(job, Upto(path, d - 1))
        BY <2>1 DEF WalkInv
    <2>4. Upto(path', d - 1) = Upto(path, d - 1)
        BY <1>8, <2>1
    <2> QED BY <2>2, <2>3, <2>4
<1> HIDE DEF n
<1>11. WalkInv'
    BY <1>1, <1>3, <1>6, <1>7, <1>8, <1>9, <1>10 DEF WalkInv, Walking, n
<1> QED BY <1>1, <1>2, <1>3, <1>5, <1>9, <1>11 DEF n

\* A position without candidates returns false.
LEMMA NoneLeftKeeps ==
    ASSUME WalkInv, NoneLeft
    PROVE  /\ WalkInv' /\ Len(todo) = Len(path) + 1 /\ Len(todo') = Len(path)
           /\ \A d \in 1..Len(path) : todo'[d] = todo[d]
<1>1. /\ pc = "pick" /\ job \in Jobs /\ Len(todo) = Len(path) + 1
      /\ todo \in Seq(SUBSET TokensOf(job)) /\ Len(path) \in Nat
    BY JobCounts DEF NoneLeft, WalkInv, Sound
<1>2. /\ pc' = "false" /\ job' = job /\ budget' = budget /\ beam' = beam /\ path' = path
      /\ rem' = rem /\ completed' = completed /\ answer' = answer
      /\ todo' = SubSeq(todo, 1, Len(path))
    BY <1>1 DEF NoneLeft, top
<1>3. /\ todo' \in Seq(SUBSET TokensOf(job)) /\ Len(todo') = Len(path)
      /\ \A d \in 1..Len(path) : todo'[d] = todo[d]
    BY <1>1, <1>2
<1>4. \A d \in 1..Len(todo') : todo'[d] \subseteq NextOf(job, Upto(path, d - 1))
    BY <1>1, <1>3 DEF WalkInv
<1>5. WalkInv'
    BY <1>1, <1>2, <1>3, <1>4 DEF WalkInv, Walking
<1> QED BY <1>1, <1>3, <1>5

\* After false the last token is taken back.
LEMMA BacktrackKeeps ==
    ASSUME WalkInv, Backtrack
    PROVE  /\ WalkInv' /\ Len(path) \in Nat \ {0} /\ Len(todo) = Len(path)
           /\ Len(path') = Len(path) - 1
           /\ path \in Seq(TokensOf(job)) /\ path' \in Seq(TokensOf(job))
           /\ \A k \in 0..Len(path) - 1 : Upto(path', k) = Upto(path, k)
           /\ \A k \in 1..Len(path) - 1 : path'[k] = path[k]
<1>1. /\ pc = "false" /\ job \in Jobs /\ Sound(job, path) /\ Len(path) <= Total(job.ing)
      /\ rem = LeftOf(job, path) /\ Len(todo) = Len(path) /\ path # <<>>
      /\ path \in Seq(TokensOf(job)) /\ todo \in Seq(SUBSET TokensOf(job))
      /\ Total(job.ing) \in Nat
    BY JobCounts DEF Backtrack, WalkInv, Sound
<1>2. /\ pc' = "pick" /\ job' = job /\ budget' = budget /\ beam' = beam /\ todo' = todo
      /\ completed' = completed /\ answer' = answer
      /\ path' = SubSeq(path, 1, Len(path) - 1)
      /\ rem' = Regained(rem, path[Len(path)])
    BY DEF Backtrack, Regained
<1>3. /\ Len(path) \in Nat \ {0} /\ path' \in Seq(TokensOf(job)) /\ Len(path') = Len(path) - 1
      /\ \A k \in 0..Len(path) - 1 : Upto(path', k) = Upto(path, k)
      /\ \A k \in 1..Len(path) - 1 : path'[k] = path[k]
    BY <1>1, <1>2, UptoFront
<1>4. Sound(job, path') /\ rem' = LeftOf(job, path')
    <2>1. /\ Sound(job, SubSeq(path, 1, Len(path) - 1))
          /\ Regained(LeftOf(job, path), path[Len(path)])
                = LeftOf(job, SubSeq(path, 1, Len(path) - 1))
        BY <1>1, SoundFront
    <2> QED BY <1>1, <1>2, <2>1
<1>5. \A d \in 1..Len(todo) : todo[d] \subseteq NextOf(job, Upto(path', d - 1))
    <2> SUFFICES ASSUME NEW d \in 1..Len(todo)
                 PROVE  todo[d] \subseteq NextOf(job, Upto(path', d - 1))
        OBVIOUS
    <2>1. d - 1 \in 0..Len(path) - 1
        BY <1>1, <1>3
    <2>2. Upto(path', d - 1) = Upto(path, d - 1)
        BY <1>3, <2>1
    <2>3. todo[d] \subseteq NextOf(job, Upto(path, d - 1))
        BY DEF WalkInv
    <2> QED BY <2>2, <2>3
<1>6. WalkInv'
    <2>1. Sound(job', path') /\ Len(path') <= Total(job'.ing) /\ rem' = LeftOf(job', path')
        BY <1>1, <1>2, <1>3, <1>4
    <2>2. \A d \in 1..Len(todo') : todo'[d] \subseteq NextOf(job', Upto(path', d - 1))
        BY <1>2, <1>5
    <2>3. /\ todo' \in Seq(SUBSET TokensOf(job')) /\ Len(todo') = Len(path') + 1
          /\ Len(todo') <= Total(job'.ing)
        <3>1. todo' = todo /\ job' = job /\ Len(todo) = Len(path) /\ Len(path) = Len(path') + 1
            BY <1>1, <1>2, <1>3
        <3> QED BY <1>1, <3>1
    <2>4. (\A p \in beam' : Sound(job', p)) /\ (\A p \in completed' : Complete(job', p))
        BY <1>2 DEF WalkInv
    <2>5. /\ answer'.via \in {"none", "empty", "set", "walk", "beam"}
          /\ answer'.via \in {"walk", "beam"} => Complete(job', answer'.cells)
          /\ answer'.via = "empty" => (TokensOf(job') = {} \/ Total(job'.ing) = 0) /\ answer'.cells = <<>>
          /\ TokensOf(job') # {} /\ Total(job'.ing) # 0 /\ job' \in Jobs /\ budget' \in Nat
        BY <1>1, <1>2 DEF WalkInv
    <2> QED BY <1>2, <2>1, <2>2, <2>3, <2>4, <2>5 DEF WalkInv, Walking
<1> QED BY <1>1, <1>3, <1>6

\* A beam starts from sound paths.
LEMMA BeamKeeps ==
    ASSUME WalkInv, NEW first, BeamFrom(first), \A p \in first : Sound(job, p)
    PROVE  WalkInv'
<1>1. /\ pc = "start" /\ pc' \in {"walk", "beam"}
      /\ job' = job /\ path' = path /\ rem' = rem /\ todo' = todo /\ budget' = budget
      /\ beam' \subseteq first /\ completed' = completed /\ answer' = answer
      /\ TokensOf(job) # {} /\ Total(job.ing) # 0
    BY CandidatesOf DEF BeamFrom, Kept, ing
<1>2. \A p \in beam' : Sound(job, p)
    BY <1>1
<1>3. \A p \in completed' : Complete(job, p)
    BY <1>1 DEF WalkInv
<1> QED BY <1>1, <1>2, <1>3, MoveKeeps

\* A first candidate is a sound path.
LEMMA FirstSound ==
    ASSUME WalkInv, path = <<>>, NEW t \in Candidates(path, rem)
    PROVE  Sound(job, <<t>>)
<1>1. rem = LeftOf(job, <<>>) /\ job \in Jobs
    BY DEF WalkInv
<1>2. t \in NextOf(job, <<>>)
    BY <1>1, CandidatesOf
<1>3. Sound(job, Append(<<>>, t))
    BY <1>1, <1>2, SoundEmpty, SoundAppend
<1>4. Append(<<>>, t) = <<t>>
    OBVIOUS
<1> QED BY <1>3, <1>4

\* A round of a beam extends paths by candidates and completes some.
LEMMA RoundKeeps ==
    ASSUME WalkInv, Round
    PROVE  WalkInv'
<1>1. /\ pc = "beam" /\ pc' \in {"judge", "beam"} /\ job \in Jobs
      /\ job' = job /\ path' = path /\ rem' = rem /\ todo' = todo /\ budget' = budget
      /\ beam' \subseteq Grown(beam) /\ answer' = answer
      /\ completed' = completed \cup {p \in beam : Full(p) /\ EndOk(ing, p)}
    BY DEF Round, Kept, WalkInv
<1>2. ASSUME NEW q \in beam'
      PROVE  Sound(job, q)
    <2>1. q \in Grown(beam)
        BY <1>1
    <2>2. PICK p \in beam : \E t \in Candidates(p, Left(p)) : q = Append(p, t)
        BY <2>1 DEF Grown
    <2>3. PICK t \in Candidates(p, Left(p)) : q = Append(p, t)
        BY <2>2
    <2>4. t \in NextOf(job, p) /\ Sound(job, p)
        BY <2>3, CandidatesOf DEF WalkInv
    <2> QED BY <1>1, <2>3, <2>4, SoundAppend
<1>3. ASSUME NEW p \in completed'
      PROVE  Complete(job, p)
    <2>1. CASE p \in completed
        BY <2>1 DEF WalkInv
    <2>2. CASE p \in beam /\ Full(p) /\ EndOk(ing, p)
        BY <2>2 DEF WalkInv, Complete, Full, ing
    <2> QED BY <1>1, <1>3, <2>1, <2>2
<1> QED BY <1>1, <1>2, <1>3, MoveKeeps

\* Every step keeps the invariant of the walk.
LEMMA WalkStep ==
    ASSUME WalkInv, [Next]_vars
    PROVE  WalkInv'
<1>1. CASE RestoreNothing
    <2>1. pc = "start" /\ Return("empty", <<>>) /\ (TokensOf(job) = {} \/ Total(job.ing) = 0)
        BY <1>1, CandidatesOf DEF RestoreNothing, ing
    <2> QED BY <2>1, ReturnKeeps
<1>2. CASE WalkAtOnce
    <2>1. TokensOf(job) # {} /\ Total(job.ing) # 0
        BY <1>2, CandidatesOf DEF WalkAtOnce, ing
    <2>2. (\A p \in beam' : Sound(job, p)) /\ \A p \in completed' : Complete(job, p)
        BY <1>2 DEF WalkAtOnce, WalkInv
    <2> QED BY <1>2, <2>1, <2>2, MoveKeeps DEF WalkAtOnce
<1>3. CASE SeqBeamStart
    <2>1. path = <<>>
        BY <1>3 DEF SeqBeamStart, BeamFrom, WalkInv
    <2>2. \A p \in {<<t>> : t \in Candidates(<<>>, rem)} : Sound(job, p)
        BY <2>1, FirstSound
    <2> QED BY <1>3, <2>2, BeamKeeps DEF SeqBeamStart
<1>4. CASE GridBeamStart \/ TensorBeamStart
    <2>1. Sound(job, <<>>)
        BY SoundEmpty DEF WalkInv
    <2>2. \A p \in {<<>>} : Sound(job, p)
        BY <2>1
    <2> QED BY <1>4, <2>2, BeamKeeps DEF GridBeamStart, TensorBeamStart
<1>5. CASE SeqRound \/ GridRound \/ TensorRound
    BY <1>5, RoundKeeps DEF SeqRound, GridRound, TensorRound
<1>6. CASE SeqRoundPanics
    <2>1. (\A p \in beam' : Sound(job, p)) /\ \A p \in completed' : Complete(job, p)
        BY <1>6 DEF SeqRoundPanics, WalkInv
    <2> QED BY <1>6, <2>1, MoveKeeps DEF SeqRoundPanics
<1>7. CASE BeamAnswers
    <2>1. PICK p \in completed : Return("beam", p)
        BY <1>7 DEF BeamAnswers
    <2>2. Complete(job, p)
        BY DEF WalkInv
    <2> QED BY <2>1, <2>2, ReturnKeeps
<1>8. CASE BeamGivesUp
    <2>1. (\A p \in beam' : Sound(job, p)) /\ \A p \in completed' : Complete(job, p)
        BY <1>8 DEF BeamGivesUp, WalkInv
    <2> QED BY <1>8, <2>1, MoveKeeps DEF BeamGivesUp
<1>9. CASE WalkGrid \/ WalkTensor
    <2>1. (\A p \in beam' : Sound(job, p)) /\ \A p \in completed' : Complete(job, p)
        BY <1>9 DEF WalkGrid, WalkTensor, WalkInv
    <2> QED BY <1>9, <2>1, MoveKeeps DEF WalkGrid, WalkTensor
<1>10. CASE WalkOne
    <2>1. PICK t \in Candidates(path, rem) : Return("walk", <<t>>)
        BY <1>10 DEF WalkOne, Best
    <2>2. path = <<>> /\ job.ing.kind = "seq" /\ Total(job.ing) = 1
        BY <1>10 DEF WalkOne, WalkInv, ing
    <2>3. Sound(job, <<t>>)
        BY <2>1, <2>2, FirstSound
    <2>4. Complete(job, <<t>>)
        BY <2>2, <2>3 DEF Complete
    <2> QED BY <2>1, <2>4, ReturnKeeps
<1>11. CASE WalkSeq
    <2> DEFINE N == NextOf(job, <<>>)
    <2>1. /\ path = <<>> /\ pc' = "pick" /\ job \in Jobs /\ Candidates(path, rem) = N
          /\ job' = job /\ path' = path /\ rem' = rem /\ budget' = budget
          /\ beam' = beam /\ completed' = completed /\ answer' = answer /\ todo' = <<N>>
          /\ TokensOf(job) # {} /\ Total(job.ing) # 0
        BY <1>11, CandidatesOf DEF WalkSeq, WalkInv
    <2>2. /\ N \in SUBSET TokensOf(job) /\ Total(job.ing) \in Nat /\ Upto(<<>>, 1 - 1) = <<>>
        BY <2>1, JobCounts DEF NextOf, Upto
    <2>3. NextOf(job, Upto(path, 1 - 1)) = N
        BY <2>1, <2>2
    <2> HIDE DEF N
    <2>4. /\ todo' \in Seq(SUBSET TokensOf(job')) /\ Len(todo') = 1 /\ todo'[1] = N
          /\ Len(todo') = Len(path') + 1 /\ Len(todo') <= Total(job'.ing)
        BY <2>1, <2>2
    <2>5. \A d \in 1..Len(todo') : todo'[d] \subseteq NextOf(job', Upto(path', d - 1))
        BY <2>1, <2>3, <2>4
    <2> QED BY <2>1, <2>4, <2>5 DEF WalkInv, Walking
<1>12. CASE walk \/ grid_walk \/ tensor_walk
    BY <1>12, CallKeeps DEF walk, grid_walk, tensor_walk
<1>13. CASE Pick
    BY <1>13, PickKeeps
<1>14. CASE NoneLeft
    BY <1>14, NoneLeftKeeps
<1>15. CASE Backtrack
    BY <1>15, BacktrackKeeps
<1>16. CASE Fallback
    BY <1>16, ReturnKeeps DEF Fallback
<1>17. CASE WalkAnswers
    <2>1. Complete(job, path)
        BY <1>17 DEF WalkAnswers, WalkInv
    <2> QED BY <1>17, <2>1, ReturnKeeps DEF WalkAnswers
<1>18. CASE UNCHANGED vars
    BY <1>18 DEF vars, WalkInv, Walking
<1> QED BY <1>1, <1>2, <1>3, <1>4, <1>5, <1>6, <1>7, <1>8, <1>9, <1>10, <1>11, <1>12, <1>13, <1>14,
           <1>15, <1>16, <1>17, <1>18 DEF Next

\* The walk and the beam only take candidates, and what they answer is complete.
THEOREM WalkInvariant == Spec => []WalkInv
<1>1. WalkInv /\ [Next]_vars => WalkInv'
    BY WalkStep
<1> QED BY <1>1, WalkInit, PTL DEF Spec

\* The ingested order passes every check of the walk.
LEMMA OnTrack ==
    ASSUME NEW j \in Jobs, Covered(j), Total(j.ing) # 0
    PROVE  /\ \A k \in 0..Total(j.ing) - 1 :
                j.ing.cells[k + 1] \in NextOf(j, Upto(j.ing.cells, k))
           /\ EndOk(j.ing, Upto(j.ing.cells, Total(j.ing)))
<1> DEFINE c == j.ing.cells
           N == Total(j.ing)
<1>1. c \in Seq(Tokens) /\ N = Len(c) /\ N \in Nat \ {0} /\ Alike(j.ing) /\ c # <<>>
    BY JobCounts, JobsAlike
<1>2. /\ \A k \in 0..Len(c) - 1 : SuccessorOk(j.ing, SubSeq(c, 1, k), c[k + 1])
      /\ EndOk(j.ing, c)
    BY <1>1, OriginalOk
<1>3. ASSUME NEW k \in 0..N - 1
      PROVE  c[k + 1] \in NextOf(j, Upto(c, k))
    <2>1. c[k + 1] \in TokensOf(j) /\ k \in 0..Len(c) - 1
        BY <1>1 DEF Covered
    <2>2. /\ Upto(c, k) \in Seq(Tokens)
          /\ Occurrences(Upto(c, k), c[k + 1]) < Occurrences(c, c[k + 1])
        BY <1>1, <2>1, OccurrencesUpto DEF Upto
    <2>3. /\ LeftOf(j, Upto(c, k))[c[k + 1]] = j.ing.tf[c[k + 1]] - Occurrences(Upto(c, k), c[k + 1])
          /\ Occurrences(Upto(c, k), c[k + 1]) \in Nat
        BY <2>1, <2>2, LeftType
    <2>4. c[k + 1] \in Tokens
        BY <2>1, JobTokens
    <2>5. j.ing.tf[c[k + 1]] = Occurrences(c, c[k + 1]) /\ Occurrences(c, c[k + 1]) \in Nat
        BY <2>4, JobCounts
    <2>6. LeftOf(j, Upto(c, k))[c[k + 1]] > 0
        BY <2>2, <2>3, <2>5
    <2>7. SuccessorOk(j.ing, Upto(c, k), c[k + 1])
        BY <1>2, <2>1 DEF Upto
    <2> QED BY <2>1, <2>6, <2>7 DEF NextOf
<1>4. Upto(c, N) = c
    BY <1>1 DEF Upto
<1> QED BY <1>2, <1>3, <1>4

\* Nothing is walked yet.
LEMMA OpenInit == Init => OpenInv
BY DEF Init, NoAnswer, OpenInv, Walking

\* Outside the walk there is nothing to keep but that no fallback is answered.
LEMMA OpenQuiet ==
    ASSUME OpenInv, job' = job, budget' \in Nat, budget \in Nat, budget' <= budget,
           pc' \notin Walking, answer' = answer \/ answer'.via # "set"
    PROVE  OpenInv'
BY DEF OpenInv, Walking

\* Where the path follows the ingested order its next token is listed as a candidate.
LEMMA OpenCall ==
    ASSUME WalkInv, OpenInv, Call
    PROVE  OpenInv'
<1> DEFINE c == job.ing.cells
           n == Len(path)
<1>1. /\ pc = "call" /\ job \in Jobs /\ Len(path) <= Total(job.ing)
      /\ rem = LeftOf(job, path) /\ Len(todo) = n
      /\ path \in Seq(TokensOf(job)) /\ todo \in Seq(SUBSET TokensOf(job))
      /\ budget \in Nat /\ Total(job.ing) \in Nat /\ Total(job.ing) # 0 /\ n \in Nat
    BY JobCounts DEF Call, CallOutOfBudget, CallAtEnd, CallInside, WalkInv, Sound
<1>2. CASE CallOutOfBudget
    BY <1>2 DEF CallOutOfBudget, OpenInv
<1> SUFFICES ASSUME ~CallOutOfBudget, Covered(job), budget' > 0
             PROVE  OpenInv'
    BY <1>1, <1>2 DEF OpenInv, Call, CallAtEnd, CallInside
<1>3. budget > 0 /\ job' = job /\ path' = path /\ answer' = answer
    BY DEF Call, CallAtEnd, CallInside
<1>4. /\ \A d \in 1..n : Upto(path, d - 1) = Upto(c, d - 1) =>
            c[d] \in todo[d] \/ (d <= n /\ path[d] = c[d])
      /\ answer.via # "set"
    BY <1>1, <1>3 DEF OpenInv, Walking
<1>5. CASE CallAtEnd
    <2>1. /\ todo' = todo /\ n = Total(job.ing)
          /\ pc' \in {"true", "false"}
          /\ pc' = "false" => ~EndOk(job.ing, path)
        BY <1>5 DEF CallAtEnd, Full, ing
    <2>2. pc' = "false" => path # Upto(c, n)
        BY <1>1, <2>1, OnTrack
    <2> QED BY <1>1, <1>3, <1>4, <2>1, <2>2 DEF OpenInv
<1>6. CASE CallInside
    <2> DEFINE M == NextOf(job, path)
    <2>1. Candidates(path, rem) = M /\ M \in SUBSET TokensOf(job)
        BY <1>1, CandidatesOf DEF NextOf
    <2> HIDE DEF M
    <2>2. /\ todo' = Append(todo, M) /\ pc' = "pick" /\ n # Total(job.ing)
        BY <1>6, <2>1 DEF CallInside, Full, ing
    <2>3. /\ Len(todo') = n + 1
          /\ \A d \in 1..n : todo'[d] = todo[d]
          /\ todo'[n + 1] = M
        BY <1>1, <2>1, <2>2
    <2>4. ASSUME NEW d \in 1..Len(todo'), Upto(path, d - 1) = Upto(c, d - 1)
          PROVE  c[d] \in todo'[d] \/ (d <= n /\ path[d] = c[d])
        <3>1. CASE d = n + 1
            <4>1. Upto(path, d - 1) = path
                BY <1>1, <3>1 DEF Upto
            <4>2. n \in 0..Total(job.ing) - 1 /\ Upto(c, n) = path
                BY <1>1, <2>2, <2>4, <3>1, <4>1
            <4>3. c[n + 1] \in NextOf(job, Upto(c, n))
                BY <1>1, <4>2, OnTrack
            <4> QED BY <2>3, <3>1, <4>2, <4>3 DEF M
        <3>2. CASE d # n + 1
            <4>1. d \in 1..n
                BY <1>1, <2>3, <3>2
            <4> QED BY <1>4, <2>3, <2>4, <4>1
        <3> QED BY <3>1, <3>2
    <2> QED BY <1>3, <1>4, <2>2, <2>4 DEF OpenInv
<1> QED BY <1>5, <1>6 DEF Call

\* A token taken from the list goes on the path.
LEMMA OpenPick ==
    ASSUME WalkInv, OpenInv, Pick
    PROVE  OpenInv'
<1> DEFINE c == job.ing.cells
           n == Len(path) + 1
<1>1. PICK t \in NextOf(job, path) :
            /\ path' = Append(path, t) /\ t \in todo[n] /\ Len(todo') = n /\ Len(todo) = n
            /\ \A d \in 1..Len(path) : todo'[d] = todo[d]
            /\ todo'[n] = todo[n] \ {t}
    BY PickKeeps
<1>2. /\ job' = job /\ budget' = budget /\ answer' = answer /\ pc = "pick" /\ pc' = "call"
    BY DEF Pick
<1>3. path \in Seq(TokensOf(job)) /\ t \in TokensOf(job) /\ Len(path) \in Nat
    BY DEF WalkInv, Sound, NextOf
<1>4. /\ \A k \in 0..Len(path) : Upto(path', k) = Upto(path, k)
      /\ Len(path') = n /\ path'[n] = t /\ \A k \in 1..Len(path) : path'[k] = path[k]
    BY <1>1, <1>3, UptoAppend
<1> SUFFICES ASSUME Covered(job), budget > 0
             PROVE  OpenInv'
    BY <1>2 DEF OpenInv
<1>5. /\ \A d \in 1..n : Upto(path, d - 1) = Upto(c, d - 1) =>
            c[d] \in todo[d] \/ (d <= Len(path) /\ path[d] = c[d])
      /\ answer.via # "set"
    BY <1>1, <1>2 DEF OpenInv, Walking
<1>6. ASSUME NEW d \in 1..n, Upto(path', d - 1) = Upto(c, d - 1)
      PROVE  c[d] \in todo'[d] \/ (d <= Len(path') /\ path'[d] = c[d])
    <2>1. d - 1 \in 0..Len(path)
        BY <1>3
    <2>2. c[d] \in todo[d] \/ (d <= Len(path) /\ path[d] = c[d])
        BY <1>4, <1>5, <1>6, <2>1
    <2>3. CASE d = n
        <3>1. ~(d <= Len(path))
            BY <1>3, <2>3
        <3>2. c[n] \in todo[n]
            BY <2>2, <2>3, <3>1
        <3> QED BY <1>1, <1>3, <1>4, <2>3, <3>2
    <2>4. CASE d # n
        <3>1. d \in 1..Len(path)
            BY <1>3, <2>4
        <3> QED BY <1>1, <1>3, <1>4, <2>2, <3>1
    <2> QED BY <2>3, <2>4
<1> HIDE DEF n
<1> QED BY <1>1, <1>2, <1>5, <1>6 DEF OpenInv

\* An empty list lacks the ingested token, so the path has left the ingested order.
LEMMA OpenNoneLeft ==
    ASSUME WalkInv, OpenInv, NoneLeft
    PROVE  OpenInv'
<1> DEFINE c == job.ing.cells
           n == Len(path) + 1
<1>1. /\ Len(todo) = n /\ Len(todo') = Len(path)
      /\ \A d \in 1..Len(path) : todo'[d] = todo[d]
    BY NoneLeftKeeps
<1>2. /\ job' = job /\ budget' = budget /\ answer' = answer /\ pc = "pick" /\ pc' = "false"
      /\ path' = path
      /\ budget = 0 \/ todo[n] = {}
    BY <1>1 DEF NoneLeft, AnchorsAbandoned, top
<1>3. path \in Seq(TokensOf(job)) /\ Len(path) \in Nat /\ Upto(path, n - 1) = path
    BY DEF WalkInv, Sound, Upto
<1> SUFFICES ASSUME Covered(job), budget > 0
             PROVE  OpenInv'
    BY <1>2 DEF OpenInv
<1>4. /\ \A d \in 1..n : Upto(path, d - 1) = Upto(c, d - 1) =>
            c[d] \in todo[d] \/ (d <= Len(path) /\ path[d] = c[d])
      /\ answer.via # "set"
    BY <1>1, <1>2 DEF OpenInv, Walking
<1>5. path # Upto(c, Len(path))
    <2> SUFFICES ASSUME path = Upto(c, Len(path))
                 PROVE  FALSE
        OBVIOUS
    <2>1. n \in 1..n /\ n - 1 = Len(path) /\ ~(n <= Len(path))
        BY <1>3
    <2>2. c[n] \in todo[n]
        BY <1>3, <1>4, <2>1
    <2> QED BY <1>2, <2>2
<1>6. \A d \in 1..Len(todo') : Upto(path, d - 1) = Upto(c, d - 1) =>
            c[d] \in todo'[d] \/ (d <= Len(path) /\ path[d] = c[d])
    BY <1>1, <1>3, <1>4
<1> QED BY <1>2, <1>4, <1>5, <1>6 DEF OpenInv

\* A path that follows the ingested order up to its last token is a part of it.
LEMMA UptoLast ==
    ASSUME NEW S, NEW p \in Seq(S), NEW c \in Seq(S), Len(p) # 0, Len(p) <= Len(c),
           Upto(p, Len(p) - 1) = Upto(c, Len(p) - 1), p[Len(p)] = c[Len(p)]
    PROVE  p = Upto(c, Len(p))
<1> DEFINE m == Len(p)
           u == SubSeq(c, 1, m)
<1>1. m \in Nat \ {0} /\ Len(c) \in Nat
    OBVIOUS
<1>2. u \in Seq(S) /\ Len(u) = m /\ \A k \in 1..m : u[k] = c[k]
    BY <1>1
<1>3. ASSUME NEW k \in 1..m
      PROVE  p[k] = u[k]
    <2>1. CASE k = m
        BY <1>2, <2>1
    <2>2. CASE k # m
        <3>1. m - 1 \in 0..Len(c) /\ m - 1 \in 0..Len(p) /\ k \in 1..m - 1
            BY <1>1, <2>2
        <3>2. SubSeq(p, 1, m - 1)[k] = p[k] /\ SubSeq(c, 1, m - 1)[k] = c[k]
            BY <3>1
        <3> QED BY <1>2, <3>2 DEF Upto
    <2> QED BY <2>1, <2>2
<1> HIDE DEF u
<1>4. p = u
    BY <1>2, <1>3
<1> QED BY <1>4 DEF u, Upto

\* A path that returned false had left the ingested order, at its last token or before.
LEMMA OpenBacktrack ==
    ASSUME WalkInv, OpenInv, Backtrack
    PROVE  OpenInv'
<1> DEFINE c == job.ing.cells
           n == Len(path)
<1>1. /\ n \in Nat \ {0} /\ Len(todo) = n /\ Len(path') = n - 1
      /\ path \in Seq(TokensOf(job)) /\ path' \in Seq(TokensOf(job))
      /\ \A k \in 0..n - 1 : Upto(path', k) = Upto(path, k)
      /\ \A k \in 1..n - 1 : path'[k] = path[k]
    BY BacktrackKeeps
<1>2. /\ job' = job /\ budget' = budget /\ answer' = answer /\ pc = "false" /\ pc' = "pick"
      /\ todo' = todo /\ job \in Jobs
    BY DEF Backtrack, WalkInv
<1>3. c \in Seq(Tokens) /\ n <= Len(c) /\ path \in Seq(Tokens)
    <2>1. n <= Total(job.ing)
        BY DEF WalkInv
    <2>2. TokensOf(job) \subseteq Tokens
        BY <1>2, JobTokens
    <2> QED BY <1>1, <1>2, <2>1, <2>2, JobCounts
<1> SUFFICES ASSUME Covered(job), budget > 0
             PROVE  OpenInv'
    BY <1>2 DEF OpenInv
<1>4. /\ \A d \in 1..n : Upto(path, d - 1) = Upto(c, d - 1) =>
            c[d] \in todo[d] \/ (d <= n /\ path[d] = c[d])
      /\ answer.via # "set" /\ path # Upto(c, n)
    BY <1>1, <1>2 DEF OpenInv, Walking
<1>5. ASSUME NEW d \in 1..Len(todo'), Upto(path', d - 1) = Upto(c, d - 1)
      PROVE  c[d] \in todo'[d] \/ (d <= Len(path') /\ path'[d] = c[d])
    <2>1. d \in 1..n /\ d - 1 \in 0..n - 1
        BY <1>1, <1>2
    <2>2. Upto(path, d - 1) = Upto(c, d - 1)
        BY <1>1, <1>5, <2>1
    <2>3. c[d] \in todo[d] \/ (d <= n /\ path[d] = c[d])
        BY <1>4, <2>1, <2>2
    <2>4. CASE c[d] \in todo[d]
        BY <1>2, <2>4
    <2>5. CASE path[d] = c[d]
        <3>1. d # n
            BY <1>1, <1>3, <1>4, <2>2, <2>5, UptoLast
        <3>2. d \in 1..n - 1
            BY <1>1, <2>1, <3>1
        <3> QED BY <1>1, <2>5, <3>2
    <2> QED BY <2>3, <2>4, <2>5
<1> QED BY <1>2, <1>4, <1>5 DEF OpenInv

\* Every step keeps the ingested order open.
LEMMA OpenStep ==
    ASSUME WalkInv, OpenInv, [Next]_vars
    PROVE  OpenInv'
<1>1. budget \in Nat /\ job \in Jobs /\ answer.via \in {"none", "empty", "set", "walk", "beam"}
    BY DEF WalkInv
<1>2. CASE RestoreNothing \/ BeamAnswers \/ WalkOne \/ WalkAnswers
    <2>1. \E how \in {"empty", "walk", "beam"} : \E cells : Return(how, cells)
        BY <1>2 DEF RestoreNothing, BeamAnswers, WalkOne, WalkAnswers
    <2>2. PICK how \in {"empty", "walk", "beam"} : \E cells : Return(how, cells)
        BY <2>1
    <2>3. PICK cells : Return(how, cells)
        BY <2>2
    <2>4. answer'.via # "set" /\ pc' = "done" /\ job' = job /\ budget' = budget
        BY <2>3 DEF Return
    <2> QED BY <1>1, <2>4, OpenQuiet DEF Walking
<1>3. CASE \/ WalkAtOnce \/ SeqBeamStart \/ GridBeamStart \/ TensorBeamStart \/ SeqRound
           \/ SeqRoundPanics \/ GridRound \/ TensorRound \/ BeamGivesUp
    <2>1. job' = job /\ budget' = budget /\ answer' = answer
        BY <1>3 DEF WalkAtOnce, SeqBeamStart, GridBeamStart, TensorBeamStart, BeamFrom, SeqRound,
                    GridRound, TensorRound, Round, SeqRoundPanics, BeamGivesUp
    <2>2. pc' \in {"walk", "beam", "judge", "panic"}
        BY <1>3 DEF WalkAtOnce, SeqBeamStart, GridBeamStart, TensorBeamStart, BeamFrom, SeqRound,
                    GridRound, TensorRound, Round, SeqRoundPanics, BeamGivesUp
    <2> QED BY <1>1, <2>1, <2>2, OpenQuiet DEF Walking
<1>4. CASE WalkGrid \/ WalkTensor
    <2>1. /\ pc' = "call" /\ todo' = <<>> /\ job' = job /\ budget' = budget /\ answer' = answer
        BY <1>4 DEF WalkGrid, WalkTensor, WalkInv
    <2>2. 1..Len(todo') = {}
        BY <2>1
    <2> QED BY <2>1, <2>2 DEF OpenInv
<1>5. CASE WalkSeq
    <2>1. /\ path = <<>> /\ pc' = "pick" /\ Candidates(path, rem) = NextOf(job, <<>>)
          /\ job' = job /\ path' = path /\ budget' = budget /\ answer' = answer
          /\ todo' = <<NextOf(job, <<>>)>> /\ Total(job.ing) # 0
        BY <1>5, CandidatesOf DEF WalkSeq, WalkInv
    <2>2. Upto(job.ing.cells, 0) = <<>> /\ 0 \in 0..Total(job.ing) - 1
        BY <1>1, <2>1, JobCounts DEF Upto
    <2>3. Covered(job) => job.ing.cells[1] \in NextOf(job, <<>>)
        <3>1. Covered(job) => job.ing.cells[0 + 1] \in NextOf(job, Upto(job.ing.cells, 0))
            BY <1>1, <2>1, <2>2, OnTrack
        <3> QED BY <2>2, <3>1
    <2>4. Len(todo') = 1 /\ todo'[1] = NextOf(job, <<>>)
        BY <2>1
    <2>5. Covered(job) => \A d \in 1..Len(todo') : job.ing.cells[d] \in todo'[d]
        BY <2>3, <2>4
    <2> QED BY <2>1, <2>5 DEF OpenInv
<1>6. CASE walk \/ grid_walk \/ tensor_walk
    BY <1>6, OpenCall DEF walk, grid_walk, tensor_walk
<1>7. CASE Pick
    BY <1>7, OpenPick
<1>8. CASE NoneLeft
    BY <1>8, OpenNoneLeft
<1>9. CASE Backtrack
    BY <1>9, OpenBacktrack
<1>10. CASE Fallback
    <2>1. /\ pc = "false" /\ path = <<>> /\ job' = job /\ budget' = budget
        BY <1>10 DEF Fallback, Return
    <2>2. Upto(job.ing.cells, Len(path)) = <<>>
        BY <2>1 DEF Upto
    <2>3. ~(budget > 0 /\ Covered(job))
        BY <2>1, <2>2 DEF OpenInv
    <2> QED BY <2>1, <2>3 DEF OpenInv
<1>11. CASE UNCHANGED vars
    BY <1>11 DEF vars, OpenInv, Walking
<1> QED BY <1>2, <1>3, <1>4, <1>5, <1>6, <1>7, <1>8, <1>9, <1>10, <1>11 DEF Next

\* No walk gives the ingested order up while it has budget.
THEOREM OpenInvariant == Spec => []OpenInv
<1>1. WalkInv /\ OpenInv /\ [Next]_vars => OpenInv'
    BY OpenStep
<1> QED BY <1>1, OpenInit, WalkInvariant, PTL DEF Spec

-----------------------------------------------------------------------------
(* What an answer is.                                                        *)

\* An answer has the ingested tokens, each as often as it was ingested.
LEMMA CompleteCounts ==
    ASSUME NEW j \in Jobs, NEW p, Complete(j, p)
    PROVE  /\ p \in Seq(Tokens) /\ p \in Seq(TokensOf(j)) /\ Len(p) = Len(j.ing.cells)
           /\ \A t \in Tokens : Occurrences(p, t) = Occurrences(j.ing.cells, t)
           /\ Tf(p) = j.ing.tf
           /\ Covered(j)
<1> DEFINE c == j.ing.cells
<1>1. /\ p \in Seq(TokensOf(j)) /\ Len(p) = Len(c) /\ c \in Seq(Tokens)
      /\ \A t \in TokensOf(j) : Occurrences(p, t) <= j.ing.tf[t]
    BY JobCounts DEF Complete, Sound
<1>2. TokensOf(j) \subseteq Tokens
    BY JobTokens
<1>3. p \in Seq(Tokens)
    BY <1>1, <1>2
<1>4. ASSUME NEW t \in Tokens
      PROVE  Occurrences(p, t) <= Occurrences(c, t)
    <2>1. Occurrences(c, t) \in Nat /\ j.ing.tf[t] = Occurrences(c, t)
        BY <1>1, OccurrencesType, JobCounts
    <2>2. CASE t \in TokensOf(j)
        BY <1>1, <2>1, <2>2
    <2>3. CASE t \notin TokensOf(j)
        <3>1. \A k \in 1..Len(p) : p[k] # t
            BY <1>1, <2>3
        <3>2. Occurrences(p, t) = 0
            BY <1>1, <3>1, OccurrencesType
        <3> QED BY <2>1, <3>2
    <2> QED BY <2>2, <2>3
<1>5. \A t \in Tokens : Occurrences(p, t) = Occurrences(c, t)
    BY <1>1, <1>3, <1>4, CountsAgree
<1>6. Tf(p) = Tf(c)
    BY <1>5, Zenon DEF Tf
<1>7. ASSUME NEW k \in 1..Len(c)
      PROVE  c[k] \in TokensOf(j)
    <2>1. c[k] \in Tokens
        BY <1>1
    <2>2. Occurrences(c, c[k]) # 0
        <3> DEFINE t == c[k]
        <3>1. ~(\A m \in 1..Len(c) : c[m] # t)
            OBVIOUS
        <3> HIDE DEF t
        <3>2. Occurrences(c, t) # 0
            BY <1>1, <3>1, OccurrencesType
        <3> QED BY <3>2 DEF t
    <2>3. Occurrences(p, c[k]) # 0
        BY <1>5, <2>1, <2>2
    <2>4. PICK m \in 1..Len(p) : p[m] = c[k]
        BY <1>1, <2>3, OccurrencesType
    <2> QED BY <1>1, <2>4
<1>8. j.ing.tf = Tf(c)
    BY JobCounts
<1> QED BY <1>1, <1>3, <1>5, <1>6, <1>7, <1>8, JobCounts DEF Covered

\* A job is covered when all ingested tokens pass the gate.
LEMMA CoveredIs ==
    ASSUME job \in Jobs
    PROVE  Covered(job) <=> AllTokens \subseteq tokens
<1>1. /\ job.ing.cells \in Seq(Tokens) /\ Total(job.ing) = Len(job.ing.cells)
      /\ DOMAIN job.ing.cells = 1..Len(job.ing.cells)
    BY JobCounts
<1>2. tokens = TokensOf(job)
    BY CandidatesOf
<1> QED BY <1>1, <1>2 DEF Covered, AllTokens, ing

\* The plain set is an answer only when the budget is spent or the gate took a token
\* away, and then nothing else is.
THEOREM FallbackTheorem == Spec => []FallbackOnlyWhenCut
<1>1. WalkInv /\ OpenInv => FallbackOnlyWhenCut
    <2> SUFFICES ASSUME WalkInv, OpenInv
                 PROVE  FallbackOnlyWhenCut
        OBVIOUS
    <2>1. job \in Jobs /\ budget \in Nat
        BY DEF WalkInv
    <2>2. ASSUME answer.via = "set", budget # 0
          PROVE  ~(AllTokens \subseteq tokens)
        BY <2>1, <2>2, CoveredIs DEF OpenInv
    <2>3. ASSUME answer.via \in {"walk", "beam"}
          PROVE  AllTokens \subseteq tokens
        <3>1. Complete(job, answer.cells)
            BY <2>3 DEF WalkInv
        <3> QED BY <2>1, <3>1, CompleteCounts, CoveredIs
    <2> QED BY <2>2, <2>3 DEF FallbackOnlyWhenCut
<1> QED BY <1>1, WalkInvariant, OpenInvariant, PTL

-----------------------------------------------------------------------------
(* The windows of an answer.                                                 *)

\* The hash called exact tells any two windows apart.
ExactHash ==
    \A s \in Nat : \A w, v \in Seq(Tokens \cup {Pad}) :
        Pos("exact", s, w) = Pos("exact", s, v) => w = v

\* The windows of p that the check of its k-th step reads.
LEMMA StepWindows ==
    ASSUME NEW i, NEW p \in Seq(Tokens), NEW k \in 0..Len(p),
           SeqSuccessorOk(i, SubSeq(p, 1, k), padded(p)[k + 2])
    PROVE  /\ contains(i, 2, <<padded(p)[k + 1], padded(p)[k + 2]>>)
           /\ k >= 1 => contains(i, 3, <<padded(p)[k], padded(p)[k + 1], padded(p)[k + 2]>>)
           /\ k >= 2 => contains(i, 4, <<padded(p)[k - 1], padded(p)[k], padded(p)[k + 1],
                                         padded(p)[k + 2]>>)
<1> DEFINE P == padded(p)
           w == SubSeq(p, 1, k)
           x == P[k + 2]
<1>1. \A m \in 0..k : Back(w, m) = P[k - m + 1]
    BY BackIs
<1>2. Len(w) = k /\ (k >= 1 => w # <<>>)
    OBVIOUS
<1> HIDE DEF P, w, x
<1>3. Back(w, 0) = P[k + 1]
    BY <1>1
<1>4. k >= 1 => Back(w, 1) = P[k]
    <2> SUFFICES ASSUME k >= 1 PROVE Back(w, 1) = P[k]
        OBVIOUS
    <2>1. 1 \in 0..k /\ k - 1 + 1 = k
        OBVIOUS
    <2>2. Back(w, 1) = P[k - 1 + 1]
        BY <1>1, <2>1
    <2> QED BY <2>1, <2>2
<1>5. k >= 2 => Back(w, 2) = P[k - 1]
    <2> SUFFICES ASSUME k >= 2 PROVE Back(w, 2) = P[k - 1]
        OBVIOUS
    <2>1. 2 \in 0..k /\ k - 2 + 1 = k - 1
        OBVIOUS
    <2>2. Back(w, 2) = P[k - 2 + 1]
        BY <1>1, <2>1
    <2> QED BY <2>1, <2>2
<1>6. /\ contains(i, 2, <<Back(w, 0), x>>)
      /\ w # <<>> => contains(i, 3, <<Back(w, 1), Back(w, 0), x>>)
      /\ Len(w) >= 2 => contains(i, 4, <<Back(w, 2), Back(w, 1), Back(w, 0), x>>)
    BY DEF SeqSuccessorOk, w, x, P
<1>7. contains(i, 2, <<P[k + 1], x>>)
    BY <1>3, <1>6
<1>8. k >= 1 => contains(i, 3, <<P[k], P[k + 1], x>>)
    BY <1>2, <1>3, <1>4, <1>6
<1>9. k >= 2 => contains(i, 4, <<P[k - 1], P[k], P[k + 1], x>>)
    <2> SUFFICES ASSUME k >= 2 PROVE contains(i, 4, <<P[k - 1], P[k], P[k + 1], x>>)
        OBVIOUS
    <2>1. k >= 1
        OBVIOUS
    <2> QED BY <2>1, <1>2, <1>3, <1>4, <1>5, <1>6
<1> QED BY <1>7, <1>8, <1>9 DEF P, x

\* A sequence whose windows are all contained sets no other bit.
LEMMA AnswerBits ==
    ASSUME NEW i, SeqLike(i), NEW p \in Seq(Tokens), p # <<>>, NEW n \in 1..4,
           \A k \in 1..Len(p) + 4 - n : contains(i, n, SubSeq(padded(p), k, k + n - 1))
    PROVE  ingest(i.hash, p).ch[n] \subseteq i.ch[n]
<1> DEFINE a == ingest(i.hash, p)
<1>1. a.hash = i.hash /\ a.cells = p
    BY DEF ingest
<1>2. SeqLike(a)
    BY <1>1 DEF SeqLike
<1>3. a.ch = [m \in 1..4 |-> SeqBits(i.hash, p, m)] /\ Len(i.shape) = 1
    BY <1>1, <1>2, SeqFields, ZenonT(60)
<1>4. a.ch[n] = SeqBits(i.hash, p, n)
    BY <1>3
<1> HIDE DEF a
<1>5. ASSUME NEW b \in SeqBits(i.hash, p, n)
      PROVE  b \in i.ch[n]
    <2>1. PICK v \in SeqWindows(p, n) : b = SeqBit(i.hash, n, v[2])
        BY <1>5 DEF SeqBits
    <2>2. PICK k \in 1..(Len(padded(p)) - n + 1) : v = <<k, SubSeq(padded(p), k, k + n - 1)>>
        BY DEF SeqWindows, windows
    <2>3. k \in 1..Len(p) + 4 - n
        BY <2>2, PaddedIs
    <2>4. v[2] = SubSeq(padded(p), k, k + n - 1)
        BY <2>2
    <2>5. contains(i, n, v[2])
        BY <2>3, <2>4
    <2> QED BY <1>3, <2>1, <2>5 DEF contains, SeqBit
<1> QED BY <1>4, <1>5 DEF a

\* Every window of an answer was set by the ingest: those of two tokens were checked, but
\* for the pads behind the end, which every sequence has.  Those of three and of four were
\* checked but for the last one; without collisions the window of three that ends the
\* answer is the one that ends the ingested sequence, and what follows is the same.
LEMMA SeqAnswer ==
    ASSUME ExactHash, NEW j \in Jobs, j.ing.kind = "seq", Total(j.ing) >= 2,
           NEW p, Complete(j, p), NEW n \in 1..4,
           n <= 2 \/ (j.ing.hash = "exact" /\ \A k \in 1..Len(j.ing.cells) : j.ing.cells[k] # Pad)
    PROVE  ingest(j.ing.hash, p).ch[n] \subseteq j.ing.ch[n]
<1> DEFINE i == j.ing
           c == i.cells
           C == padded(c)
           P == padded(p)
           N == Len(p)
           T == Tokens \cup {Pad}
<1>1. /\ p \in Seq(Tokens) /\ Len(c) = N /\ c \in Seq(Tokens) /\ Total(i) = N
      /\ \A t \in Tokens : Occurrences(p, t) = Occurrences(c, t)
    BY CompleteCounts, JobCounts
<1>2. /\ N \in Nat /\ N >= 2 /\ c # <<>> /\ p # <<>> /\ SeqLike(i)
    BY <1>1, JobsAlike DEF Alike
<1>3. /\ P \in Seq(T) /\ Len(P) = N + 3 /\ C \in Seq(T) /\ Len(C) = N + 3
      /\ P[1] = Pad /\ P[N + 2] = Pad /\ P[N + 3] = Pad /\ \A k \in 1..N : P[k + 1] = p[k]
      /\ C[1] = Pad /\ C[N + 2] = Pad /\ C[N + 3] = Pad /\ \A k \in 1..N : C[k + 1] = c[k]
    BY <1>1, PaddedIs
<1>4. ASSUME NEW k \in 1..N
      PROVE  \E m \in 1..N : p[k] = c[m]
    <2> DEFINE t == p[k]
    <2>1. t \in Tokens /\ ~(\A m \in 1..N : p[m] # t)
        BY <1>1
    <2> HIDE DEF t
    <2>2. Occurrences(p, t) # 0
        BY <1>1, <2>1, OccurrencesType
    <2>3. Occurrences(c, t) # 0
        BY <1>1, <2>1, <2>2
    <2>4. PICK m \in 1..Len(c) : c[m] = t
        BY <1>1, <2>3, OccurrencesType
    <2> QED BY <1>1, <2>4 DEF t
<1>5. ASSUME NEW k \in 0..N
      PROVE  SeqSuccessorOk(i, SubSeq(p, 1, k), P[k + 2])
    <2>1. CASE k = N
        <3>1. EndOk(i, p) /\ i.kind = "seq"
            BY <1>1, <1>2 DEF Complete
        <3>2. SeqSuccessorOk(i, p, Pad)
            BY <3>1 DEF EndOk, SeqEndOk
        <3>3. SubSeq(p, 1, k) = p
            BY <1>1, <2>1
        <3> QED BY <1>3, <2>1, <3>2, <3>3
    <2>2. CASE k # N
        <3>1. k \in 0..Len(p) - 1 /\ k + 1 \in 1..N /\ (k + 1) + 1 = k + 2
            BY <1>2, <2>2
        <3>2. p[k + 1] \in NextOf(j, Upto(p, k))
            BY <3>1 DEF Complete, Sound
        <3>3. SeqSuccessorOk(i, SubSeq(p, 1, k), p[k + 1])
            BY <3>2 DEF NextOf, Upto, SuccessorOk
        <3>4. P[k + 2] = p[k + 1]
            BY <1>3, <3>1
        <3> QED BY <3>3, <3>4
    <2> QED BY <2>1, <2>2
<1>6. ASSUME NEW k \in 0..N
      PROVE  /\ contains(i, 2, <<P[k + 1], P[k + 2]>>)
             /\ k >= 1 => contains(i, 3, <<P[k], P[k + 1], P[k + 2]>>)
             /\ k >= 2 => contains(i, 4, <<P[k - 1], P[k], P[k + 1], P[k + 2]>>)
    BY <1>1, <1>5, StepWindows
<1>7. ASSUME NEW m \in 1..4, NEW k \in 1..N + 4 - m, NEW k2 \in 1..N + 4 - m,
             SubSeq(P, k, k + m - 1) = SubSeq(C, k2, k2 + m - 1)
      PROVE  contains(i, m, SubSeq(P, k, k + m - 1))
    BY <1>1, <1>2, <1>7, SeqHit
<1> HIDE DEF P, C
<1>8. ASSUME NEW D \in {P, C}, NEW k \in 1..N + 3
      PROVE  /\ SubSeq(D, k, k + 1 - 1) = <<D[k]>>
             /\ k <= N + 2 => SubSeq(D, k, k + 2 - 1) = <<D[k], D[k + 1]>>
             /\ k <= N + 1 => SubSeq(D, k, k + 3 - 1) = <<D[k], D[k + 1], D[k + 2]>>
             /\ k <= N => SubSeq(D, k, k + 4 - 1) = <<D[k], D[k + 1], D[k + 2], D[k + 3]>>
    <2>1. D \in Seq(T) /\ Len(D) = N + 3 /\ k \in 1..Len(D)
        BY <1>2, <1>3
    <2>2. k + 1 - 1 = k /\ k + 2 - 1 = k + 1 /\ k + 3 - 1 = k + 2 /\ k + 4 - 1 = k + 3
        OBVIOUS
    <2>3. /\ SubSeq(D, k, k) = <<D[k]>>
          /\ k + 1 <= Len(D) => SubSeq(D, k, k + 1) = <<D[k], D[k + 1]>>
          /\ k + 2 <= Len(D) => SubSeq(D, k, k + 2) = <<D[k], D[k + 1], D[k + 2]>>
          /\ k + 3 <= Len(D) => SubSeq(D, k, k + 3) = <<D[k], D[k + 1], D[k + 2], D[k + 3]>>
        BY <2>1, Triples
    <2>4. /\ k <= N + 2 => k + 1 <= Len(D)
          /\ k <= N + 1 => k + 2 <= Len(D)
          /\ k <= N => k + 3 <= Len(D)
        BY <1>2, <2>1
    <2> QED BY <2>2, <2>3, <2>4
<1>9. CASE n = 1
    <2>1. ASSUME NEW k \in 1..N + 3
          PROVE  contains(i, 1, SubSeq(P, k, k + 1 - 1))
        <3>1. PICK k2 \in 1..N + 3 : P[k] = C[k2]
            <4>1. CASE k = 1 \/ k = N + 2 \/ k = N + 3
                BY <1>2, <1>3, <4>1
            <4>2. CASE k \in 2..N + 1
                <5>1. k - 1 \in 1..N /\ (k - 1) + 1 = k
                    BY <1>2, <4>2
                <5>2. P[k] = p[k - 1]
                    BY <1>3, <5>1
                <5>3. PICK m \in 1..N : p[k - 1] = c[m]
                    BY <1>4, <5>1
                <5>4. m + 1 \in 1..N + 3 /\ C[m + 1] = c[m]
                    BY <1>2, <1>3
                <5> QED BY <5>2, <5>3, <5>4
            <4> QED BY <1>2, <4>1, <4>2
        <3>2. SubSeq(P, k, k + 1 - 1) = SubSeq(C, k2, k2 + 1 - 1)
            BY <1>8, <3>1
        <3> QED BY <1>2, <1>7, <3>2
    <2>2. \A k \in 1..N + 4 - 1 : contains(i, 1, SubSeq(P, k, k + 1 - 1))
        BY <1>2, <2>1
    <2> QED BY <1>1, <1>2, <1>9, <2>2, AnswerBits DEF P
<1>10. CASE n = 2
    <2>1. ASSUME NEW k \in 1..N + 2
          PROVE  contains(i, 2, SubSeq(P, k, k + 2 - 1))
        <3>1. CASE k = N + 2
            <4>1. /\ SubSeq(P, k, k + 2 - 1) = <<P[k], P[k + 1]>>
                  /\ SubSeq(C, k, k + 2 - 1) = <<C[k], C[k + 1]>>
                <5>1. P \in {P, C} /\ C \in {P, C} /\ k \in 1..N + 3 /\ k <= N + 2
                    BY <1>2
                <5> QED BY <1>8, <5>1
            <4>2. SubSeq(P, k, k + 2 - 1) = SubSeq(C, k, k + 2 - 1)
                BY <1>2, <1>3, <3>1, <4>1
            <4> QED BY <1>2, <1>7, <4>2
        <3>2. CASE k # N + 2
            <4>1. k - 1 \in 0..N /\ (k - 1) + 1 = k /\ (k - 1) + 2 = k + 1 /\ k \in 1..N + 3 /\ k <= N + 2
                BY <1>2, <3>2
            <4>2. contains(i, 2, <<P[(k - 1) + 1], P[(k - 1) + 2]>>)
                BY <1>6, <4>1
            <4>3. SubSeq(P, k, k + 2 - 1) = <<P[k], P[k + 1]>>
                BY <1>8, <4>1
            <4> QED BY <4>1, <4>2, <4>3
        <3> QED BY <3>1, <3>2
    <2>2. \A k \in 1..N + 4 - 2 : contains(i, 2, SubSeq(P, k, k + 2 - 1))
        BY <1>2, <2>1
    <2> QED BY <1>1, <1>2, <1>10, <2>2, AnswerBits DEF P
<1>11. CASE n \in 3..4
    <2>1. i.hash = "exact" /\ \A k \in 1..N : c[k] # Pad
        BY <1>1, <1>11
    \* The end of the answer is the end of the ingested sequence.
    <2>2. P[N] = C[N] /\ P[N + 1] = C[N + 1]
        <3>1. contains(i, 3, <<P[N], P[N + 1], P[N + 2]>>)
            <4>1. N \in 0..N /\ N >= 1
                BY <1>2
            <4> QED BY <1>6, <4>1
        <3> DEFINE w == <<P[N], P[N + 1], P[N + 2]>>
        <3>2. PICK k \in 1..N + 1 : Pos(i.hash, seed(3, 1), w) = Pos(i.hash, seed(3, 1), SubSeq(C, k, k + 3 - 1))
            <4>1. \E k \in 1..N + 4 - 3 :
                    Pos(i.hash, seed(3, 1), w) = Pos(i.hash, seed(3, 1), SubSeq(C, k, k + 3 - 1))
                BY <1>1, <1>2, <3>1, SeqHit DEF C
            <4>2. N + 4 - 3 = N + 1
                BY <1>2
            <4> QED BY <4>1, <4>2
        <3>3. SubSeq(C, k, k + 3 - 1) = <<C[k], C[k + 1], C[k + 2]>>
            BY <1>2, <1>8
        <3>4. seed(3, 1) \in Nat
            BY DEF seed
        <3>5. /\ N \in 1..Len(P) /\ N + 1 \in 1..Len(P) /\ N + 2 \in 1..Len(P)
              /\ k \in 1..Len(C) /\ k + 1 \in 1..Len(C) /\ k + 2 \in 1..Len(C)
            BY <1>2, <1>3
        <3>6. w \in Seq(T) /\ <<C[k], C[k + 1], C[k + 2]>> \in Seq(T)
            <4>1. /\ P[N] \in T /\ P[N + 1] \in T /\ P[N + 2] \in T
                  /\ C[k] \in T /\ C[k + 1] \in T /\ C[k + 2] \in T
                BY <1>3, <3>5
            <4> HIDE DEF T
            <4> QED BY <4>1
        <3>7. w = <<C[k], C[k + 1], C[k + 2]>>
            <4> HIDE DEF w
            <4> QED BY <2>1, <3>2, <3>3, <3>4, <3>6 DEF ExactHash, T
        <3>8. P[N] = C[k] /\ P[N + 1] = C[k + 1] /\ P[N + 2] = C[k + 2]
            BY <3>7
        <3>9. P[N + 1] # Pad
            <4>1. PICK m \in 1..N : p[N] = c[m]
                BY <1>2, <1>4
            <4> QED BY <1>2, <1>3, <2>1, <4>1
        <3>10. k = N
            <4>1. C[k + 2] = Pad /\ C[k + 1] # Pad
                BY <1>3, <3>8, <3>9
            <4>2. CASE k < N
                <5>1. k + 1 \in 1..N /\ (k + 1) + 1 = k + 2
                    BY <1>2, <4>2
                <5>2. C[k + 2] = c[k + 1]
                    BY <1>3, <5>1
                <5> QED BY <2>1, <4>1, <5>1, <5>2
            <4>3. CASE k = N + 1
                BY <1>2, <1>3, <4>1, <4>3
            <4> QED BY <1>2, <4>2, <4>3
        <3> QED BY <3>8, <3>10
    <2>3. CASE n = 3
        <3>1. ASSUME NEW k \in 1..N + 1
              PROVE  contains(i, 3, SubSeq(P, k, k + 3 - 1))
            <4>1. CASE k = N + 1
                <5>1. /\ SubSeq(P, k, k + 3 - 1) = <<P[k], P[k + 1], P[k + 2]>>
                      /\ SubSeq(C, k, k + 3 - 1) = <<C[k], C[k + 1], C[k + 2]>>
                    <6>1. P \in {P, C} /\ C \in {P, C} /\ k \in 1..N + 3 /\ k <= N + 1
                        BY <1>2
                    <6> QED BY <1>8, <6>1
                <5>2. k = N + 1 /\ k + 1 = N + 2 /\ k + 2 = N + 3
                    BY <1>2, <4>1
                <5>3. SubSeq(P, k, k + 3 - 1) = SubSeq(C, k, k + 3 - 1)
                    BY <1>3, <2>2, <5>1, <5>2
                <5> QED BY <1>2, <1>7, <5>3
            <4>2. CASE k # N + 1
                <5>1. k \in 0..N /\ k >= 1 /\ k \in 1..N + 3 /\ k <= N + 1
                    BY <1>2, <4>2
                <5>2. contains(i, 3, <<P[k], P[k + 1], P[k + 2]>>)
                    BY <1>6, <5>1
                <5>3. SubSeq(P, k, k + 3 - 1) = <<P[k], P[k + 1], P[k + 2]>>
                    BY <1>8, <5>1
                <5> QED BY <5>2, <5>3
            <4> QED BY <4>1, <4>2
        <3>2. \A k \in 1..N + 4 - 3 : contains(i, 3, SubSeq(P, k, k + 3 - 1))
            BY <1>2, <3>1
        <3> QED BY <1>1, <1>2, <2>3, <3>2, AnswerBits DEF P
    <2>4. CASE n = 4
        <3>1. ASSUME NEW k \in 1..N
              PROVE  contains(i, 4, SubSeq(P, k, k + 4 - 1))
            <4>1. CASE k = N
                <5>1. /\ SubSeq(P, k, k + 4 - 1) = <<P[k], P[k + 1], P[k + 2], P[k + 3]>>
                      /\ SubSeq(C, k, k + 4 - 1) = <<C[k], C[k + 1], C[k + 2], C[k + 3]>>
                    <6>1. P \in {P, C} /\ C \in {P, C} /\ k \in 1..N + 3 /\ k <= N
                        BY <1>2
                    <6> QED BY <1>8, <6>1
                <5>2. SubSeq(P, k, k + 4 - 1) = SubSeq(C, k, k + 4 - 1)
                    BY <1>3, <2>2, <4>1, <5>1
                <5> QED BY <1>2, <1>7, <5>2
            <4>2. CASE k # N
                <5>1. /\ k + 1 \in 0..N /\ k + 1 >= 2 /\ k \in 1..N + 3 /\ k <= N
                      /\ (k + 1) - 1 = k /\ (k + 1) + 1 = k + 2 /\ (k + 1) + 2 = k + 3
                    BY <1>2, <4>2
                <5>2. contains(i, 4, <<P[(k + 1) - 1], P[k + 1], P[(k + 1) + 1], P[(k + 1) + 2]>>)
                    BY <1>6, <5>1
                <5>3. SubSeq(P, k, k + 4 - 1) = <<P[k], P[k + 1], P[k + 2], P[k + 3]>>
                    BY <1>8, <5>1
                <5> QED BY <5>1, <5>2, <5>3
            <4> QED BY <4>1, <4>2
        <3>2. \A k \in 1..N + 4 - 4 : contains(i, 4, SubSeq(P, k, k + 4 - 1))
            BY <1>2, <3>1
        <3> QED BY <1>1, <1>2, <2>4, <3>2, AnswerBits DEF P
    <2> QED BY <1>11, <2>3, <2>4
<1> QED BY <1>9, <1>10, <1>11

\* What is restored in order has the ingested tokens in the ingested numbers, and every
\* window of two of its tokens, without collisions every window, was ingested.
THEOREM AnswerTheorem == ExactHash => (Spec => []OrderedAnswerFits)
<1> SUFFICES ASSUME ExactHash
             PROVE  Spec => []OrderedAnswerFits
    OBVIOUS
<1>1. WalkInv => OrderedAnswerFits
    <2> SUFFICES ASSUME WalkInv, answer.via \in {"walk", "beam"}
                 PROVE  /\ Tf(answer.cells) = ing.tf
                        /\ ing.kind = "seq" /\ Total(ing) >= 2 =>
                            \A n \in 1..4 : n <= 2 \/ (ing.hash = "exact" /\ Pad \notin AllTokens) =>
                                ingest(ing.hash, answer.cells).ch[n] \subseteq ing.ch[n]
        BY DEF OrderedAnswerFits
    <2>1. job \in Jobs /\ Complete(job, answer.cells)
        BY DEF WalkInv
    <2>2. Tf(answer.cells) = ing.tf
        BY <2>1, CompleteCounts DEF ing
    <2>3. ASSUME Pad \notin AllTokens
          PROVE  \A k \in 1..Len(job.ing.cells) : job.ing.cells[k] # Pad
        <3>1. DOMAIN job.ing.cells = 1..Len(job.ing.cells)
            BY <2>1, JobCounts
        <3> QED BY <2>3, <3>1 DEF AllTokens, ing
    <2>4. ASSUME ing.kind = "seq", Total(ing) >= 2, NEW n \in 1..4,
                 n <= 2 \/ (ing.hash = "exact" /\ Pad \notin AllTokens)
          PROVE  ingest(ing.hash, answer.cells).ch[n] \subseteq ing.ch[n]
        BY <2>1, <2>3, <2>4, SeqAnswer DEF ing
    <2> QED BY <2>2, <2>4
<1> QED BY <1>1, WalkInvariant, PTL

\* A grid is a tensor of two axes: its bits, and its checks of a candidate and of the end.
THEOREM GridTheorem == Spec => []GridIsTensor
<1>1. WalkInv => GridIsTensor
    <2> SUFFICES ASSUME WalkInv, ing.kind = "grid"
                 PROVE  /\ pc = "start" => ing.ch = ingest_tensor(ing.hash, ing.shape, ing.cells).ch
                        /\ pc = "pick" => \A t \in tokens :
                              grid_successor_ok(ing, path, t) = tensor_successor_ok(ing, path, t)
                        /\ Full(path) =>
                              grid_termination_ok(ing, path) = tensor_termination_ok(ing, path)
        BY DEF GridIsTensor
    <2>1. job \in Jobs /\ path \in Seq(TokensOf(job)) /\ (pc = "pick" => Total(ing) # 0)
        BY DEF WalkInv, Sound, ing
    <2>2. /\ ing.shape \in Nat \X Nat /\ Len(ing.cells) = ing.shape[1] * ing.shape[2]
          /\ ing = ingest_grid(ing.hash, ing.shape, ing.cells)
        BY <2>1, JobsAssumption DEF ing
    <2>3. ing.ch = ingest_tensor(ing.hash, ing.shape, ing.cells).ch
        <3>1. ingest_grid(ing.hash, ing.shape, ing.cells).ch
                = ingest_tensor(ing.hash, ing.shape, ing.cells).ch
            BY <2>2, GridIngest
        <3> QED BY <2>2, <3>1, Zenon
    <2>4. ASSUME pc = "pick", NEW t \in tokens
          PROVE  grid_successor_ok(ing, path, t) = tensor_successor_ok(ing, path, t)
        <3>1. Len(path) \in Nat
            BY <2>1
        <3>2. ing.shape[1] * ing.shape[2] > 0
            <4>1. Len(ing.cells) # 0 /\ ing.shape[1] \in Nat /\ ing.shape[2] \in Nat
                BY <2>1, <2>2, <2>4 DEF Total
            <4> DEFINE m == ing.shape[1] * ing.shape[2]
            <4>2. m \in Nat /\ m # 0
                BY <2>2, <4>1
            <4> HIDE DEF m
            <4>3. m > 0
                BY <4>2
            <4> QED BY <4>3 DEF m
        <3> QED BY <2>2, <3>1, <3>2, GridSuccessor
    <2>5. grid_termination_ok(ing, path) = tensor_termination_ok(ing, path)
        BY <2>2, GridTermination
    <2> QED BY <2>3, <2>4, <2>5
<1> QED BY <1>1, WalkInvariant, PTL

-----------------------------------------------------------------------------
(* Without collisions and repetitions only the next cell is a candidate.     *)

\* A position some steps further along every axis.
Shift(p, d, dim) == [a \in 1..dim |-> p[a] + d[a]]

\* Equal windows have equal cells, whatever the way to them is.
LEMMA WindowCells ==
    ASSUME NEW n \in Nat \ {0}, NEW sh \in Seq(Nat), NEW c1, NEW c2, NEW p, NEW q,
           tensor_window(sh, c1, n, p) = tensor_window(sh, c2, n, q),
           NEW d \in [1..Len(sh) -> 0..n - 1]
    PROVE  TensorCell(sh, c1, Shift(p, d, Len(sh))) = TensorCell(sh, c2, Shift(q, d, Len(sh)))
<1> DEFINE dim == Len(sh)
           K == cells_in_window(n, dim)
           f(c, r) == [k \in 1..K |->
                        TensorCell(sh, c, [a \in 1..dim |-> r[a] + Offset(n, dim, k - 1)[a]])]
<1>1. dim \in Nat
    OBVIOUS
<1>2. K \in Nat
    <2>1. PICK pw : IsPower(pw, n, dim) /\ cells_in_window(n, dim) = pw[dim]
        BY <1>1, PowerExists
    <2> QED BY <1>1, <2>1 DEF IsPower
<1>3. PICK w \in 0..K - 1 : Offset(n, dim, w) = d
    BY <1>1, OffsetReaches
<1>4. f(c1, p) = f(c2, q)
    BY Zenon DEF tensor_window
<1>5. w + 1 \in 1..K /\ (w + 1) - 1 = w
    BY <1>2, <1>3
<1>6. ASSUME NEW c, NEW r
      PROVE  f(c, r)[w + 1] = TensorCell(sh, c, Shift(r, d, dim))
    <2>1. f(c, r)[w + 1] =
            TensorCell(sh, c, [a \in 1..dim |-> r[a] + Offset(n, dim, (w + 1) - 1)[a]])
        BY <1>5, Zenon
    <2>2. Offset(n, dim, (w + 1) - 1) = d
        BY <1>3, <1>5
    <2> QED BY <2>1, <2>2, Zenon DEF Shift
<1> HIDE DEF f
<1>7. f(c1, p)[w + 1] = f(c2, q)[w + 1]
    BY <1>4, Zenon
<1> QED BY <1>6, <1>7, Zenon

\* A window holds what its cells hold.
LEMMA WindowSeq ==
    ASSUME NEW n \in Nat \ {0}, NEW sh \in Seq(Nat), NEW c, NEW p, NEW S,
           \A d \in [1..Len(sh) -> 0..n - 1] : TensorCell(sh, c, Shift(p, d, Len(sh))) \in S
    PROVE  tensor_window(sh, c, n, p) \in Seq(S)
<1> DEFINE dim == Len(sh)
           K == cells_in_window(n, dim)
           e(k) == TensorCell(sh, c, [a \in 1..dim |-> p[a] + Offset(n, dim, k - 1)[a]])
<1>1. dim \in Nat
    OBVIOUS
<1>2. K \in Nat
    <2>1. PICK pw : IsPower(pw, n, dim) /\ cells_in_window(n, dim) = pw[dim]
        BY <1>1, PowerExists
    <2> QED BY <1>1, <2>1, SMTT(40) DEF IsPower
<1>3. ASSUME NEW k \in 1..K
      PROVE  e(k) \in S
    <2>1. k - 1 \in Nat
        BY <1>2
    <2>2. Offset(n, dim, k - 1) \in [1..dim -> 0..n - 1]
        BY <1>1, <2>1, OffsetRange
    <2>3. TensorCell(sh, c, Shift(p, Offset(n, dim, k - 1), dim)) \in S
        BY <2>2
    <2> QED BY <2>3, Zenon DEF Shift
<1>4. tensor_window(sh, c, n, p) = [k \in 1..K |-> e(k)]
    BY Zenon DEF tensor_window
<1> HIDE DEF e, K
<1>5. [k \in 1..K |-> e(k)] \in Seq(S)
    BY <1>2, <1>3
<1> QED BY <1>4, <1>5

\* One step back along an axis is one stride.
LEMMA CellIndexBelow ==
    ASSUME NEW sh \in Seq(Nat), NEW p, NEW q, NEW a \in 1..Len(sh),
           \A b \in 1..Len(sh) : p[b] \in Int /\ q[b] = IF b = a THEN p[b] - 1 ELSE p[b]
    PROVE  CellIndex(sh, q) = CellIndex(sh, p) - strides(sh)[a]
<1> DEFINE n == Len(sh)
           s == strides(sh)
<1>1. n \in Nat /\ s \in [0..n -> Nat] /\ Border \in Nat
    BY StridesFacts DEF Border, MaxN
<1>2. \A b \in 1..n : p[b] \in Int /\ q[b] \in Int
    OBVIOUS
<1>3. PICK f : IsCellSum(f, sh, p) /\ CellIndex(sh, p) = f[n]
    BY <1>2, CellSum
<1>4. PICK g : IsCellSum(g, sh, q) /\ CellIndex(sh, q) = g[n]
    BY <1>2, CellSum
<1> HIDE DEF s
<1>10. /\ f \in [0..n -> Int] /\ f[0] = 0 /\ g \in [0..n -> Int] /\ g[0] = 0
       /\ \A b \in 1..n : f[b] = f[b - 1] + (p[b] - Border) * s[b]
       /\ \A b \in 1..n : g[b] = g[b - 1] + (q[b] - Border) * s[b]
    BY <1>3, <1>4, Zenon DEF IsCellSum, s
<1> DEFINE G == {b \in 0..n : g[b] = f[b] - (IF b >= a THEN s[a] ELSE 0)}
<1>5. 0 \in G
    BY <1>1, <1>10
<1>6. ASSUME NEW m \in 1..n, m - 1 \in G
      PROVE  m \in G
    <2>1. /\ m \in 0..n /\ m - 1 \in 0..n
          /\ f[m] = f[m - 1] + (p[m] - Border) * s[m]
          /\ g[m] = g[m - 1] + (q[m] - Border) * s[m]
          /\ f[m - 1] \in Int /\ g[m - 1] \in Int /\ s[m] \in Nat /\ s[a] \in Nat
        <3>1. m \in 0..n /\ m - 1 \in 0..n /\ a \in 0..n
            BY <1>1
        <3> HIDE DEF G, n
        <3> QED BY <1>1, <1>10, <3>1
    <2>2. CASE m = a
        <3>1. q[m] - Border = (p[m] - Border) - 1
            <4>1. q[m] = p[m] - 1 /\ p[m] \in Int
                BY <2>2
            <4> QED BY <1>1, <4>1
        <3>2. (q[m] - Border) * s[m] = (p[m] - Border) * s[m] - s[m]
            <4> DEFINE y == p[m] - Border
            <4>1. y \in Int
                BY <1>1
            <4> HIDE DEF y
            <4>2. (y - 1) * s[m] = y * s[m] - s[m]
                <5> DEFINE z == s[m]
                <5>1. z \in Int
                    BY <2>1
                <5> HIDE DEF z
                <5>2. (y - 1) * z = y * z - z
                    BY <4>1, <5>1
                <5> QED BY <5>2 DEF z
            <4> QED BY <3>1, <4>2 DEF y
        <3>3. g[m - 1] = f[m - 1]
            BY <1>6, <2>1, <2>2
        <3> DEFINE z == (p[m] - Border) * s[m]
        <3>4. z \in Int
            BY <1>1, <2>1
        <3>5. f[m] = f[m - 1] + z /\ g[m] = g[m - 1] + (z - s[m])
            BY <2>1, <3>2
        <3> HIDE DEF z
        <3> QED BY <2>1, <2>2, <3>3, <3>4, <3>5
    <2>3. CASE m # a
        <3>1. q[m] = p[m]
            BY <2>3
        <3> DEFINE z == (p[m] - Border) * s[m]
        <3>2. z \in Int
            BY <1>1, <2>1
        <3>3. f[m] = f[m - 1] + z /\ g[m] = g[m - 1] + z
            BY <2>1, <3>1
        <3> HIDE DEF z
        <3>4. (m - 1 >= a) <=> (m >= a)
            BY <2>3
        <3> QED BY <1>6, <2>1, <3>2, <3>3, <3>4, SMTT(40)
    <2> QED BY <2>2, <2>3
<1>7. \A b \in 0..n : b \in G
    <2> HIDE DEF G, n
    <2> QED BY <1>1, <1>5, <1>6, InductionUp
<1>8. n \in G /\ n >= a
    BY <1>1, <1>7
<1>9. g[n] = f[n] - s[a]
    BY <1>8
<1> QED BY <1>3, <1>4, <1>9 DEF s

\* Equal coordinates, equal index.
LEMMA CellIndexSame ==
    ASSUME NEW sh \in Seq(Nat), NEW p, NEW q,
           \A a \in 1..Len(sh) : p[a] \in Int /\ q[a] = p[a]
    PROVE  CellIndex(sh, p) = CellIndex(sh, q)
<1>1. \A a \in 1..Len(sh) : p[a] \in Int /\ q[a] \in Int /\ p[a] <= q[a] /\ q[a] <= p[a]
    OBVIOUS
<1>2. CellIndex(sh, p) \in Int /\ CellIndex(sh, p) <= CellIndex(sh, q)
    BY <1>1, CellIndexMono
<1>3. CellIndex(sh, q) \in Int /\ CellIndex(sh, q) <= CellIndex(sh, p)
    BY <1>1, CellIndexMono
<1> QED BY <1>2, <1>3

\* No token of a collection is repeated and none is the pad.
Distinct(i) ==
    /\ \A k, m \in 1..Len(i.cells) : i.cells[k] = i.cells[m] => k = m
    /\ \A k \in 1..Len(i.cells) : i.cells[k] # Pad

\* The steps from an anchor to the far corner of a window of two, and to its neighbours.
Far(dim) == [a \in 1..dim |-> 1]
Near(dim, b) == [a \in 1..dim |-> IF a = b THEN 0 ELSE 1]

\* What a window of two cells an axis says of the cell it ends in.
LEMMA TensorOnly ==
    ASSUME ExactHash, NEW i, TensorLike(i), i.hash = "exact", Distinct(i),
           NEW k \in 0..Len(i.cells) - 1, NEW x \in Tokens, x # Pad,
           tensor_successor_ok(i, SubSeq(i.cells, 1, k), x)
    PROVE  x = i.cells[k + 1]
<1> DEFINE c == i.cells
           sh == i.shape
           dim == Len(sh)
           D == Append(SubSeq(c, 1, k), x)
           at == to_multi(k, sh)
           A == [a \in 1..dim |-> at[a] + MaxN - 2]
           T == Tokens \cup {Pad}
           S2 == [1..dim -> 0..1]
<1>1. /\ sh \in Seq(Nat) /\ c \in Seq(Tokens) /\ dim \in Nat /\ Len(c) \in Nat
      /\ Len(SubSeq(c, 1, k)) = k /\ MaxN = 4 /\ Border = 3 /\ c # <<>>
    BY DEF TensorLike, MaxN, Border
<1>2. /\ \A a \in 1..dim : at[a] \in 0..sh[a] - 1 /\ at[a] \in Nat /\ sh[a] \in Nat
      /\ CellIndex(sh, [a \in 1..dim |-> at[a] + Border]) = k
    BY CandidatePosition
<1>3. contains(i, 2, tensor_window(sh, D, 2, A))
    <2>1. tensor_successor_ok(i, SubSeq(c, 1, k), x) =
            \A n \in 2..MaxN : contains(i, n, tensor_window(sh, D, n, [a \in 1..dim |-> at[a] + MaxN - n]))
        BY <1>1, Zenon DEF tensor_successor_ok
    <2>2. 2 \in 2..MaxN
        BY <1>1
    <2> HIDE DEF D, at
    <2>3. \A n \in 2..MaxN : contains(i, n, tensor_window(sh, D, n, [a \in 1..dim |-> at[a] + MaxN - n]))
        BY <2>1 DEF D, at
    <2> QED BY <2>2, <2>3, Zenon
<1>4. PICK q \in TensorAnchors(sh, 2) :
            Pos("exact", seed(2, dim), tensor_window(sh, D, 2, A))
                = Pos("exact", seed(2, dim), tensor_window(sh, c, 2, q))
    <2> DEFINE B(r) == Pos(i.hash, seed(2, dim), tensor_window(sh, c, 2, r))
    <2>1. i.ch[2] = {B(r) : r \in TensorAnchors(sh, 2)}
        BY <1>1 DEF TensorLike, ingest_tensor
    <2>2. Pos(i.hash, seed(2, dim), tensor_window(sh, D, 2, A)) \in i.ch[2]
        BY <1>3, Zenon DEF contains
    <2> HIDE DEF B, D, A
    <2>3. PICK r \in TensorAnchors(sh, 2) :
            Pos(i.hash, seed(2, dim), tensor_window(sh, D, 2, A)) = B(r)
        BY <2>1, <2>2
    <2> QED BY <2>3 DEF B
<1>5. \A a \in 1..dim : q[a] \in Nat
    <2>1. 2 \in 1..MaxN
        BY <1>1
    <2>2. q \in [1..dim -> Nat]
        BY <1>1, <2>1, AnchorsAre
    <2> QED BY <2>2
<1> HIDE DEF at
\* The cells of the two windows.
<1>6. ASSUME NEW d \in S2
      PROVE  /\ \A a \in 1..dim : /\ Shift(A, d, dim)[a] = at[a] + 2 + d[a]
                                  /\ Shift(A, d, dim)[a] \in Int
                                  /\ Shift(A, d, dim)[a] <= at[a] + Border
             /\ \A a \in 1..dim : Shift(q, d, dim)[a] = q[a] + d[a] /\ Shift(q, d, dim)[a] \in Int
    <2> SUFFICES ASSUME NEW a \in 1..dim
                 PROVE  /\ Shift(A, d, dim)[a] = at[a] + 2 + d[a]
                        /\ Shift(A, d, dim)[a] \in Int
                        /\ Shift(A, d, dim)[a] <= at[a] + Border
                        /\ Shift(q, d, dim)[a] = q[a] + d[a] /\ Shift(q, d, dim)[a] \in Int
        OBVIOUS
    <2>1. A[a] = at[a] + MaxN - 2 /\ d[a] \in 0..1 /\ at[a] \in Nat /\ q[a] \in Nat
        BY <1>2, <1>5
    <2>2. Shift(A, d, dim)[a] = A[a] + d[a] /\ Shift(q, d, dim)[a] = q[a] + d[a]
        BY DEF Shift
    <2> HIDE DEF A
    <2> QED BY <1>1, <2>1, <2>2, SMTT(40)
<1>7. ASSUME NEW d \in S2
      PROVE  IF RealCell(sh, Shift(A, d, dim))
             THEN /\ CellIndex(sh, Shift(A, d, dim)) \in 0..k
                  /\ TensorCell(sh, D, Shift(A, d, dim)) =
                        (IF CellIndex(sh, Shift(A, d, dim)) = k THEN x
                         ELSE c[CellIndex(sh, Shift(A, d, dim)) + 1])
                  /\ TensorCell(sh, D, Shift(A, d, dim)) \in Tokens
                  /\ TensorCell(sh, D, Shift(A, d, dim)) # Pad
             ELSE TensorCell(sh, D, Shift(A, d, dim)) = Pad
    <2> DEFINE z == Shift(A, d, dim)
    <2>1. CASE RealCell(sh, z)
        <3>1. \A a \in 1..dim : z[a] \in Int /\ z[a] <= at[a] + Border
            BY <1>6
        <3> HIDE DEF z, D
        <3>2. /\ CellIndex(sh, z) \in 0..k
              /\ TensorCell(sh, D, z) = IF CellIndex(sh, z) = k THEN x ELSE c[CellIndex(sh, z) + 1]
            BY <2>1, <3>1, PastCells DEF at, D
        <3>3. CellIndex(sh, z) # k =>
                c[CellIndex(sh, z) + 1] \in Tokens /\ c[CellIndex(sh, z) + 1] # Pad
            <4> SUFFICES ASSUME CellIndex(sh, z) # k
                         PROVE  c[CellIndex(sh, z) + 1] \in Tokens /\ c[CellIndex(sh, z) + 1] # Pad
                OBVIOUS
            <4>1. CellIndex(sh, z) + 1 \in 1..Len(c)
                BY <1>1, <3>2
            <4> QED BY <1>1, <4>1 DEF Distinct
        <3>4. TensorCell(sh, D, z) \in Tokens /\ TensorCell(sh, D, z) # Pad
            BY <3>2, <3>3
        <3> QED BY <2>1, <3>2, <3>4 DEF z
    <2>2. CASE ~RealCell(sh, z)
        BY <2>2, Zenon DEF TensorCell
    <2> QED BY <2>1, <2>2
<1>8. ASSUME NEW d \in S2
      PROVE  IF RealCell(sh, Shift(q, d, dim))
             THEN /\ CellIndex(sh, Shift(q, d, dim)) \in 0..Len(c) - 1
                  /\ TensorCell(sh, c, Shift(q, d, dim)) = c[CellIndex(sh, Shift(q, d, dim)) + 1]
                  /\ TensorCell(sh, c, Shift(q, d, dim)) \in Tokens
                  /\ TensorCell(sh, c, Shift(q, d, dim)) # Pad
             ELSE TensorCell(sh, c, Shift(q, d, dim)) = Pad
    <2> DEFINE z == Shift(q, d, dim)
    <2>1. CASE RealCell(sh, z)
        <3>1. \A a \in 1..dim : z[a] \in Int
            BY <1>6
        <3> HIDE DEF z
        <3>2. /\ CellIndex(sh, z) \in 0..Len(c) - 1
              /\ TensorCell(sh, c, z) = c[CellIndex(sh, z) + 1]
              /\ TensorCell(sh, c, z) \in Tokens
            BY <2>1, <3>1, TensorCellReal
        <3>3. CellIndex(sh, z) + 1 \in 1..Len(c)
            BY <1>1, <3>2
        <3>4. c[CellIndex(sh, z) + 1] # Pad
            BY <3>3 DEF Distinct
        <3> QED BY <2>1, <3>2, <3>4 DEF z
    <2>2. CASE ~RealCell(sh, z)
        BY <2>2, Zenon DEF TensorCell
    <2> QED BY <2>1, <2>2
<1>9. tensor_window(sh, D, 2, A) = tensor_window(sh, c, 2, q)
    <2>1. \A d \in [1..dim -> 0..2 - 1] : TensorCell(sh, D, Shift(A, d, dim)) \in T
        BY <1>7
    <2>2. \A d \in [1..dim -> 0..2 - 1] : TensorCell(sh, c, Shift(q, d, dim)) \in T
        BY <1>8
    <2> HIDE DEF D, A, T
    <2>6. 2 \in Nat \ {0}
        OBVIOUS
    <2>3. tensor_window(sh, D, 2, A) \in Seq(T)
        BY <1>1, <2>1, <2>6, WindowSeq
    <2>4. tensor_window(sh, c, 2, q) \in Seq(T)
        BY <1>1, <2>2, <2>6, WindowSeq
    <2>5. seed(2, dim) \in Nat
        BY <1>1 DEF seed
    <2> QED BY <1>4, <2>3, <2>4, <2>5 DEF ExactHash, T
<1>10. ASSUME NEW d \in S2
       PROVE  TensorCell(sh, D, Shift(A, d, dim)) = TensorCell(sh, c, Shift(q, d, dim))
    <2> HIDE DEF D, A, dim
    <2> DEFINE m == 2
    <2>1. d \in [1..dim -> 0..m - 1] /\ m \in Nat \ {0}
        OBVIOUS
    <2>2. tensor_window(sh, D, m, A) = tensor_window(sh, c, m, q)
        BY <1>9
    <2> HIDE DEF m
    <2> QED BY <1>1, <2>1, <2>2, WindowCells DEF dim
<1> HIDE DEF D, A
\* The far corners: the candidate, and a cell of the ingested tensor.
<1> DEFINE z == Shift(A, Far(dim), dim)
           e == Shift(q, Far(dim), dim)
<1>11. Far(dim) \in S2 /\ \A a \in 1..dim : Far(dim)[a] = 1 /\ Near(dim, a) \in S2
    BY DEF Far, Near
<1>12. /\ \A a \in 1..dim : z[a] = at[a] + Border /\ z[a] \in Int
       /\ \A a \in 1..dim : e[a] = q[a] + 1 /\ e[a] \in Int
    <2> SUFFICES ASSUME NEW a \in 1..dim
                 PROVE  z[a] = at[a] + Border /\ z[a] \in Int /\ e[a] = q[a] + 1 /\ e[a] \in Int
        OBVIOUS
    <2>1. z[a] = at[a] + 2 + Far(dim)[a] /\ e[a] = q[a] + Far(dim)[a]
        BY <1>6, <1>11
    <2>2. Far(dim)[a] = 1 /\ at[a] \in Nat /\ q[a] \in Nat
        BY <1>2, <1>5, <1>11
    <2> HIDE DEF z, e
    <2> QED BY <1>1, <2>1, <2>2, SMTT(40)
<1> HIDE DEF z, e
<1>13. RealCell(sh, z) /\ CellIndex(sh, z) = k
    <2>1. RealCell(sh, z)
        <3> SUFFICES ASSUME NEW a \in 1..dim
                     PROVE  z[a] - Border \in 0..sh[a] - 1
            BY DEF RealCell
        <3>1. z[a] = at[a] + Border /\ at[a] \in 0..sh[a] - 1 /\ at[a] \in Nat /\ sh[a] \in Nat
            BY <1>2, <1>12 DEF at
        <3>2. Border = 3
            BY DEF Border, MaxN
        <3> HIDE DEF at, sh
        <3>3. at[a] \in Nat /\ sh[a] \in Nat /\ at[a] <= sh[a] - 1
            BY <3>1
        <3> QED BY <3>1, <3>2, <3>3
    <2> DEFINE y == [a \in 1..dim |-> at[a] + Border]
    <2>2. \A a \in 1..dim : z[a] \in Int /\ y[a] = z[a]
        BY <1>12
    <2>3. CellIndex(sh, y) = k
        BY <1>2 DEF at
    <2> HIDE DEF y
    <2>4. CellIndex(sh, z) = CellIndex(sh, y)
        BY <1>1, <2>2, CellIndexSame
    <2> QED BY <2>1, <2>3, <2>4
<1>14. TensorCell(sh, c, e) = x
    <2>1. TensorCell(sh, D, z) = x
        BY <1>7, <1>11, <1>13 DEF z
    <2> QED BY <1>10, <1>11, <2>1 DEF z, e
<1>15. /\ RealCell(sh, e) /\ CellIndex(sh, e) \in 0..Len(c) - 1
       /\ x = c[CellIndex(sh, e) + 1]
    BY <1>8, <1>11, <1>14 DEF e
<1>16. SUFFICES CellIndex(sh, e) = k
    BY <1>15
\* The neighbours along an axis: both exist or none does.
<1>17. ASSUME NEW b \in 1..dim
       PROVE  /\ at[b] = 0 => e[b] = Border
              /\ at[b] # 0 => CellIndex(sh, e) = k
    <2> DEFINE zb == Shift(A, Near(dim, b), dim)
               eb == Shift(q, Near(dim, b), dim)
    <2>1. /\ \A a \in 1..dim : zb[a] = (IF a = b THEN z[a] - 1 ELSE z[a]) /\ zb[a] \in Int
          /\ \A a \in 1..dim : eb[a] = (IF a = b THEN e[a] - 1 ELSE e[a]) /\ eb[a] \in Int
        <3> SUFFICES ASSUME NEW a \in 1..dim
                     PROVE  /\ zb[a] = (IF a = b THEN z[a] - 1 ELSE z[a]) /\ zb[a] \in Int
                            /\ eb[a] = (IF a = b THEN e[a] - 1 ELSE e[a]) /\ eb[a] \in Int
            OBVIOUS
        <3>1. zb[a] = at[a] + 2 + Near(dim, b)[a] /\ eb[a] = q[a] + Near(dim, b)[a]
            BY <1>6, <1>11
        <3>2. Near(dim, b)[a] = IF a = b THEN 0 ELSE 1
            BY DEF Near
        <3>3. z[a] = at[a] + 3 /\ e[a] = q[a] + 1 /\ at[a] \in Nat /\ q[a] \in Nat
            BY <1>1, <1>2, <1>5, <1>12
        <3> HIDE DEF zb, eb
        <3> QED BY <3>1, <3>2, <3>3, SMTT(40)
    <2>2. TensorCell(sh, D, zb) = TensorCell(sh, c, eb)
        BY <1>10, <1>11
    <2>3. IF RealCell(sh, zb)
          THEN /\ CellIndex(sh, zb) \in 0..k
               /\ TensorCell(sh, D, zb) = (IF CellIndex(sh, zb) = k THEN x ELSE c[CellIndex(sh, zb) + 1])
               /\ TensorCell(sh, D, zb) \in Tokens
               /\ TensorCell(sh, D, zb) # Pad
          ELSE TensorCell(sh, D, zb) = Pad
        BY <1>7, <1>11
    <2>4. IF RealCell(sh, eb)
          THEN /\ CellIndex(sh, eb) \in 0..Len(c) - 1
               /\ TensorCell(sh, c, eb) = c[CellIndex(sh, eb) + 1]
               /\ TensorCell(sh, c, eb) \in Tokens
               /\ TensorCell(sh, c, eb) # Pad
          ELSE TensorCell(sh, c, eb) = Pad
        BY <1>8, <1>11
    <2> HIDE DEF zb, eb
    <2>5. RealCell(sh, zb) <=> RealCell(sh, eb)
        BY <2>2, <2>3, <2>4
    <2>6. ASSUME NEW r, NEW rb, RealCell(sh, r),
                 \A a \in 1..dim : r[a] \in Int /\ rb[a] = IF a = b THEN r[a] - 1 ELSE r[a]
          PROVE  RealCell(sh, rb) <=> r[b] # Border
        <3>1. \A a \in 1..dim : r[a] - Border \in 0..sh[a] - 1 /\ sh[a] \in Nat
            BY <1>2, <2>6 DEF RealCell
        <3>2. \A a \in 1..dim : a # b => rb[a] - Border \in 0..sh[a] - 1
            BY <2>6, <3>1
        <3>3. rb[b] - Border \in 0..sh[b] - 1 <=> r[b] # Border
            <4>1. rb[b] = r[b] - 1 /\ r[b] \in Int /\ r[b] - Border \in 0..sh[b] - 1 /\ sh[b] \in Nat
                BY <2>6, <3>1
            <4> DEFINE u == r[b]
                       h == sh[b]
            <4>2. u \in Int /\ h \in Nat /\ u - 3 \in 0..h - 1
                BY <1>1, <4>1
            <4> HIDE DEF u, h
            <4>3. (u - 1) - 3 \in 0..h - 1 <=> u # 3
                BY <4>2
            <4> QED BY <1>1, <4>1, <4>3 DEF u, h
        <3>4. RealCell(sh, rb) <=> \A a \in 1..dim : rb[a] - Border \in 0..sh[a] - 1
            BY DEF RealCell
        <3> QED BY <3>2, <3>3, <3>4
    <2>7. RealCell(sh, zb) <=> z[b] # Border
        BY <1>12, <1>13, <2>1, <2>6
    <2>8. RealCell(sh, eb) <=> e[b] # Border
        BY <1>12, <1>15, <2>1, <2>6
    <2>9. z[b] = at[b] + Border /\ at[b] \in Nat
        BY <1>2, <1>12
    <2>10. at[b] = 0 => e[b] = Border
        BY <1>1, <2>5, <2>7, <2>8, <2>9
    <2>11. ASSUME at[b] # 0
           PROVE  CellIndex(sh, e) = k
        <3>1. RealCell(sh, zb) /\ RealCell(sh, eb)
            BY <1>1, <2>5, <2>7, <2>9, <2>11
        <3>2. /\ CellIndex(sh, zb) = CellIndex(sh, z) - strides(sh)[b]
              /\ CellIndex(sh, eb) = CellIndex(sh, e) - strides(sh)[b]
            <4>1. \A a \in 1..dim : z[a] \in Int /\ zb[a] = IF a = b THEN z[a] - 1 ELSE z[a]
                BY <1>12, <2>1
            <4>2. \A a \in 1..dim : e[a] \in Int /\ eb[a] = IF a = b THEN e[a] - 1 ELSE e[a]
                BY <1>12, <2>1
            <4>3. CellIndex(sh, zb) = CellIndex(sh, z) - strides(sh)[b]
                BY <1>1, <4>1, CellIndexBelow, ZenonT(60)
            <4>4. CellIndex(sh, eb) = CellIndex(sh, e) - strides(sh)[b]
                BY <1>1, <4>2, CellIndexBelow, ZenonT(60)
            <4> QED BY <4>3, <4>4
        <3>3. strides(sh)[b] \in Nat \ {0}
            <4>1. strides(sh)[0] > 0
                <5>1. Len(c) = strides(sh)[0]
                    BY DEF TensorLike
                <5>2. Len(c) > 0
                    BY <1>1
                <5> QED BY <5>1, <5>2
            <4>2. b \in 0..dim
                BY <1>1
            <4> QED BY <1>1, <4>1, <4>2, StridesPositive
        <3> DEFINE m1 == CellIndex(sh, zb)
                   m2 == CellIndex(sh, eb)
        <3>4. m1 \in 0..k /\ m1 # k
            BY <1>13, <2>3, <3>1, <3>2, <3>3
        <3>5. c[m1 + 1] = c[m2 + 1] /\ m2 \in 0..Len(c) - 1
            BY <2>2, <2>3, <2>4, <3>1, <3>4
        <3> HIDE DEF m1, m2
        <3>6. m1 + 1 \in 1..Len(c) /\ m2 + 1 \in 1..Len(c)
            BY <1>1, <3>4, <3>5
        <3>7. m1 + 1 = m2 + 1
            BY <3>5, <3>6 DEF Distinct
        <3>8. m1 = m2
            BY <3>4, <3>5, <3>7
        <3> QED BY <1>13, <1>15, <3>2, <3>3, <3>8 DEF m1, m2
    <2> QED BY <2>10, <2>11
<1>18. CASE \E b \in 1..dim : at[b] # 0
    BY <1>17, <1>18
<1>19. CASE \A b \in 1..dim : at[b] = 0
    <2>1. \A a \in 1..dim : z[a] \in Int /\ e[a] = z[a]
        BY <1>1, <1>12, <1>17, <1>19, SMTT(40)
    <2>2. CellIndex(sh, z) = CellIndex(sh, e)
        BY <1>1, <2>1, CellIndexSame
    <2> QED BY <1>13, <2>2
<1> QED BY <1>18, <1>19

\* In a sequence without repetitions only the next cell follows the last one.
LEMMA SeqOnly ==
    ASSUME ExactHash, NEW i, SeqLike(i), i.hash = "exact", Distinct(i), i.cells # <<>>,
           NEW k \in 0..Len(i.cells) - 1, NEW x \in Tokens, x # Pad,
           SeqSuccessorOk(i, SubSeq(i.cells, 1, k), x)
    PROVE  x = i.cells[k + 1]
<1> DEFINE c == i.cells
           C == padded(c)
           N == Len(c)
           T == Tokens \cup {Pad}
<1>1. /\ c \in Seq(Tokens) /\ C \in Seq(T) /\ Len(C) = N + 3 /\ N \in Nat
      /\ C[1] = Pad /\ C[N + 2] = Pad /\ C[N + 3] = Pad
      /\ \A m \in 1..N : C[m + 1] = c[m]
    BY PaddedIs DEF SeqLike
<1> HIDE DEF C
<1>2. Back(SubSeq(c, 1, k), 0) = C[k + 1]
    <2>1. 0 \in 0..k /\ k \in 0..N /\ k - 0 + 1 = k + 1
        BY <1>1
    <2>2. Back(SubSeq(c, 1, k), 0) = C[k - 0 + 1]
        BY <1>1, <2>1, BackIs DEF C
    <2> QED BY <2>1, <2>2
<1>3. contains(i, 2, <<C[k + 1], x>>)
    BY <1>2 DEF SeqSuccessorOk
<1> DEFINE w == <<C[k + 1], x>>
<1>4. PICK m \in 1..N + 2 : Pos("exact", seed(2, 1), w) = Pos("exact", seed(2, 1), SubSeq(C, m, m + 2 - 1))
    <2>1. \E m \in 1..N + 4 - 2 : Pos("exact", seed(2, 1), w) = Pos("exact", seed(2, 1), SubSeq(C, m, m + 2 - 1))
        BY <1>3, SeqHit DEF C
    <2>2. N + 4 - 2 = N + 2
        BY <1>1
    <2> QED BY <2>1, <2>2
<1>5. SubSeq(C, m, m + 2 - 1) = <<C[m], C[m + 1]>>
    <2>1. m \in 1..Len(C) /\ m + 1 <= Len(C) /\ m + 2 - 1 = m + 1
        BY <1>1
    <2>2. SubSeq(C, m, m + 1) = <<C[m], C[m + 1]>>
        BY <1>1, <2>1, Triples
    <2> QED BY <2>1, <2>2
<1>6. C[k + 1] = C[m] /\ x = C[m + 1]
    <2>1. C[k + 1] \in T /\ C[m] \in T /\ C[m + 1] \in T /\ x \in T
        <3>1. k + 1 \in 1..Len(C) /\ m \in 1..Len(C) /\ m + 1 \in 1..Len(C)
            BY <1>1
        <3> QED BY <1>1, <3>1, SMTT(40)
    <2>2. w \in Seq(T) /\ <<C[m], C[m + 1]>> \in Seq(T)
        <3> HIDE DEF T
        <3> QED BY <2>1
    <2>3. seed(2, 1) \in Nat
        BY DEF seed
    <2>4. w = <<C[m], C[m + 1]>>
        <3> HIDE DEF w
        <3> QED BY <1>4, <1>5, <2>2, <2>3 DEF ExactHash, T
    <2> QED BY <2>4
<1>7. m \in 1..N
    <2>1. m = N + 1 => C[m + 1] = Pad
        <3>1. (N + 1) + 1 = N + 2
            BY <1>1
        <3> QED BY <1>1, <3>1, Zenon
    <2>2. m = N + 2 => C[m + 1] = Pad
        <3>1. (N + 2) + 1 = N + 3
            BY <1>1
        <3> QED BY <1>1, <3>1, Zenon
    <2>3. m # N + 1 /\ m # N + 2
        BY <1>6, <2>1, <2>2
    <2>4. m \in 1..N + 2 /\ N \in Nat
        BY <1>1, <1>4
    <2> HIDE DEF N
    <2> QED BY <2>3, <2>4
<1>8. x = c[m]
    BY <1>1, <1>6, <1>7
<1>9. \A b \in 1..N : c[b] # Pad
    BY DEF Distinct
<1>10. CASE k = 0
    <2>1. C[m] = Pad
        BY <1>1, <1>6, <1>10
    <2>2. m = 1
        <3> SUFFICES ASSUME m # 1 PROVE FALSE
            OBVIOUS
        <3>1. m - 1 \in 1..N /\ (m - 1) + 1 = m
            BY <1>1, <1>7
        <3>2. C[m] = c[m - 1]
            BY <1>1, <3>1
        <3> QED BY <1>9, <2>1, <3>1, <3>2
    <2> QED BY <1>8, <1>10, <2>2
<1>11. CASE k # 0
    <2>1. k \in 1..N /\ C[k + 1] = c[k]
        BY <1>1, <1>11
    <2>2. C[m] = c[k] /\ C[m] # Pad
        BY <1>6, <1>9, <2>1
    <2>3. m - 1 \in 1..N /\ (m - 1) + 1 = m
        BY <1>1, <1>7, <2>2
    <2>4. c[m - 1] = c[k]
        BY <1>1, <2>2, <2>3
    <2>5. m - 1 = k
        BY <2>1, <2>3, <2>4 DEF Distinct
    <2> QED BY <1>8, <2>3, <2>5
<1> QED BY <1>10, <1>11

\* A token that occurs once has one place.
LEMMA OccursOnce ==
    ASSUME NEW S, NEW s \in Seq(S), NEW t, Occurrences(s, t) = 1,
           NEW k \in 1..Len(s), NEW m \in 1..Len(s), s[k] = t, s[m] = t
    PROVE  k = m
<1> DEFINE A == {i \in DOMAIN s : s[i] = t}
<1>1. IsFiniteSet(A) /\ Cardinality(A) = 1
    BY OccurrencesType DEF Occurrences
<1>2. k \in A /\ m \in A
    OBVIOUS
<1> HIDE DEF A
<1>3. PICK a : A = {a}
    BY <1>1, FS_Singleton
<1> QED BY <1>2, <1>3

\* Equal beginnings and an equal next cell are an equal longer beginning.
LEMMA UptoNext ==
    ASSUME NEW S, NEW p \in Seq(S), NEW c \in Seq(S), Len(p) = Len(c), NEW k \in 1..Len(p),
           Upto(p, k - 1) = Upto(c, k - 1), p[k] = c[k]
    PROVE  Upto(p, k) = Upto(c, k)
<1> DEFINE u == SubSeq(p, 1, k)
           v == SubSeq(c, 1, k)
<1>1. Len(p) \in Nat /\ k - 1 \in 0..Len(p) /\ k \in 0..Len(p)
    OBVIOUS
<1>2. /\ u \in Seq(S) /\ Len(u) = k /\ \A a \in 1..k : u[a] = p[a]
      /\ v \in Seq(S) /\ Len(v) = k /\ \A a \in 1..k : v[a] = c[a]
    BY <1>1
<1>3. ASSUME NEW a \in 1..k
      PROVE  p[a] = c[a]
    <2>1. CASE a = k
        BY <2>1
    <2>2. CASE a # k
        <3>1. a \in 1..k - 1
            BY <2>2
        <3>2. SubSeq(p, 1, k - 1)[a] = p[a] /\ SubSeq(c, 1, k - 1)[a] = c[a]
            BY <1>1, <3>1
        <3> QED BY <3>2 DEF Upto
    <2> QED BY <2>1, <2>2
<1> HIDE DEF u, v
<1>4. u = v
    BY <1>2, <1>3
<1> QED BY <1>4 DEF u, v, Upto

\* The only complete path is the ingested order.
LEMMA OnlyOriginal ==
    ASSUME ExactHash, NEW j \in Jobs, j.ing.hash = "exact", Covered(j),
           \A t \in TokensOf(j) : j.ing.tf[t] = 1 /\ t # Pad,
           NEW p, Complete(j, p)
    PROVE  p = j.ing.cells
<1> DEFINE i == j.ing
           c == i.cells
           N == Len(c)
<1>1. /\ p \in Seq(Tokens) /\ Len(p) = N /\ c \in Seq(Tokens) /\ Total(i) = N /\ N \in Nat
      /\ p \in Seq(TokensOf(j))
    BY CompleteCounts, JobCounts
<1>2. \A k \in 1..N : c[k] \in TokensOf(j) /\ c[k] \in Tokens
    BY <1>1 DEF Covered
<1>3. Distinct(i)
    <2>1. ASSUME NEW k \in 1..N, NEW m \in 1..N, c[k] = c[m]
          PROVE  k = m
        <3> DEFINE t == c[k]
        <3>1. t \in TokensOf(j) /\ t \in Tokens /\ c[m] = t
            BY <1>2, <2>1
        <3> HIDE DEF t
        <3>2. Occurrences(c, t) = 1
            BY <3>1, JobCounts
        <3>3. c[k] = t
            BY DEF t
        <3> QED BY <1>1, <3>1, <3>2, <3>3, OccursOnce
    <2>2. \A k \in 1..N : c[k] # Pad
        BY <1>2
    <2> QED BY <2>1, <2>2 DEF Distinct
<1>4. ASSUME NEW k \in 0..N - 1, Upto(p, k) = Upto(c, k)
      PROVE  p[k + 1] = c[k + 1]
    <2> DEFINE x == p[k + 1]
               u == SubSeq(c, 1, k)
    <2>1. x \in NextOf(j, Upto(p, k))
        BY <1>1 DEF Complete, Sound
    <2>2. x \in TokensOf(j) /\ SuccessorOk(i, u, x)
        BY <1>4, <2>1 DEF NextOf, Upto
    <2> HIDE DEF x
    <2>3. x \in Tokens /\ x # Pad /\ c # <<>>
        BY <1>1, <2>2, JobTokens
    <2>4. Alike(i)
        BY JobsAlike
    <2>5. CASE i.kind = "seq"
        <3>1. SeqSuccessorOk(i, u, x) /\ SeqLike(i)
            BY <2>2, <2>4, <2>5 DEF SuccessorOk, Alike
        <3> QED BY <1>3, <2>3, <3>1, SeqOnly DEF x
    <2>6. CASE i.kind = "tensor"
        <3>1. tensor_successor_ok(i, u, x) /\ TensorLike(i)
            BY <2>2, <2>4, <2>6 DEF SuccessorOk, Alike
        <3> QED BY <1>3, <2>3, <3>1, TensorOnly DEF x
    <2>7. CASE i.kind = "grid"
        <3>1. grid_successor_ok(i, u, x) /\ TensorLike(i) /\ i.shape \in Nat \X Nat
            BY <2>2, <2>4, <2>7 DEF SuccessorOk, Alike
        <3>2. i.shape[1] * i.shape[2] > 0
            <4>1. Len(c) = i.shape[1] * i.shape[2]
                BY <2>7, JobsAssumption
            <4> DEFINE m == i.shape[1] * i.shape[2]
            <4>2. m = N /\ N > 0
                BY <1>1, <4>1
            <4> HIDE DEF m
            <4>3. m > 0
                BY <4>2
            <4> QED BY <4>3 DEF m
        <3>3. Len(u) \in Nat
            BY <1>1
        <3>4. tensor_successor_ok(i, u, x)
            BY <3>1, <3>2, <3>3, GridSuccessor
        <3> QED BY <1>3, <2>3, <3>1, <3>4, TensorOnly DEF x
    <2> QED BY <2>4, <2>5, <2>6, <2>7 DEF Alike
<1> DEFINE G == {k \in 0..N : Upto(p, k) = Upto(c, k)}
<1>5. 0 \in G
    BY <1>1 DEF Upto
<1>6. ASSUME NEW k \in 1..N, k - 1 \in G
      PROVE  k \in G
    <2>1. k - 1 \in 0..N - 1 /\ (k - 1) + 1 = k /\ Upto(p, k - 1) = Upto(c, k - 1)
        BY <1>1, <1>6
    <2>2. p[k] = c[k]
        <3>1. p[(k - 1) + 1] = c[(k - 1) + 1]
            BY <1>4, <2>1
        <3> QED BY <2>1, <3>1
    <2>3. Upto(p, k) = Upto(c, k)
        BY <1>1, <2>1, <2>2, UptoNext
    <2> QED BY <1>1, <2>3
<1>7. \A k \in 0..N : k \in G
    <2> HIDE DEF G, N
    <2> QED BY <1>1, <1>5, <1>6, InductionUp
<1>8. Upto(p, N) = Upto(c, N)
    BY <1>1, <1>7
<1>9. Upto(p, N) = p /\ Upto(c, N) = c
    BY <1>1 DEF Upto
<1> QED BY <1>8, <1>9

\* Without collisions a collection without repeated tokens is restored as it was.
THEOREM RestoreTheorem == ExactHash => (Spec => []RestoresOriginal)
<1> SUFFICES ASSUME ExactHash
             PROVE  Spec => []RestoresOriginal
    OBVIOUS
<1>1. WalkInv /\ OpenInv => RestoresOriginal
    <2> SUFFICES ASSUME WalkInv, OpenInv, pc = "done", ing.hash = "exact", AllTokens \subseteq tokens,
                        \A t \in tokens : ing.tf[t] = 1 /\ t # Pad, budget > 0
                 PROVE  answer.cells = ing.cells
        BY DEF RestoresOriginal
    <2>1. job \in Jobs /\ Covered(job) /\ tokens = TokensOf(job)
        BY CoveredIs, CandidatesOf DEF WalkInv
    <2>2. answer.via \in {"empty", "walk", "beam"}
        BY <2>1 DEF WalkInv, OpenInv
    <2>3. CASE answer.via = "empty"
        <3>1. answer.cells = <<>> /\ (TokensOf(job) = {} \/ Total(job.ing) = 0)
            BY <2>3 DEF WalkInv
        <3>2. Total(job.ing) = 0
            <4> SUFFICES ASSUME Total(job.ing) # 0, TokensOf(job) = {}
                         PROVE  FALSE
                BY <3>1
            <4>1. 1 \in 1..Total(job.ing)
                BY <2>1, JobCounts
            <4> QED BY <2>1, <4>1 DEF Covered
        <3>3. job.ing.cells = <<>>
            BY <2>1, <3>2, JobCounts
        <3> QED BY <3>1, <3>3 DEF ing
    <2>4. CASE answer.via \in {"walk", "beam"}
        <3>1. Complete(job, answer.cells)
            BY <2>4 DEF WalkInv
        <3> QED BY <2>1, <3>1, OnlyOriginal DEF ing
    <2> QED BY <2>2, <2>3, <2>4
<1> QED BY <1>1, WalkInvariant, OpenInvariant, PTL

=============================================================================
