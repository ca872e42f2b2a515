------------------------------- MODULE Sketch --------------------------------
(* HLLSets bit by bit (crates/hllset-core) and the token tables over them    *)
(* (crates/hllset-lut), which find the bit of a token by another path, the   *)
(* BitAddress of crates/hllset-contracts: a collection is fed token by token *)
(* to a sketch, its frequencies are counted and exchanged with a peer's.  A  *)
(* token is a sequence of bytes.                                             *)
EXTENDS TokenLut, SequencesExt, FiniteSetsExt

\* Powers of two: of the widths, and of the positions in a register.
pow2[k \in Nat] == IF k = 0 THEN 1 ELSE 2 * pow2[k - 1]

CONSTANTS P, BitsPerReg, HashBits,   \* 10, 32 and 64 in the code
          ByteTokens,                \* the tokens
          Murmur(_),                 \* the hash of a token, seed 0
          MaxFed, MaxTf              \* bounds: tokens fed, a frequency

ASSUME SketchAssumption ==
    /\ P \in Nat /\ BitsPerReg \in Nat \ {0} /\ HashBits \in Nat
    /\ ByteTokens \subseteq Seq(0..255)
    /\ \A t \in ByteTokens : Murmur(t) \in 0..pow2[HashBits] - 1

VARIABLES fed,    \* the collection, in its order
          set,    \* HLLSet::bitmap
          tf,     \* TFVec::values
          peer,   \* another TFVec
          counts  \* history: the increments made here

sketch_vars == <<fed, set, tf, peer, counts>>

M == pow2[P]
TotalBits == M * BitsPerReg

-----------------------------------------------------------------------------
(* From hashes to bits, in the core and in the contracts.                    *)

trailing_zeros(x) == Max({k \in 0..HashBits : x % pow2[k] = 0})

\* Mutation of add_hash: the count does not saturate.
add_hash_unbounded(s, hash) ==
    LET tz == IF hash \div M = 0 THEN BitsPerReg - 1 ELSE trailing_zeros(hash \div M)
    IN  s \cup {(hash % M) * BitsPerReg + tz}

add_hash(s, hash) ==
    LET tz == IF hash \div M = 0 THEN BitsPerReg - 1
              ELSE Min({trailing_zeros(hash \div M), BitsPerReg - 1})
    IN  s \cup {(hash % M) * BitsPerReg + tz}

FromTokens(tokens) == FoldLeft(LAMBDA s, t : add_hash(s, Murmur(t)), {}, tokens)

hash_to_position(hash) ==
    [reg |-> hash % M,
     tz  |-> IF hash \div M = 0 THEN BitsPerReg - 1
             ELSE Min({trailing_zeros(hash \div M), BitsPerReg - 1})]

\* from_reg_tz, which panics when a part is out of its range: {} or {bit}.
BitAddress(p) ==
    IF p.reg < M /\ p.tz < BitsPerReg THEN {p.reg * BitsPerReg + p.tz} ELSE {}

of_token(t) == BitAddress(hash_to_position(Murmur(t)))

-----------------------------------------------------------------------------
(* The dense form: registers with a mask each.                               *)

active_positions(s) == {[reg |-> b \div BitsPerReg, tz |-> b % BitsPerReg] : b \in s}

to_dense(s) ==
    [reg \in 0..M - 1 |->
        MapThenSumSet(LAMBDA p : pow2[p.tz], {p \in active_positions(s) : p.reg = reg})]

from_dense(registers) ==
    {reg * BitsPerReg + bit : reg \in DOMAIN registers, bit \in 0..BitsPerReg - 1}
        \cap {b \in 0..TotalBits - 1 :
                 (registers[b \div BitsPerReg] \div pow2[b % BitsPerReg]) % 2 = 1}

bit_counts(s) ==
    [tz \in 0..BitsPerReg - 1 |-> Cardinality({b \in s : b % BitsPerReg = tz})]

non_zero_registers(s) == Cardinality({reg \in 0..M - 1 : to_dense(s)[reg] # 0})

\* The largest count of each register that has one.
dump_positions(s) ==
    {<<reg, Max({bit \in 0..BitsPerReg - 1 : pow2[bit] <= to_dense(s)[reg]})>> :
        reg \in {r \in 0..M - 1 : to_dense(s)[r] > 0}}

union_all(sets) == UNION ToSet(sets)

\* Of no sets at all it is empty.
intersection_all(sets) ==
    IF sets = <<>> THEN {} ELSE FoldLeft(LAMBDA a, b : a \cap b, Head(sets), Tail(sets))

-----------------------------------------------------------------------------
(* Token tables: LutIndex::build, and the atoms of AtomTree::from_lut.       *)

LutBuild(lut) == UNION {{<<b, t>> : b \in of_token(t)} : t \in lut}

LutAtoms(lut) == UNION {of_token(t) : t \in lut}

-----------------------------------------------------------------------------
(* Content keys: the prefix and what is hashed.                              *)

Before(a, b) ==
    a # b /\ \E n \in 0..Min({Len(a), Len(b)}) :
        /\ SubSeq(a, 1, n) = SubSeq(b, 1, n)
        /\ n = Len(a) \/ (n < Len(b) /\ a[n + 1] < b[n + 1])

Ranked(S) == [i \in 1..Cardinality(S) |-> CHOOSE t \in S : Cardinality({u \in S : Before(u, t)}) = i - 1]

\* Sorted, each token once, with a zero byte between two.
content_key(prefix, tokens) ==
    LET sorted == Ranked(ToSet(tokens))
    IN  <<prefix, FlattenSeq([i \in DOMAIN sorted |->
                      IF i = 1 THEN sorted[i] ELSE <<0>> \o sorted[i]])>>

\* A zero byte in a token is written as it is: {<<1, 0, 2>>} and {<<1>>, <<2>>}
\* have one key.
ZeroFree(t) == \A k \in 1..Len(t) : t[k] # 0

\* The parts of a text: what is between two zeros, or a zero and an end.
IsPart(x, i, j) ==
    /\ i \in 1..Len(x) + 1 /\ j \in 0..Len(x) /\ i <= j + 1
    /\ i = 1 \/ x[i - 1] = 0
    /\ j = Len(x) \/ x[j + 1] = 0
    /\ \A k \in i..j : x[k] # 0

PartOf(x, i, j) == [k \in 1..j - i + 1 |-> x[i + k - 1]]

Parts(x) ==
    {PartOf(x, p[1], p[2]) :
        p \in {q \in (1..Len(x) + 1) \X (0..Len(x)) : IsPart(x, q[1], q[2])}}

\* What a key tells of a collection: the parts of its tokens.
Pieces(S) == IF S = {} THEN {<<>>} ELSE UNION {Parts(t) : t \in S}

-----------------------------------------------------------------------------
(* The frequency vector and its wire form: the number of entries, then them. *)

TfMerge(f, g) == [b \in DOMAIN f |-> Max({f[b], g[b]})]

TfBytes(f) == <<TotalBits>> \o [i \in 1..TotalBits |-> f[i - 1]]

\* {} when the bytes are malformed; what follows the entries is not read.
TfFromBytes(bytes) ==
    IF bytes = <<>> \/ bytes[1] # TotalBits \/ Len(bytes) < 1 + TotalBits THEN {}
    ELSE {[b \in 0..TotalBits - 1 |-> bytes[b + 2]]}

-----------------------------------------------------------------------------
NoTf == [b \in 0..TotalBits - 1 |-> 0]

SketchInit == fed = <<>> /\ set = {} /\ tf = NoTf /\ peer = NoTf /\ counts = NoTf

AddToken(t) ==
    /\ Len(fed) < MaxFed
    /\ fed' = Append(fed, t)
    /\ set' = add_hash(set, Murmur(t))
    /\ UNCHANGED <<tf, peer, counts>>

\* increment_from_hllset; it panics on a bit past the last entry.
Count ==
    /\ set \subseteq 0..TotalBits - 1
    /\ \A b \in set : tf[b] < MaxTf
    /\ tf' = [b \in DOMAIN tf |-> tf[b] + (IF b \in set THEN 1 ELSE 0)]
    /\ counts' = [b \in DOMAIN tf |-> counts[b] + (IF b \in set THEN 1 ELSE 0)]
    /\ UNCHANGED <<fed, set, peer>>

\* The peer reads our vector, or we merge what it has.
Sent == TfFromBytes(TfBytes(tf)) # {} /\ peer' = TfMerge(peer, tf) /\ UNCHANGED <<fed, set, tf, counts>>

Received == tf' = TfMerge(tf, peer) /\ UNCHANGED <<fed, set, peer, counts>>

\* The peer counted an element of its own.
PeerCounts(b) == /\ peer[b] < MaxTf
                 /\ peer' = [peer EXCEPT ![b] = @ + 1]
                 /\ UNCHANGED <<fed, set, tf, counts>>

SketchNext ==
    \/ Count \/ Sent \/ Received
    \/ \E t \in ByteTokens : AddToken(t)
    \/ \E b \in {Min(set \cup {0})} : PeerCounts(b)

-----------------------------------------------------------------------------
\* The two paths from a token to its bit agree, in range: the table of the
\* tokens covers the sketch of them, all are given back, and the atoms of the
\* table are the sketch.  The sketch is the same from the collection at once,
\* from the parts and from its dense form, and the counts by register and by
\* position both add up.
\* The key of a collection is that of its set, and tells what the tokens are
\* between their zero bytes: it tells a set from every other if no token holds a
\* zero byte, which content_addr.rs:80-86 does not escape, and the two sets are
\* not the empty one and that of the empty token.  A frequency never falls below
\* what was counted here, and the vector survives its wire form, whole.
SketchFaithful ==
    LET L == ToSet(fed)
        parts == [i \in DOMAIN fed |-> FromTokens(<<fed[i]>>)]
        K(s) == content_key("h", s)
    IN  /\ set = LutAtoms(L) /\ set \subseteq 0..TotalBits - 1
        /\ L \subseteq candidates(LutBuild(L), set)
        /\ \A N \in SUBSET ByteTokens :
              candidates(LutBuild(L \cup N), set)
                  = candidates(LutBuild(L), set) \cup candidates(LutBuild(N), set)
        /\ set = FromTokens(fed) /\ set = union_all(parts)
        /\ \A i \in DOMAIN parts : intersection_all(parts) \subseteq parts[i]
        /\ from_dense(to_dense(set)) = set
        /\ MapThenSumSet(LAMBDA z : bit_counts(set)[z], 0..BitsPerReg - 1) = Cardinality(set)
        /\ Cardinality(dump_positions(set)) = non_zero_registers(set)
        /\ \A d \in dump_positions(set) : d[1] * BitsPerReg + d[2] \in set
        /\ \A s \in UNION {[1..n -> ByteTokens] : n \in 0..2} :
              LET S == ToSet(s) IN
              /\ S = L => K(s) = K(fed)
              /\ K(s) = K(fed) => Pieces(S) = Pieces(L)
              /\ K(s) = K(fed) /\ S \cup L # {<<>>} /\ (\A t \in S \cup L : ZeroFree(t))
                    => S = L
        /\ \A b \in DOMAIN tf : tf[b] >= counts[b]
        /\ TfFromBytes(TfBytes(tf)) = {tf} /\ TfFromBytes(Append(TfBytes(tf), 1)) = {tf}
        /\ TfFromBytes(Front(TfBytes(tf))) = {}
=============================================================================
