--------------------------- MODULE MCOrderedWalk ----------------------------
(* Instances of OrderedWalk for TLC: short sequences, small grids and small  *)
(* tensors, with an exact hash and with colliding ones.                      *)
EXTENDS OrderedWalk, SequencesExt

MCTokens == 0..4
MCPad == 0

\* "exact" never collides, "set" does for windows of the same tokens, "one" always.
MCPos(h, s, w) ==
    CASE h = "exact" -> <<s, w>>
      [] h = "set"   -> <<s, SetToSortSeq({w[o] : o \in DOMAIN w}, <)>>
      [] h = "one"   -> <<s, <<>>>>

Strings(S, n) == UNION {[1..k -> S] : k \in 0..n}

Job(i, gx, cb, w) == [ing |-> i, gx |-> gx, codebook |-> cb, width |-> w]
Open(i, w) == Job(i, UNION {i.ch[n] : n \in 1..4}, MCTokens, w)

\* One token among many equal ones: these share all their windows.
Repetitive(i, j) == [k \in 1..i+j+1 |-> IF k = i + 1 THEN 2 ELSE 1]

Seqs ==
    {ingest("exact", s) : s \in Strings({1, 2}, 6) \cup Strings({1, 2, 3}, 3) \cup {<<1, 0, 2>>, <<3, 1, 2, 4>>}}
    \cup {ingest(h, s) : h \in {"set", "one"}, s \in Strings({1, 2}, 4) \cup {<<2, 0>>, <<3, 1, 2, 1>>, <<1, 3, 2, 2, 4, 2>>}}
    \cup {ingest("exact", s) : s \in {Repetitive(i, j) : i, j \in 3..5}}

Shapes == {<<1, 3>>, <<2, 1>>, <<2, 2>>}
Size(sh) == IF Len(sh) = 2 THEN sh[1] * sh[2] ELSE IF Len(sh) = 1 THEN sh[1] ELSE 1

Grids == UNION {{ingest_grid("exact", sh, c) : c \in [1..Size(sh) -> {1, 2}]} : sh \in Shapes}
    \cup {ingest_grid(h, <<2, 2>>, c) : h \in {"exact", "set"}, c \in {<<3, 1, 4, 2>>, <<1, 2, 1, 3>>}}

Tensors == {ingest_tensor("exact", sh, <<2, 1>>) : sh \in {<<2>>, <<1, 2>>, <<1, 2, 1>>}}
    \cup {ingest_tensor("exact", <<>>, <<1>>), ingest_tensor("exact", <<0>>, <<>>)}
    \cup {ingest_tensor(h, <<3>>, c) : h \in {"exact", "set"}, c \in {<<2, 1, 3>>, <<1, 1, 2>>}}

\* A gate that lets the tokens of another sequence pass, and a code book.
Gated == {Job(ingest(h, <<1, 2, 3>>), projection(ingest(h, <<2, 3>>)), cb, 1) :
            h \in {"exact", "one"}, cb \in {{2, 3}, MCTokens}}

Singles(I) == {i \in I : i.kind = "seq" /\ Total(i) = 1}

\* One token and a beam.
OneToken == {Open(ingest("exact", <<1>>), 2)}

MCJobs == {Open(i, 1) : i \in Seqs \cup Grids \cup Tensors}
    \cup {Open(i, w) : i \in (Seqs \ Singles(Seqs)) \cup Grids \cup Tensors, w \in {2, 3}}
    \cup Gated \cup OneToken

=============================================================================
