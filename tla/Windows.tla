------------------------------ MODULE Windows -------------------------------
(* Ingestion by sliding windows and the checks an ordered restoration makes: *)
(* sequences (hllset-morphisms/src/api.rs), grids (grid.rs) and tensors of   *)
(* any dimension (tensor.rs).  The three share the form of their result:     *)
(*   [kind, hash, shape, cells, ch, luts, tf]                                *)
(* ch[n] is the sketch of the windows of order n, luts[n] the table of the   *)
(* tokens they point at; cells, the ingested tokens, is a history.           *)
EXTENDS TokenLut, FiniteSetsExt

CONSTANTS Tokens,      \* the tokens, naturals ordered as their bytes are
          Pad,         \* the boundary token; an ingested token may equal it
          Pos(_, _, _) \* the bit of a window, for a hash and a seed

MaxN   == 4
Border == MaxN - 1

\* The seed of the windows of order n in dim dimensions: order 1 shares G1.
seed(n, dim) == IF n <= 1 THEN 0 ELSE (IF dim = 0 THEN 0 ELSE dim - 1) * 3 + (n - 1)

contains(ing, n, w) == Pos(ing.hash, seed(n, Len(ing.shape)), w) \in ing.ch[n]

Tf(cells) == [t \in Tokens |-> Occurrences(cells, t)]

-----------------------------------------------------------------------------
(* Sequences: one pad in front, two behind.                                  *)

padded(s) == <<Pad>> \o s \o <<Pad, Pad>>

windows(p, n) == {<<i, SubSeq(p, i, i + n - 1)>> : i \in 1..(Len(p) - n + 1)}

\* A window that starts at a real token points at that token.
ingest(h, s) ==
    LET Of(n) == IF s = <<>> THEN {} ELSE windows(padded(s), n)
        Bit(n, w) == Pos(h, seed(n, 1), w[2])
    IN  [kind |-> "seq", hash |-> h, shape |-> <<Len(s)>>, cells |-> s,
         ch   |-> [n \in 1..4 |-> {Bit(n, w) : w \in Of(n)}],
         luts |-> [n \in 1..3 |-> {<<Bit(n, w), w[2][1]>> :
                                    w \in {v \in Of(n) : v[1] - 1 \in 1..Len(s)}}],
         tf   |-> Tf(s)]

\* The k-th token before the end of the path, the pad before its start.
Back(path, k) == IF k < Len(path) THEN path[Len(path) - k] ELSE Pad

\* Mutation of SeqSuccessorOk: the window of order 4 is checked one token late.
SeqSuccessorLate(ing, path, x) ==
    /\ contains(ing, 2, <<Back(path, 0), x>>)
    /\ path # <<>> => contains(ing, 3, <<Back(path, 1), Back(path, 0), x>>)
    /\ Len(path) >= 2 => contains(ing, 4, <<Back(path, 3), Back(path, 2), Back(path, 1), x>>)

\* The windows that would end in x: the anchor alone at the start.
SeqSuccessorOk(ing, path, x) ==
    /\ contains(ing, 2, <<Back(path, 0), x>>)
    /\ path # <<>> => contains(ing, 3, <<Back(path, 1), Back(path, 0), x>>)
    /\ Len(path) >= 2 => contains(ing, 4, <<Back(path, 2), Back(path, 1), Back(path, 0), x>>)

\* Mutation of SeqEndOk: only the last token is checked against the pad.
SeqEndShort(ing, path) == contains(ing, 2, <<Back(path, 0), Pad>>)

\* A complete path must be followed by the pad.
SeqEndOk(ing, path) == SeqSuccessorOk(ing, path, Pad)

-----------------------------------------------------------------------------
(* Grids, row by row, with a full border of pads: shape is <<height, width>>. *)

GridCell(shape, cells, i, j) ==
    IF i - Border \in 0..shape[1] - 1 /\ j - Border \in 0..shape[2] - 1
    THEN cells[(i - Border) * shape[2] + (j - Border) + 1]
    ELSE Pad

grid_window(shape, cells, n, i, j) ==
    [k \in 1..n*n |-> GridCell(shape, cells, i + ((k - 1) \div n), j + ((k - 1) % n))]

ingest_grid(h, shape, cells) ==
    LET Anchors(n) == IF cells = <<>> THEN {}
                      ELSE (0..shape[1] + 2 * Border - n) \X (0..shape[2] + 2 * Border - n)
        Real(n) == {a \in Anchors(n) : /\ a[1] - Border \in 0..shape[1] - 1
                                       /\ a[2] - Border \in 0..shape[2] - 1}
        Bit(n, a) == Pos(h, seed(n, 2), grid_window(shape, cells, n, a[1], a[2]))
    IN  [kind |-> "grid", hash |-> h, shape |-> shape, cells |-> cells,
         ch   |-> [n \in 1..4 |-> {Bit(n, a) : a \in Anchors(n)}],
         luts |-> [n \in 1..3 |-> {<<Bit(n, a), GridCell(shape, cells, a[1], a[2])>> :
                                    a \in Real(n)}],
         tf   |-> Tf(cells)]

\* Mutation of grid_successor_ok: only the smallest window is checked.
grid_successor_narrow(ing, path, x) ==
    LET r == Len(path) \div ing.shape[2]
        c == Len(path) % ing.shape[2]
    IN  \A n \in {2} :
            contains(ing, n, grid_window(ing.shape, Append(path, x), n, r + MaxN - n, c + MaxN - n))

\* The windows whose last cell is the next one, were it x.
grid_successor_ok(ing, path, x) ==
    LET r == Len(path) \div ing.shape[2]
        c == Len(path) % ing.shape[2]
    IN  \A n \in 2..MaxN :
            contains(ing, n, grid_window(ing.shape, Append(path, x), n, r + MaxN - n, c + MaxN - n))

grid_termination_ok(ing, path) ==
    \A n \in 2..MaxN :
        contains(ing, n, grid_window(ing.shape, path, n,
                                     ing.shape[1] + MaxN - 1 - n, ing.shape[2] + MaxN - n))

-----------------------------------------------------------------------------
(* Tensors: the same in any dimension, the last axis fastest.                *)

\* strides(shape)[0] is the number of cells.
strides(shape) ==
    LET s[i \in 0..Len(shape)] == IF i = Len(shape) THEN 1 ELSE s[i + 1] * shape[i + 1]
    IN  s

to_multi(idx, shape) ==
    LET rest[a \in 0..Len(shape)] == IF a = 0 THEN idx ELSE rest[a - 1] % strides(shape)[a]
    IN  [a \in 1..Len(shape) |-> rest[a - 1] \div strides(shape)[a]]

RealCell(shape, p) == \A a \in 1..Len(shape) : p[a] - Border \in 0..shape[a] - 1

\* The index of a real cell from its padded position.
CellIndex(shape, p) ==
    LET sum[a \in 0..Len(shape)] ==
            IF a = 0 THEN 0 ELSE sum[a - 1] + (p[a] - Border) * strides(shape)[a]
    IN  sum[Len(shape)]

TensorCell(shape, cells, p) == IF RealCell(shape, p) THEN cells[CellIndex(shape, p) + 1] ELSE Pad

\* The digits of w in base n, one for each axis.
Offset(n, dim, w) ==
    LET t[a \in 0..dim] == IF a = dim THEN w ELSE t[a + 1] \div n
    IN  [a \in 1..dim |-> t[a] % n]

cells_in_window(n, dim) ==
    LET p[a \in 0..dim] == IF a = 0 THEN 1 ELSE p[a - 1] * n
    IN  p[dim]

tensor_window(shape, cells, n, anchor) ==
    [k \in 1..cells_in_window(n, Len(shape)) |->
        TensorCell(shape, cells,
                   [a \in 1..Len(shape) |-> anchor[a] + Offset(n, Len(shape), k - 1)[a]])]

\* The positions the anchor odometer visits.
TensorAnchors(shape, n) ==
    {p \in [1..Len(shape) -> 0..Max({shape[a] : a \in 1..Len(shape)} \cup {0}) + 2 * Border] :
        \A a \in 1..Len(shape) : p[a] <= shape[a] + 2 * Border - n}

ingest_tensor(h, shape, cells) ==
    LET Anchors(n) == IF cells = <<>> THEN {} ELSE TensorAnchors(shape, n)
        Bit(n, p) == Pos(h, seed(n, Len(shape)), tensor_window(shape, cells, n, p))
    IN  [kind |-> "tensor", hash |-> h, shape |-> shape, cells |-> cells,
         ch   |-> [n \in 1..4 |-> {Bit(n, p) : p \in Anchors(n)}],
         luts |-> [n \in 1..3 |-> {<<Bit(n, p), TensorCell(shape, cells, p)>> :
                                    p \in {q \in Anchors(n) : RealCell(shape, q)}}],
         tf   |-> Tf(cells)]

tensor_successor_ok(ing, path, x) ==
    LET at == to_multi(Len(path), ing.shape)
    IN  \A n \in 2..MaxN :
            contains(ing, n, tensor_window(ing.shape, Append(path, x), n,
                                 [a \in 1..Len(ing.shape) |-> at[a] + MaxN - n]))

\* The window whose last cell is the first pad after the last real cell.
tensor_termination_ok(ing, path) ==
    LET dim == Len(ing.shape)
    IN  \A n \in 2..MaxN :
            contains(ing, n, tensor_window(ing.shape, path, n,
                [a \in 1..dim |-> ing.shape[a] + (IF a = dim THEN 3 ELSE 2) - (n - 1)]))

-----------------------------------------------------------------------------
(* The three together: what the restoration asks of an ingested collection.  *)

Total(ing) == Len(ing.cells)

SuccessorOk(ing, path, x) ==
    CASE ing.kind = "seq"    -> SeqSuccessorOk(ing, path, x)
      [] ing.kind = "grid"   -> grid_successor_ok(ing, path, x)
      [] ing.kind = "tensor" -> tensor_successor_ok(ing, path, x)

EndOk(ing, path) ==
    CASE ing.kind = "seq"    -> SeqEndOk(ing, path)
      [] ing.kind = "grid"   -> grid_termination_ok(ing, path)
      [] ing.kind = "tensor" -> tensor_termination_ok(ing, path)

gate(gx, H) == gx \cap H

\* The sketch of the token presentation: the windows of order 4 only serve the order.
projection(ing) == ing.ch[1] \cup ing.ch[2] \cup ing.ch[3]

\* The unordered restoration, behind a gate and a code book.
unordered_tokens_gated(ing, gx, codebook) ==
    materialize({<<gate(ing.ch[n], gx), ing.luts[n]>> : n \in 1..3}) \cap codebook
=============================================================================
