----------------------------- MODULE ContextTree -----------------------------
(* The Merkle tree over the working set of HLLSets (crates/context-tree) and *)
(* the atom tree over the bits of one (crates/hllset-lut, AtomTree).  Two    *)
(* trees grow by the persistent operations, each from itself and the other.  *)
(* A digest is the tuple it was made of: SHA-1 is taken to be injective.  A  *)
(* leaf is [h, views], with h a natural ordered as the key strings are.      *)
EXTENDS Integers, Sequences, FiniteSets, SequencesExt, FiniteSetsExt

CONSTANTS Hs,      \* content keys
          Views    \* view lists as callers give them: sequences of naturals

ASSUME ContextTreeAssumption == Hs \subseteq Nat /\ Views \subseteq Seq(Nat)

VARIABLES tree, other

tree_vars == <<tree, other>>

Leaf == [h : Hs, views : Views]

\* The LUT name and the key of a view are concatenated without a separator
\* (lib.rs:43-46); taken as injective, as it is when either has one length.
leaf_hash(leaf) == <<0, leaf.h, leaf.views>>
internal_hash(left, right) == <<1, left, right>>

\* The next level: neighbours are joined, an odd last one with itself.
paired(level) ==
    [i \in 1..(Len(level) + 1) \div 2 |->
        internal_hash(level[2 * i - 1], level[IF 2 * i > Len(level) THEN 2 * i - 1 ELSE 2 * i])]

\* The levels over a sequence of digests, up to the first of length one.
merkle_root(digests) ==
    LET level[k \in 0..Len(digests)] == IF k = 0 THEN digests ELSE paired(level[k - 1])
    IN  level[Min({k \in 0..Len(digests) : Len(level[k]) = 1})][1]

rooted(digests) == IF digests = <<>> THEN <<"empty">> ELSE merkle_root(digests)

\* A set of naturals in ascending order, and a sequence of them sorted.
Ascending(S) == [i \in 1..Cardinality(S) |-> CHOOSE x \in S : Cardinality({y \in S : y <= x}) = i]

Sorted(s) ==
    [i \in DOMAIN s |-> Min({x \in ToSet(s) : Cardinality({j \in DOMAIN s : s[j] <= x}) >= i})]

Tree(leaves) == [leaves |-> leaves, root |-> rooted([i \in DOMAIN leaves |-> leaf_hash(leaves[i])])]

\* Mutation of build: only neighbours equal in h and views are merged.
build_dedup_leaves(leaves) ==
    LET seen   == [i \in DOMAIN leaves |-> [leaves[i] EXCEPT !.views = Sorted(@)]]
        kept   == {i \in DOMAIN seen : ~\E j \in 1..i - 1 : seen[j] = seen[i]}
        sorted == SetToSortSeq(kept, LAMBDA i, j : seen[i].h < seen[j].h \/ (seen[i].h = seen[j].h /\ i < j))
    IN  Tree([k \in DOMAIN sorted |-> seen[sorted[k]]])

\* build: views sorted, leaves sorted by h, the first of each h kept.
build(leaves) ==
    LET keys     == Ascending({leaves[i].h : i \in DOMAIN leaves})
        first(h) == leaves[Min({i \in DOMAIN leaves : leaves[i].h = h})]
    IN  Tree([k \in DOMAIN keys |-> [h |-> keys[k], views |-> Sorted(first(keys[k]).views)]])

KeysIn(t) == {t.leaves[i].h : i \in DOMAIN t.leaves}

\* The leaves of t whose keys are in S, in their order.
only(t, S) ==
    LET at == Ascending({i \in DOMAIN t.leaves : t.leaves[i].h \in S})
    IN  [k \in DOMAIN at |-> t.leaves[at[k]]]

insert(t, leaf) == build(Append(only(t, KeysIn(t) \ {leaf.h}), leaf))
remove(t, h)    == build(only(t, KeysIn(t) \ {h}))
merge(t, u)     == build(t.leaves \o u.leaves)

intersection(t, u) == build(only(t, KeysIn(u)))
difference(t, u)   == build(only(t, KeysIn(t) \ KeysIn(u)))

\* diff: D, R and N of the leaves from t to u.
diff(t, u) == [added    |-> KeysIn(u) \ KeysIn(t),
               removed  |-> KeysIn(t) \ KeysIn(u),
               retained |-> KeysIn(t) \cap KeysIn(u)]

\* AtomTree::from_hllset, whose leaves are the bits in their order.
AtomRoot(atoms) ==
    LET bits == Ascending(atoms) IN rooted([i \in DOMAIN bits |-> <<0, bits[i]>>])

-----------------------------------------------------------------------------
TreeInit == tree = build(<<>>) /\ other = build(<<>>)

InsertLeaf(leaf) == tree' = insert(tree, leaf) /\ UNCHANGED other

\* Trees are values: a copy is kept, and the two are joined, met, subtracted.
Swap  == tree' = other /\ other' = tree
RemoveLeaf(h) == tree' = remove(tree, h) /\ UNCHANGED other
Merge == tree' = merge(tree, other) /\ UNCHANGED other
Meet  == tree' = intersection(tree, other) /\ UNCHANGED other
Minus == tree' = difference(tree, other) /\ UNCHANGED other

TreeNext ==
    \/ Swap \/ Merge \/ Meet \/ Minus
    \/ \E leaf \in Leaf : InsertLeaf(leaf)
    \/ \E h \in Hs : RemoveLeaf(h)

-----------------------------------------------------------------------------
\* The views a tree gives an h.
ViewsOf(t, h) == {t.leaves[i].views : i \in {j \in DOMAIN t.leaves : t.leaves[j].h = h}}

\* t with the leaves that D names removed and those u has for N inserted.
Replayed(t, u, d) ==
    FoldSet(LAMBDA h, s : insert(s, [h |-> h, views |-> CHOOSE v \in ViewsOf(u, h) : TRUE]),
            FoldSet(LAMBDA h, s : remove(s, h), t, d.removed), d.added)

\* The root is the identity of the collection: equal roots, equal leaves, with
\* one list of views for each key, in whatever order they were reached.  merge
\* and intersection absorb each other and difference is what meet leaves out;
\* merge commutes exactly when the shared leaves have the same views.  diff
\* replays, unless a retained leaf changed its views, which diff does not tell.
TreeIdentity ==
    LET A == KeysIn(tree)  B == KeysIn(other)
        d == diff(tree, other)
        agree == \A h \in A \cap B : ViewsOf(tree, h) = ViewsOf(other, h)
    IN  /\ tree.root = other.root <=> A = B /\ agree
        /\ AtomRoot(A) = AtomRoot(B) <=> A = B
        /\ Len(tree.leaves) = Cardinality(A)
        /\ merge(tree, tree) = tree
        /\ intersection(tree, merge(tree, other)) = tree
        /\ merge(tree, intersection(other, tree)) = tree
        /\ merge(difference(tree, other), intersection(tree, other)) = tree
        /\ merge(tree, other).root = merge(other, tree).root <=> agree
        /\ Replayed(tree, other, d).root = other.root <=> agree
        /\ \A h \in Hs \ A, v \in Views : remove(insert(tree, [h |-> h, views |-> v]), h) = tree
=============================================================================
