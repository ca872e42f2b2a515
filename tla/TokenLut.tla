------------------------------ MODULE TokenLut ------------------------------
(* The token tables (crates/hllset-lut/src/lib.rs) and the materialization   *)
(* over them (crates/hllset-morphisms/src/materialize.rs).  A LutIndex is    *)
(* the set of its rows <<bit, token>>, an HLLSet the set of its bits.        *)
EXTENDS Integers, Sequences, FiniteSets

insert_token_at(lut, t, b) == lut \cup {<<b, t>>}

\* The candidates a bit points at: a collided bit has several.
fiber(lut, i) == {r[2] : r \in {q \in lut : q[1] = i}}

\* LutIndex::materialize: what a sketch may have been made of.
candidates(lut, H) == UNION {fiber(lut, i) : i \in H}

\* materialize over pairs <<sketch, lut>>, one for each encoding.
materialize(pairs) == UNION {candidates(p[2], p[1]) : p \in pairs}

\* How often t occurs in a sequence: the count of a TfTable.
Occurrences(s, t) == Cardinality({i \in DOMAIN s : s[i] = t})
=============================================================================
