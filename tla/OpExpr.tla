------------------------------- MODULE OpExpr -------------------------------
(* Programs of the operational graph and what they compute                 *)
(* (crates/ewm-ops/src/expr.rs, graph.rs).                                  *)
(*                                                                          *)
(* A value is an HLLSet: a set of bits of the plane registers x trailing    *)
(* zeros.  It is stored under the hash of its content, so the value stands  *)
(* for its own CID.  A program is numbered in the order its CID sorts.      *)
EXTENDS Integers, FiniteSets, SequencesExt

CONSTANTS Regs,          \* the registers of an HLLSet
          Tzs,           \* the trailing-zero counts
          MaxCallDepth   \* MAX_CALL_DEPTH

ASSUME CallDepthNat == MaxCallDepth \in Nat

Plane == Regs \X Tzs
Value == SUBSET Plane

-----------------------------------------------------------------------------
(* The counted quantifiers, over the fibres of one coordinate of the plane. *)

Coord(c, p) == IF c = "reg" THEN p[1] ELSE p[2]

exists_c(x, c, u) == {p \in u : \E q \in x \cap u : Coord(c, q) = Coord(c, p)}

forall_c(x, c, u) == {p \in u : \A q \in u : Coord(c, q) = Coord(c, p) => q \in x}

-----------------------------------------------------------------------------
(* The words.  A word is a tuple: its name, then its argument if it has one.*)

Needs(w) ==
    CASE w[1] = "value"                 -> 0
      [] w[1] \in {"dup", "drop"}       -> 1
      [] OTHER                          -> 2

\* What a word of two operands computes: `a` was pushed before `b`.
Binary(w, a, b) ==
    CASE w[1] = "union"   -> a \cup b
      [] w[1] = "inter"   -> a \cap b
      [] w[1] = "diff"    -> a \ b
      [] w[1] = "symdiff" -> (a \ b) \cup (b \ a)
      [] w[1] = "exists"  -> exists_c(a, w[2], b)
      [] w[1] = "forall"  -> forall_c(a, w[2], b)

\* The stacks word w can leave: none when it is an error (underflow, a
\* literal that is not stored, a call that did not resolve).
After(w, s, stored) ==
    IF \/ w[1] = "stuck"
       \/ Len(s) < Needs(w)
       \/ w[1] = "value" /\ w[2] \notin stored
    THEN {}
    ELSE CASE w[1] = "value" -> {Append(s, w[2])}
           [] w[1] = "dup"   -> {Append(s, Last(s))}
           [] w[1] = "drop"  -> {Front(s)}
           [] w[1] = "swap"  -> {Front(Front(s)) \o <<Last(s), Last(Front(s))>>}
           [] OTHER          ->
                {Append(Front(Front(s)), Binary(w, Last(Front(s)), Last(s)))}

\* The words of each program with its calls replaced by the callee's words, as
\* exec_words meets them; a call that is too deep or names no program is stuck.
Inlined(prog) ==
    LET In[d \in 0..MaxCallDepth] ==
            [o \in DOMAIN prog |->
                FlattenSeq([k \in DOMAIN prog[o].words |->
                    LET w == prog[o].words[k]
                    IN  CASE w[1] # "call" -> <<w>>
                          [] w[1] = "call" /\ (d = 0 \/ w[2] \notin DOMAIN prog)
                                -> << <<"stuck">> >>
                          [] OTHER -> In[d - 1][w[2]]])]
    IN  In[MaxCallDepth]

\* The stacks of the right height that the words of program o leave.
Evaluated(prog, o, inputs, stored) ==
    LET words == Inlined(prog)[o]
        Run[k \in 0..Len(words)] ==
            IF k = 0 THEN {inputs}
            ELSE UNION {After(words[k], s, stored) : s \in Run[k - 1]}
    IN  Run[Len(words)] \cap [1..prog[o].outputs -> Value]

\* The outputs of program o on its inputs, as a set: empty when it fails.
Outcome(prog, o, inputs, stored) ==
    IF ToSet(inputs) \subseteq stored THEN Evaluated(prog, o, inputs, stored) ELSE {}

-----------------------------------------------------------------------------
(* The graph: programs and edges.  An edge runs from a value, <<"value", v>>,*)
(* or an output, <<"out", op, index>>, to an input port <<op, index>>.       *)

consumers_of(g, from) == {e[2] : e \in {edge \in g.edges : edge[1] = from}}

InPorts(g, o) == {<<o, i>> : i \in 0..g.prog[o].arity - 1}
=============================================================================
