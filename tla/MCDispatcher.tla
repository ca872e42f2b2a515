---------------------------- MODULE MCDispatcher ----------------------------
(* Instances of Dispatcher for TLC: a plane of three bits, two seeds, and    *)
(* graphs over a join, a duplication, a meet with a literal and others.      *)
EXTENDS Dispatcher, FiniteSetsExt

MCRegs == {0, 1}
MCTzs == {0, 1}

a == {<<0, 0>>}
b == {<<1, 0>>, <<1, 1>>}
c == {<<0, 1>>}

Prog(n, m, ws) == [arity |-> n, outputs |-> m, words |-> ws]

Union2 == Prog(2, 1, << <<"union">> >>)
Dup2   == Prog(1, 2, << <<"dup">> >>)
MeetB  == Prog(1, 1, << <<"value", b>>, <<"inter">> >>)

Graph(prog, edges, fires) ==
    [prog |-> prog, edges |-> edges, literals |-> {a, b, c}, fires |-> fires]

Froms(prog) == {<<"value", a>>, <<"value", b>>}
    \cup UNION {{<<"out", o, i>> : i \in 0..prog[o].outputs - 1} : o \in DOMAIN prog}
Tos(prog) == UNION {{<<o, i>> : i \in 0..prog[o].arity - 1} : o \in DOMAIN prog}

\* All graphs over a program table with at most three edges, with budgets.
Over(prog) ==
    LET Edges(k) == kSubset(k, Froms(prog) \X Tos(prog))
    IN  {Graph(prog, E, {1, 3}) : E \in Edges(1) \cup Edges(2)}
        \cup {Graph(prog, E, {2}) : E \in Edges(3)}

\* Run to quiescence where that is safe, else under a budget only.
Drains(g) == SingleSource(g) /\ Fresh(g, {a, b})

Budgeted(G) == {IF Drains(g) THEN [g EXCEPT !.fires = {1, Unlimited}] ELSE g : g \in G}

Generated == Budgeted(Over(<<Union2, Dup2>>))

\* Hand-made: a diamond with calls and quantifiers, calls too deep, a program that
\* underflows, a value that is not stored, edges to a port or a program that does
\* not exist.
V(v, o, i)    == <<<<"value", v>>, <<o, i>>>>
E(o, k, q, i) == <<<<"out", o, k>>, <<q, i>>>>

Diamond == Graph(
    <<Prog(2, 1, << <<"symdiff">>, <<"value", c>>, <<"swap">>, <<"diff">> >>),
      Prog(1, 1, << <<"value", b>>, <<"call", 1>> >>),
      Prog(1, 1, << <<"dup">>, <<"value", b>>, <<"exists", "reg">>, <<"forall", "tz">> >>),
      Prog(1, 2, << <<"value", c>>, <<"union">>, <<"call", 5>> >>),
      Dup2>>,
    {V(a, 4, 0), E(4, 0, 2, 0), E(4, 1, 3, 0), E(2, 0, 1, 0), E(3, 0, 1, 1)}, {2, Unlimited})

TooDeep == Graph(
    <<Prog(1, 1, << <<"call", 2>> >>), Prog(1, 1, << <<"call", 3>> >>),
      Prog(1, 1, << <<"call", 4>> >>), Prog(1, 1, << <<"drop">>, <<"value", c>> >>)>>,
    {V(a, 1, 0), V(b, 2, 0)}, {1, 3})

Underflow == Graph(<<Prog(1, 1, << <<"union">> >>), Union2>>,
    {V(b, 1, 0), V(a, 2, 0), V(b, 2, 1)}, {3})

\* The value a is only a CID of an earlier boot: it is not stored.
NotStored == [Graph(<<MeetB>>, {V(a, 1, 0)}, {3}) EXCEPT !.literals = {b}]

NoPort == Graph(<<MeetB>>, {V(a, 1, 0), V(a, 1, 4), V(b, 1, 4)}, {3})

NoOp == Graph(<<MeetB, Dup2>>, {V(a, 1, 0), V(b, 3, 0), E(1, 0, 2, 0), E(1, 0, 3, 0)}, {3})

MCGraphs == Generated \cup {Diamond, TooDeep, Underflow, NotStored, NoPort, NoOp}

MCSeeds == {a, b}

=============================================================================
