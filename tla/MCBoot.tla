------------------------------- MODULE MCBoot -------------------------------
(* Instances of Boot for TLC: scripts over a plane of three bits.            *)
EXTENDS Boot

MCRegs == {0, 1}
MCTzs == {0, 1}

a == {<<0, 0>>}
b == {<<1, 0>>, <<1, 1>>}
c == {<<0, 1>>}

ValueOf(n) == <<"value", <<"@", n>>>>
OutOf(n)   == <<"out", <<"name", n>>, 0>>
In(n, i)   == <<<<"name", n>>, i>>

\* Joins a and b.
Joins == << <<"value", "a", a>>, <<"value", "b", b>>,
            <<"def", "u", 2, 1, << <<"union">> >> >>,
            <<"link", ValueOf("a"), In("u", 0)>>, <<"link", ValueOf("b"), In("u", 1)>>,
            <<"stack", << <<"@", "a">>, <<"@", "b">> >> >> >>

\* A universe, a call, names defined again, and a budget that stops in the middle.
Redefines == << <<"value", "x", a>>, <<"value", "y", c>>,
                <<"universe", "U", << <<"@", "x">>, <<"@", "y">> >> >>,
                <<"def", "q", 1, 1, << <<"@universe">>, <<"exists", "reg">>,
                                       <<"@", "x">>, <<"symdiff">> >> >>,
                <<"def", "r", 1, 1, << <<"call", "q">> >> >>,
                <<"def", "q", 1, 1, << <<"call", "r">>, <<"@universe", "y">>, <<"union">> >> >>,
                <<"value", "x", c>>,
                <<"link", ValueOf("x"), In("r", 0)>>, <<"link", OutOf("r"), In("q", 0)>>,
                <<"stack", << <<"@", "x">> >> >>, <<"fires", 1>> >>

\* Routes to a program by a CID that the table does not hold.
Dangling == << <<"value", "a", a>>, <<"link", ValueOf("a"), <<<<"p", 99>>, 0>>>>,
               <<"stack", << <<"@", "a">> >> >> >>

\* Calls a program before it is defined.
Forward == << <<"def", "f", 1, 1, << <<"call", "g">> >> >>,
              <<"def", "g", 1, 1, << <<"dup">>, <<"drop">> >> >> >>

MCScripts == {Joins, Redefines, Dangling, Forward}

\* Programs are numbered by their length, then their callee.
MCOpId(spec) ==
    LET ws == spec.words IN
    CASE ws[1][1] = "call"  -> 10 + Len(ws)
      [] ws[1][1] = "union" -> 1
      [] OTHER              -> 2

MCGraphs == {GraphOf(EmptyProgram)} \cup
            {GraphOf(Compiled(s)) : s \in {x \in MCScripts : Compiles(x)}}

MCDefault == Joins
MCFires == {0, 2}
MCCut == {"blob", "latest", "state", "log"}
=============================================================================
