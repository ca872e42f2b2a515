----------------------------- MODULE BootScript -----------------------------
(* Compiling a boot script into an operational graph                        *)
(* (crates/ewm-ops/src/dsl.rs).  A script is a sequence of lines, a line a    *)
(* tuple: its directive, then its arguments, already split into tokens.       *)
(* A value line carries the set its tokens hash to.                          *)
EXTENDS OpExpr

CONSTANT OpId(_)   \* the number of a program: the order of the CID of its source

EmptyProgram ==
    [prog |-> <<>>, literals |-> {}, edges |-> {},
     ops |-> <<>>, values |-> <<>>, universes |-> <<>>, stack |-> <<>>, fires |-> 0]

\* HashMap::insert.
Inserted(f, n, v) == [x \in DOMAIN f \cup {n} |-> IF x = n THEN v ELSE f[x]]

\* One choice from each set of a sequence of sets: none if one of them is empty.
OneOfEach(f) == {s \in [DOMAIN f -> UNION ToSet(f)] : \A i \in DOMAIN f : s[i] \in f[i]}

\* Each resolver returns the set of what a name stands for: empty on an error.
Lookup(names, n) == IF n \in DOMAIN names THEN {names[n]} ELSE {}

resolve_ref(p, r) == IF r[1] = "@" THEN Lookup(p.values, r[2]) ELSE {r[2]}

resolve_op(p, r) == IF r[1] = "name" THEN Lookup(p.ops, r[2]) ELSE {r[2]}

\* The sole universe, or none when there is none or more than one.
Sole(p) == IF Cardinality(DOMAIN p.universes) = 1 THEN Range(p.universes) ELSE {}

Universe(p, n) ==
    IF n \in DOMAIN p.universes THEN {p.universes[n]} ELSE Lookup(p.values, n)

resolve_word(p, w) ==
    CASE w[1] = "@universe" -> {<<"value", u>> : u \in IF Len(w) = 1 THEN Sole(p)
                                                       ELSE Universe(p, w[2])}
      [] w[1] = "@"    -> {<<"value", v>> : v \in Lookup(p.values, w[2])}
      [] w[1] = "call" -> {<<"call", o>> : o \in Lookup(p.ops, w[2])}
      [] w[1] = "bad"  -> {}
      [] OTHER         -> {w}

-----------------------------------------------------------------------------
(* The directives: the programs one line can lead to, none on an error.      *)

\* Mutation of AddValue: a name holds one value, and defining it again drops it.
ReplaceValue(p, n, v) ==
    [p EXCEPT !.literals = (@ \ Lookup(p.values, n)) \cup {v}, !.values = Inserted(@, n, v)]

AddValue(p, n, v) ==
    [p EXCEPT !.literals = @ \cup {v}, !.values = Inserted(@, n, v)]

AddUniverse(p, n, refs) ==
    {LET q == AddValue(p, n, UNION ToSet(us)) IN
     [q EXCEPT !.universes = Inserted(@, n, UNION ToSet(us))] :
        us \in {s \in OneOfEach([i \in DOMAIN refs |-> resolve_ref(p, refs[i])]) :
                    ToSet(s) \subseteq p.literals}}

AddOp(p, n, arity, outputs, words) ==
    {LET spec == [arity |-> arity, outputs |-> outputs, words |-> ws] IN
     [p EXCEPT !.prog = Inserted(@, OpId(spec), spec),
                 !.ops = Inserted(@, n, OpId(spec))] :
        ws \in OneOfEach([i \in DOMAIN words |-> resolve_word(p, words[i])])}

Connect(p, from, to) ==
    LET Source == IF from[1] = "value"
                  THEN {<<"value", v>> : v \in resolve_ref(p, from[2])}
                  ELSE {<<"out", o, from[3]>> : o \in resolve_op(p, from[2])}
    IN  {[p EXCEPT !.edges = @ \cup {<<s, <<o, to[2]>>>>}] :
            s \in Source, o \in resolve_op(p, to[1])}

Line(p, l) ==
    CASE l[1] = "value"    -> {AddValue(p, l[2], l[3])}
      [] l[1] = "universe" -> AddUniverse(p, l[2], l[3])
      [] l[1] = "def"      -> AddOp(p, l[2], l[3], l[4], l[5])
      [] l[1] = "link"     -> Connect(p, l[2], l[3])
      [] l[1] = "stack"    -> {[p EXCEPT !.stack = s] :
                                s \in OneOfEach([i \in DOMAIN l[2] |-> resolve_ref(p, l[2][i])])}
      [] l[1] = "fires"    -> {[p EXCEPT !.fires = l[2]]}
      [] OTHER             -> {}

\* The program of a script, as a set: empty when it does not compile.
compile_boot(script) ==
    LET Read[k \in 0..Len(script)] ==
            IF k = 0 THEN {EmptyProgram}
            ELSE UNION {Line(p, script[k]) : p \in Read[k - 1]}
    IN  Read[Len(script)]

Compiles(script) == compile_boot(script) # {}

Compiled(script) == CHOOSE p \in compile_boot(script) : TRUE
=============================================================================
