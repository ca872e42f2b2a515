----------------------------- MODULE Dispatcher -----------------------------
(* The dispatcher of the operational graph (crates/ewm-ops/src/dispatch.rs): *)
(* a stack machine that routes value tokens by reference to input ports and  *)
(* fires a program once its ports are filled.  One step pops one token.      *)
EXTENDS OpExpr

CONSTANTS Graphs,      \* the graphs: [prog, edges, literals, fires]
          Seeds,       \* the values a caller may seed
          MaxSeeds,    \* bound on the values seeded
          Unlimited,   \* usize::MAX, the budget of run()
          LogCap       \* bound on the fires of a graph, whatever the budgets

ASSUME BudgetAssumption ==
    /\ LogCap \in Nat /\ MaxSeeds \in Nat /\ Unlimited \in Nat
    /\ Unlimited > LogCap

ASSUME GraphAssumption ==
    /\ Seeds \subseteq Value
    /\ \A g \in Graphs :
        /\ DOMAIN g.prog \subseteq Nat
        /\ IsFiniteSet(DOMAIN g.prog) /\ g.literals \subseteq Value
        /\ \A o \in DOMAIN g.prog :
            /\ g.prog[o].arity \in Nat /\ g.prog[o].outputs \in Nat
            /\ g.prog[o].words \in Seq(ToSet(g.prog[o].words))
        /\ IsFiniteSet(g.edges)
        /\ \A e \in g.edges : e = <<e[1], e[2]>> /\ e[2] \in Nat \X Nat

VARIABLES
    graph,      \* the graph: programs and edges, constant during a dispatch
    values,     \* graph.values, the value store
    stack,      \* the token stack, top last
    filled,     \* in-port -> value
    log,        \* the fire log
    status,     \* where the last call of run_until stopped, or "running"
    maxFires,   \* the budget of the call in progress
    seeded      \* the values seeded so far, in order (a history)

vars == <<graph, values, stack, filled, log, status, maxFires, seeded>>

Errors  == {"MissingOp", "InputNotFilled", "EvalError"}
Stopped == {"New", "Quiescence", "Predicate", "FireBudget"}

-----------------------------------------------------------------------------
(* Offering values to ports.  A delivery is [rank, to, value]: the index of  *)
(* the output it comes from, the port it goes to, and what it carries.       *)

\* The deliveries of value v to the ports P, and of the outputs of program o.
Offer(P, r, v) == {[rank |-> r, to |-> p, value |-> v] : p \in P}

Offers(o, outs) ==
    UNION {Offer(consumers_of(graph, <<"out", o, i - 1>>), i, outs[i]) : i \in DOMAIN outs}

\* The order the loops of route_value and fire visit deliveries in.
Precedes(d, e) ==
    \/ d.rank < e.rank
    \/ d.rank = e.rank /\ d.to[1] < e.to[1]
    \/ d.rank = e.rank /\ d.to[1] = e.to[1] /\ d.to[2] < e.to[2]

\* Mutation of Accepted: a token for a filled port counts as filling it.
AcceptedAgain(D, f) == {d \in D : d.to[1] \in DOMAIN graph.prog}

\* Mutation of Accepted: only the first consumer receives the value.
AcceptedFirst(D, f) == {d \in D : d.to \notin DOMAIN f /\ \A e \in D : ~Precedes(e, d)}

\* The deliveries that fill a port: the first one to an empty port, as far
\* as the loop gets before it meets a consumer that is not in the op table.
Accepted(D, f) ==
    LET first == {d \in D : /\ d.to \notin DOMAIN f
                            /\ \A e \in D : e.to = d.to => ~Precedes(e, d)}
    IN  {d \in first : \A e \in first :
            Precedes(e, d) => e.to[1] \in DOMAIN graph.prog}

FilledWith(f, A) ==
    [p \in DOMAIN f \cup {d.to : d \in A} |->
        IF p \in DOMAIN f THEN f[p] ELSE (CHOOSE d \in A : d.to = p).value]

\* The accepted deliveries on which is_ready answers true.
Triggers(f, A) ==
    {d \in A : /\ d.to[1] \in DOMAIN graph.prog
               /\ InPorts(graph, d.to[1]) \subseteq
                    DOMAIN f \cup {e.to : e \in {x \in A : x = d \/ Precedes(x, d)}}}

\* Put every delivery of D in order: fill ports from f, and push a Fire token on
\* `base` for each consumer that becomes ready.
Route(D, f, base) ==
    LET A == Accepted(D, f) IN
    /\ filled' = FilledWith(f, A)
    /\ \E s \in SetToSeqs(Triggers(f, A)) :
        /\ \A i, j \in DOMAIN s : i < j => Precedes(s[i], s[j])
        /\ stack' = base \o [i \in DOMAIN s |-> <<"fire", s[i].to[1]>>]

\* Routing met a consumer that the op table does not hold.
Aborts(D, f) == \E d \in Accepted(D, f) : d.to[1] \notin DOMAIN graph.prog

-----------------------------------------------------------------------------
Init ==
    /\ graph \in Graphs
    /\ values = graph.literals
    /\ stack = <<>>
    /\ filled = <<>>
    /\ log = <<>>
    /\ status = "New"
    /\ maxFires = 0
    /\ seeded = <<>>

\* seed_value: between calls, the caller pushes a value token.
seed_value(v) ==
    /\ status \in Stopped
    /\ Len(seeded) < MaxSeeds
    /\ stack' = Append(stack, <<"value", v>>)
    /\ seeded' = Append(seeded, v)
    /\ UNCHANGED <<graph, values, filled, log, status, maxFires>>

\* run, run_limited, run_until: the caller starts or resumes the traversal.
run_until(m) ==
    /\ status \in Stopped
    /\ stack # <<>>
    /\ status' = "running"
    /\ maxFires' = m
    /\ UNCHANGED <<graph, values, stack, filled, log, seeded>>

\* The stack drained.
Drained ==
    /\ status = "running"
    /\ stack = <<>>
    /\ status' = "Quiescence"
    /\ UNCHANGED <<graph, values, stack, filled, log, maxFires, seeded>>

Popped(kind) == status = "running" /\ stack # <<>> /\ Last(stack)[1] = kind

\* Token::Value: route it to every consumer edge.
route_value ==
    /\ Popped("value")
    /\ LET v == Last(stack)[2]
           D == Offer(consumers_of(graph, <<"value", v>>), 0, v)
       IN  /\ Route(D, filled, Front(stack))
           /\ status' = IF Aborts(D, filled) THEN "MissingOp" ELSE status
    /\ UNCHANGED <<graph, values, log, maxFires, seeded>>

\* Mutation of StopAtFire: the token is not pushed back.
StopDropsToken ==
    /\ Popped("fire")
    /\ status' \in (IF Len(log) >= maxFires THEN {"FireBudget"} ELSE {"Predicate"})
    /\ stack' = Front(stack)
    /\ UNCHANGED <<graph, values, filled, log, maxFires, seeded>>

\* Mutation of StopAtFire: the token is pushed back and the loop goes on.
StopGoesOn == Popped("fire") /\ Len(log) >= maxFires /\ UNCHANGED vars

\* Token::Fire with the budget spent or the predicate true: the token is pushed
\* back and the call returns its commit point.
StopAtFire ==
    /\ Popped("fire")
    /\ status' \in (IF Len(log) >= maxFires THEN {"FireBudget"} ELSE {"Predicate"})
    /\ UNCHANGED <<graph, values, stack, filled, log, maxFires, seeded>>

FireReached == Popped("fire") /\ Len(log) < maxFires /\ Len(log) < LogCap

Cleared(o) == [p \in DOMAIN filled \ InPorts(graph, o) |-> filled[p]]

Inputs(o) == [i \in 1..graph.prog[o].arity |-> filled[<<o, i - 1>>]]

Record(o, ins, outs) == [op |-> o, inputs |-> ins, outputs |-> outs]

\* fire: consume the inputs, evaluate, store and route the outputs, log.  The
\* op is in the table: is_ready looked it up when it pushed the token.
fire ==
    /\ FireReached
    /\ LET o == Last(stack)[2] IN
        /\ InPorts(graph, o) \subseteq DOMAIN filled
        /\ \E outs \in Outcome(graph.prog, o, Inputs(o), values) :
            LET D == Offers(o, outs)
            IN  /\ values' = values \cup ToSet(outs)
                /\ Route(D, Cleared(o),
                         Front(stack) \o [i \in DOMAIN outs |-> <<"value", outs[i]>>])
                /\ IF Aborts(D, Cleared(o))
                   THEN status' = "MissingOp" /\ log' = log
                   ELSE status' = status /\ log' = Append(log, Record(o, Inputs(o), outs))
    /\ UNCHANGED <<graph, maxFires, seeded>>

\* fire on a port that is empty: the token is lost and the run fails.
FireStarved ==
    /\ FireReached
    /\ ~(InPorts(graph, Last(stack)[2]) \subseteq DOMAIN filled)
    /\ stack' = Front(stack)
    /\ status' = "InputNotFilled"
    /\ UNCHANGED <<graph, values, filled, log, maxFires, seeded>>

\* The program failed: its ports are already cleared, so the inputs are lost.
FireFails ==
    /\ FireReached
    /\ LET o == Last(stack)[2] IN
        /\ InPorts(graph, o) \subseteq DOMAIN filled
        /\ Outcome(graph.prog, o, Inputs(o), values) = {}
        /\ filled' = Cleared(o)
    /\ stack' = Front(stack)
    /\ status' = "EvalError"
    /\ UNCHANGED <<graph, values, log, maxFires, seeded>>

Pop == Drained \/ route_value \/ fire \/ FireStarved \/ FireFails \/ StopAtFire

Next ==
    \/ \E v \in Seeds : seed_value(v)
    \/ \E m \in graph.fires : run_until(m)
    \/ Pop

\* The loop of run_until keeps popping: nothing else runs in the process.
Spec == Init /\ [][Next]_vars /\ WF_vars(Pop)

-----------------------------------------------------------------------------
(* Properties.                                                             *)

\* Every edge ends at a port its program has (the boot script does not check).
Wired(g) == \A e \in g.edges : \E o \in DOMAIN g.prog : e[2] \in InPorts(g, o)

SingleSource(g) == \A e1, e2 \in g.edges : e1[2] = e2[2] => e1 = e2

\* A Fire token is in s for exactly the programs whose ports are all filled in f
\* (a program without inputs is ready but never fires), and there is one of it.
OneTokenEach(s, f) ==
    \A o \in DOMAIN graph.prog :
        /\ \A i, j \in DOMAIN s : s[i] = <<"fire", o>> /\ s[j] = <<"fire", o>> => i = j
        /\ (\E i \in DOMAIN s : s[i] = <<"fire", o>>)
            <=> graph.prog[o].arity > 0 /\ InPorts(graph, o) \subseteq DOMAIN f

\* On a wired graph no program is fired twice on one set of inputs, fires on an
\* empty port, or is left ready and forgotten, through fan-in, feedback, duplicate
\* values, stops and failing programs; so fire never meets InputNotFilled.
FireIffReady ==
    Wired(graph) => /\ OneTokenEach(stack, filled)
                    /\ status \notin {"InputNotFilled", "MissingOp"}

\* The values that the seeds given and the firings R offer port p.
Arriving(g, given, R, p) ==
    {v \in given : <<<<"value", v>>, p>> \in g.edges}
    \cup UNION {{r.outputs[i] : i \in {n \in DOMAIN r.outputs :
                    <<<<"out", r.op, n - 1>>, p>> \in g.edges}} : r \in R}

\* One round: every program with a value for each port fires on those values.
Firings(g, given, R) ==
    LET Fed(o) == /\ g.prog[o].arity > 0
                  /\ \A p \in InPorts(g, o) : Arriving(g, given, R, p) # {}
        Ins(o) == [i \in 1..g.prog[o].arity |->
                        CHOOSE v \in Arriving(g, given, R, <<o, i - 1>>) : TRUE]
    IN  UNION {{[op |-> o, inputs |-> Ins(o), outputs |-> outs] :
                    outs \in Outcome(g.prog, o, Ins(o), Value)} :
                o \in {x \in DOMAIN g.prog : Fed(x)}}

\* What a graph with one source per port computes from its seeds, as a set of
\* firings, without any order: as many rounds as there are programs.
Denotation(g, given) ==
    LET Round[k \in 0..Cardinality(DOMAIN g.prog)] ==
            IF k = 0 THEN {} ELSE Firings(g, given, Round[k - 1])
    IN  Round[Cardinality(DOMAIN g.prog)]

\* No output is again a value with consumers, so nothing is routed twice.
Fresh(g, given) ==
    \A r \in Denotation(g, given) : \A v \in ToSet(r.outputs) :
        consumers_of(g, <<"value", v>>) = {}

\* The order does not show: when a graph with one source per port and no refed
\* value has drained, the log holds exactly the firings of the order-free
\* reading, each once, however often the budget or the predicate stopped the run
\* and wherever between two calls the seeds arrived.  A cycle of edges may be
\* there: nothing starts it.
Determinate ==
    /\ status = "Quiescence" /\ stack = <<>>
    /\ Wired(graph) /\ SingleSource(graph)
    /\ Cardinality(ToSet(seeded)) = Len(seeded)
    /\ Fresh(graph, ToSet(seeded))
    => /\ ToSet(log) = Denotation(graph, ToSet(seeded))
       /\ Cardinality(ToSet(log)) = Len(log)

\* The values on the stack, as a bag.
InFlight ==
    LET at(v) == {i \in DOMAIN stack : stack[i] = <<"value", v>>}
    IN  [v \in {u \in Value : at(u) # {}} |-> Cardinality(at(v))]

Flow == INSTANCE Dataflow WITH
            inflight <- InFlight,
            fired <- log,
            done <- status = "Quiescence" /\ stack = <<>>,
            failed <- status \in Errors

\* The stack machine only fires, routes and stops as the order-free dataflow
\* reading allows: the LIFO stack and the Fire tokens lose and invent nothing, and
\* a stop in the middle of a run changes nothing the graph computes.
ImplementsDataflow == Flow!Spec

\* A call of run_until comes back, on a graph that is given a budget and on one
\* with a single source per port and no refed value that runs to quiescence.
Stops == status = "running" ~> status # "running"

=============================================================================
