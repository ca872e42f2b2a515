------------------------------ MODULE Dataflow ------------------------------
(* What the operational graph promises, whatever order tokens are handled   *)
(* in: a value in flight reaches all its consumers at once, a program fires *)
(* when, and only when, all its ports hold a value, and firing consumes     *)
(* those values.  There is no stack and no Fire token here.                 *)
EXTENDS OpExpr, Bags

CONSTANT Seeds

VARIABLES graph, values, inflight, filled, fired, done, failed

flow == <<graph, values, inflight, filled, fired, done, failed>>

Ready(o) == InPorts(graph, o) \subseteq DOMAIN filled

Init ==
    /\ values = graph.literals
    /\ inflight = EmptyBag
    /\ filled = <<>>
    /\ fired = <<>>
    /\ ~done /\ ~failed

Inject(v) ==
    /\ ~failed
    /\ inflight' = inflight (+) SetToBag({v})
    /\ done' = FALSE
    /\ UNCHANGED <<graph, values, filled, fired, failed>>

\* A port keeps the first value it receives until its program fires.
Deliver(v) ==
    /\ ~failed /\ ~done
    /\ BagIn(v, inflight)
    /\ inflight' = inflight (-) SetToBag({v})
    /\ filled' = [p \in DOMAIN filled \cup consumers_of(graph, <<"value", v>>) |->
                    IF p \in DOMAIN filled THEN filled[p] ELSE v]
    /\ UNCHANGED <<graph, values, fired, done, failed>>

\* Two outputs wired to one empty port: one of them arrives.
Fire(o) ==
    /\ ~failed /\ ~done
    /\ Ready(o)
    /\ LET ins == [i \in 1..graph.prog[o].arity |-> filled[<<o, i - 1>>]]
           kept == DOMAIN filled \ InPorts(graph, o)
       IN  \E outs \in Outcome(graph.prog, o, ins, values) :
            LET Offered(p) == {outs[i] : i \in {k \in DOMAIN outs :
                                    p \in consumers_of(graph, <<"out", o, k - 1>>)}}
                fed == UNION {consumers_of(graph, <<"out", o, i - 1>>) : i \in DOMAIN outs}
            IN  /\ values' = values \cup ToSet(outs)
                /\ inflight' = inflight (+) ToBag(outs)
                /\ DOMAIN filled' = kept \cup fed
                /\ \A p \in kept : filled'[p] = filled[p]
                /\ \A p \in fed \ kept : filled'[p] \in Offered(p)
                /\ fired' = Append(fired, [op |-> o, inputs |-> ins, outputs |-> outs])
    /\ UNCHANGED <<graph, done, failed>>

\* Quiescence: nothing in flight, and no program is left with all its ports filled.
Finish ==
    /\ ~failed
    /\ inflight = EmptyBag
    /\ \A o \in DOMAIN graph.prog : graph.prog[o].arity > 0 => ~Ready(o)
    /\ done' = TRUE
    /\ UNCHANGED <<graph, values, inflight, filled, fired, failed>>

\* A failed dispatch promises nothing of the state it leaves.
Fail == failed'

Next ==
    \/ \E v \in Seeds : Inject(v)
    \/ \E v \in Value : Deliver(v)
    \/ \E o \in DOMAIN graph.prog : Fire(o)
    \/ Finish
    \/ Fail

Spec == Init /\ [][Next]_flow
=============================================================================
