-------------------------- MODULE DispatcherProofs --------------------------
(* Proofs about the dispatcher: Fire tokens stand for exactly the programs   *)
(* whose ports are all filled, on every wired graph; on every graph it       *)
(* implements the order-free dataflow; on a graph with one source per port   *)
(* its log is the denotation; and the counted quantifiers are dual and       *)
(* adjoint over every universe.                                              *)
EXTENDS Dispatcher, FiniteSetTheorems, WellFoundedInduction, TLAPS

-----------------------------------------------------------------------------
(* The counted quantifiers.                                                *)

\* forall_c is the dual of exists_c inside the universe.
THEOREM QuantifiersDual ==
    ASSUME NEW x, NEW u, NEW c
    PROVE  forall_c(x, c, u) = u \ exists_c(u \ x, c, u)
BY DEF forall_c, exists_c

\* exists_c and forall_c are adjoint: what x reaches lies in y exactly when x
\* lies in what y fills; both are closed under the fibres of c.
THEOREM QuantifiersAdjoint ==
    ASSUME NEW u, NEW x \in SUBSET u, NEW y \in SUBSET u, NEW c
    PROVE  exists_c(x, c, u) \subseteq y <=> x \subseteq forall_c(y, c, u)
BY DEF forall_c, exists_c

-----------------------------------------------------------------------------
(* Deliveries and their order.                                             *)

Port == Nat \X Nat

Delivery == [rank : Nat, to : Port, value : Value]

Token == ({"value"} \X Value) \cup ({"fire"} \X DOMAIN graph.prog)

\* D is a set of deliveries one loop makes: finite, each output offered once to a port.
Queue(D) ==
    /\ D \subseteq Delivery
    /\ IsFiniteSet(D)
    /\ \A d, e \in D : d.rank = e.rank /\ d.to = e.to => d = e

\* The same, to ports that programs have.
Deliveries(D) ==
    /\ Queue(D)
    /\ \A d \in D : \E o \in DOMAIN graph.prog : d.to \in InPorts(graph, o)

\* The order of deliveries is strict, and total up to rank and target.
LEMMA PrecedesOrder ==
    ASSUME NEW d \in Delivery, NEW e \in Delivery
    PROVE  /\ ~Precedes(d, d)
           /\ ~(Precedes(d, e) /\ Precedes(e, d))
           /\ Precedes(d, e) \/ Precedes(e, d) \/ (d.rank = e.rank /\ d.to = e.to)
BY DEF Precedes, Delivery, Port

\* And transitive.
LEMMA PrecedesTransitive ==
    ASSUME NEW d \in Delivery, NEW e \in Delivery, NEW x \in Delivery,
           Precedes(d, e), Precedes(e, x)
    PROVE  Precedes(d, x)
BY DEF Precedes, Delivery, Port

\* A finite set of deliveries has one that precedes no other.
LEMMA LastDelivery ==
    ASSUME NEW K, K \subseteq Delivery, IsFiniteSet(K), K # {}
    PROVE  \E d \in K : \A e \in K : ~Precedes(d, e)
<1> DEFINE Later(d) == {e \in K : Precedes(d, e)}
           T == {Later(d) : d \in K}
<1>1. IsWellFoundedOn(StrictSubsetOrdering(K), FiniteSubsetsOf(K))
  BY FS_StrictSubsetOrderingWellFounded
<1>2. T \subseteq FiniteSubsetsOf(K) /\ T # {}
  <2>1. FiniteSubsetsOf(K) = SUBSET K
    BY FS_FiniteSubsetsOfFinite
  <2>2. \A m \in T : m \in SUBSET K
    OBVIOUS
  <2>3. T # {}
    OBVIOUS
  <2> QED BY <2>1, <2>2, <2>3
<1>3. PICK m \in T : \A y \in T : <<y, m>> \notin StrictSubsetOrdering(K)
  <2> HIDE DEF T
  <2> QED BY <1>1, <1>2, WFMin
<1>4. PICK d \in K : m = Later(d)
  OBVIOUS
<1>5. ASSUME NEW e \in K, Precedes(d, e)
      PROVE  FALSE
  <2>1. Later(e) \subseteq Later(d)
    BY <1>5, PrecedesTransitive
  <2>2. e \in Later(d) /\ e \notin Later(e)
    BY <1>5, PrecedesOrder
  <2>3. <<Later(e), Later(d)>> \in StrictSubsetOrdering(K)
    BY <2>1, <2>2 DEF StrictSubsetOrdering
  <2> QED BY <2>3, <1>3, <1>4
<1> QED BY <1>5

\* A sequence that lists the elements of a finite set without repetition
\* reaches all of them.
LEMMA ListsAll ==
    ASSUME NEW T, IsFiniteSet(T), NEW s \in SetToSeqs(T)
    PROVE  /\ Cardinality(T) \in Nat
           /\ s \in [1..Cardinality(T) -> T]
           /\ \A i, j \in DOMAIN s : i # j => s[i] # s[j]
           /\ \A t \in T : \E i \in DOMAIN s : s[i] = t
<1> DEFINE n == Cardinality(T)
           S == {s[i] : i \in 1..n}
<1>1. n \in Nat /\ s \in [1..n -> T] /\ \A i, j \in 1..n : i # j => s[i] # s[j]
  BY FS_CardinalityType DEF SetToSeqs
<1>2. IsFiniteSet(1..n) /\ Cardinality(1..n) = n
  BY <1>1, FS_Interval
<1>3. s \in Bijection(1..n, S)
  BY <1>1 DEF Bijection, Injection, Surjection, IsInjective
<1>4. ExistsBijection(1..n, S)
  BY <1>3 DEF ExistsBijection
<1>5. Cardinality(S) = n
  BY <1>2, <1>4, FS_Bijection
<1>6. S = T
  BY <1>1, <1>5, FS_Subset
<1> QED BY <1>1, <1>6

-----------------------------------------------------------------------------
(* Routing keeps one token for each ready program.                         *)

Full(o, f) == InPorts(graph, o) \subseteq DOMAIN f

\* What the accepted deliveries and the triggers among them are.
LEMMA AcceptedFacts ==
    ASSUME NEW D, Queue(D), NEW f
    PROVE  /\ Accepted(D, f) \subseteq D
           /\ \A d \in Accepted(D, f) : d.to \notin DOMAIN f
           /\ \A d, e \in Accepted(D, f) : d.to = e.to => d = e
<1> DEFINE A == Accepted(D, f)
<1>1. A \subseteq D /\ \A d \in A : d.to \notin DOMAIN f
  BY DEF Accepted
<1>2. ASSUME NEW d \in A, NEW e \in A, d.to = e.to
      PROVE  d = e
  <2>1. ~Precedes(d, e) /\ ~Precedes(e, d)
    BY <1>1, <1>2 DEF Accepted
  <2>2. d \in Delivery /\ e \in Delivery
    BY <1>1 DEF Queue
  <2>3. d.rank = e.rank
    BY <2>1, <2>2, PrecedesOrder
  <2> QED BY <1>1, <1>2, <2>3 DEF Queue
<1> QED BY <1>1, <1>2

\* The ports that are filled after routing.
LEMMA FilledDomain ==
    ASSUME NEW f, NEW A
    PROVE  DOMAIN FilledWith(f, A) = DOMAIN f \cup {d.to : d \in A}
BY DEF FilledWith

\* A program that a set of deliveries fills has one among them that triggers it.
LEMMA BecomesFull ==
    ASSUME NEW D, Queue(D), NEW f, NEW A, A = Accepted(D, f), NEW g, g = FilledWith(f, A),
           NEW o \in DOMAIN graph.prog, Full(o, g), ~Full(o, f)
    PROVE  \E d \in Triggers(f, A) : d.to[1] = o
<1> DEFINE UpTo(d) == {e.to : e \in {x \in A : x = d \/ Precedes(x, d)}}
           K == {d \in A : d.to[1] = o}
<1>1. /\ A \subseteq D
      /\ \A d \in A : d.to \notin DOMAIN f
      /\ \A d, e \in A : d.to = e.to => d = e
  BY AcceptedFacts
<1>2. \A d \in A : d \in Delivery
  BY <1>1 DEF Queue
<1>3. DOMAIN g = DOMAIN f \cup {d.to : d \in A}
  BY FilledDomain
<1>4. K # {}
  <2>1. PICK p \in InPorts(graph, o) : p \notin DOMAIN f
    BY DEF Full
  <2>2. PICK d \in A : d.to = p
    BY <1>3, <2>1 DEF Full
  <2> QED BY <2>1, <2>2 DEF InPorts
<1>5. K \subseteq Delivery
  BY <1>2
<1>6. IsFiniteSet(K)
  <2>1. K \in SUBSET D
    BY <1>1
  <2> QED BY <2>1, FS_Subset DEF Queue
<1>7. PICK d \in K : \A e \in K : ~Precedes(d, e)
  <2> HIDE DEF K
  <2> QED BY <1>4, <1>5, <1>6, LastDelivery
<1>8. \A x \in K : x = d \/ Precedes(x, d)
  <2> SUFFICES ASSUME NEW x \in K, ~Precedes(x, d)
               PROVE  x = d
    OBVIOUS
  <2>1. x.to = d.to
    BY <1>2, <1>7, PrecedesOrder
  <2> QED BY <1>1, <2>1
<1>9. InPorts(graph, o) \subseteq DOMAIN f \cup UpTo(d)
  <2> SUFFICES ASSUME NEW p \in InPorts(graph, o), p \notin DOMAIN f
               PROVE  p \in UpTo(d)
    OBVIOUS
  <2>1. PICK x \in A : x.to = p
    BY <1>3 DEF Full
  <2>2. x \in K
    BY <2>1 DEF InPorts
  <2> QED BY <1>8, <2>1, <2>2
<1> QED BY <1>9 DEF Triggers

\* A program becomes full by a set of deliveries exactly when one of them, and
\* only one, triggers it.
LEMMA TriggerFacts ==
    ASSUME NEW D, Deliveries(D), NEW f,
           NEW A, A = Accepted(D, f), NEW g, g = FilledWith(f, A)
    PROVE  /\ \A d \in Triggers(f, A) :
                 /\ d.to[1] \in DOMAIN graph.prog
                 /\ d.to \in InPorts(graph, d.to[1])
                 /\ Full(d.to[1], g) /\ ~Full(d.to[1], f)
           /\ \A d, e \in Triggers(f, A) : d.to[1] = e.to[1] => d = e
           /\ \A o \in DOMAIN graph.prog :
                 Full(o, g) /\ ~Full(o, f) => \E d \in Triggers(f, A) : d.to[1] = o
<1> DEFINE T == Triggers(f, A)
           UpTo(d) == {e.to : e \in {x \in A : x = d \/ Precedes(x, d)}}
<1>1. /\ A \subseteq D
      /\ \A d \in A : d.to \notin DOMAIN f
      /\ \A d, e \in A : d.to = e.to => d = e
  BY AcceptedFacts DEF Deliveries
<1>2. \A d \in A : d \in Delivery
  BY <1>1 DEF Deliveries, Queue
<1>3. \A d \in A : d.to[1] \in DOMAIN graph.prog /\ d.to \in InPorts(graph, d.to[1])
  BY <1>1 DEF Deliveries, InPorts
<1>4. DOMAIN g = DOMAIN f \cup {d.to : d \in A}
  BY FilledDomain
<1>5. T \subseteq A /\ \A d \in T : InPorts(graph, d.to[1]) \subseteq DOMAIN f \cup UpTo(d)
  BY DEF Triggers
<1>6. \A d \in T : Full(d.to[1], g) /\ ~Full(d.to[1], f)
  <2> SUFFICES ASSUME NEW d \in T
               PROVE  Full(d.to[1], g) /\ ~Full(d.to[1], f)
    OBVIOUS
  <2>1. UpTo(d) \subseteq {e.to : e \in A}
    OBVIOUS
  <2>2. Full(d.to[1], g)
    BY <1>4, <1>5, <2>1 DEF Full
  <2>3. ~Full(d.to[1], f)
    BY <1>1, <1>3, <1>5 DEF Full
  <2> QED BY <2>2, <2>3
<1>7. \A d, e \in T : d.to[1] = e.to[1] => ~Precedes(d, e)
  <2> SUFFICES ASSUME NEW d \in T, NEW e \in T, d.to[1] = e.to[1], Precedes(d, e)
               PROVE  FALSE
    OBVIOUS
  <2>1. e.to \in UpTo(d)
    BY <1>1, <1>3, <1>5
  <2>2. PICK x \in A : x.to = e.to /\ (x = d \/ Precedes(x, d))
    BY <2>1
  <2>3. e = d \/ Precedes(e, d)
    BY <1>1, <1>5, <2>2
  <2> QED BY <1>2, <1>5, <2>3, PrecedesOrder
<1>8. \A d, e \in T : d.to[1] = e.to[1] => d = e
  <2> SUFFICES ASSUME NEW d \in T, NEW e \in T, d.to[1] = e.to[1]
               PROVE  d = e
    OBVIOUS
  <2>1. ~Precedes(d, e) /\ ~Precedes(e, d)
    BY <1>7
  <2>2. d.to = e.to
    BY <1>2, <1>5, <2>1, PrecedesOrder
  <2> QED BY <1>1, <1>5, <2>2
<1>9. ASSUME NEW o \in DOMAIN graph.prog, Full(o, g), ~Full(o, f)
      PROVE  \E d \in T : d.to[1] = o
  BY <1>9, BecomesFull DEF Deliveries
<1> QED BY <1>3, <1>5, <1>6, <1>8, <1>9

\* One loop of deliveries turns a stack with one token for each full program of f
\* into a stack with one for each full program after the loop.
LEMMA RouteKeepsOneToken ==
    ASSUME NEW D, Deliveries(D), NEW f, NEW base \in Seq(Token),
           \A o \in DOMAIN graph.prog : graph.prog[o].arity \in Nat,
           OneTokenEach(base, f), Route(D, f, base)
    PROVE  stack' \in Seq(Token) /\ OneTokenEach(stack', filled')
<1> DEFINE A == Accepted(D, f)
           T == Triggers(f, A)
<1>1. filled' = FilledWith(f, A)
  BY DEF Route
<1>2. PICK s \in SetToSeqs(T) : stack' = base \o [i \in DOMAIN s |-> <<"fire", s[i].to[1]>>]
  BY DEF Route
<1> DEFINE n == Cardinality(T)
           m == Len(base)
           fires == [i \in 1..n |-> <<"fire", s[i].to[1]>>]
<1>3. IsFiniteSet(T)
  <2>1. T \in SUBSET D
    BY AcceptedFacts DEF Triggers, Deliveries
  <2> QED BY <2>1, FS_Subset DEF Deliveries, Queue
<1>4. /\ n \in Nat
      /\ s \in [1..n -> T]
      /\ \A i, j \in DOMAIN s : i # j => s[i] # s[j]
      /\ \A t \in T : \E i \in DOMAIN s : s[i] = t
  <2> HIDE DEF T
  <2> QED BY <1>3, ListsAll
<1>5. /\ \A d \in T : /\ d.to[1] \in DOMAIN graph.prog
                      /\ d.to \in InPorts(graph, d.to[1])
                      /\ Full(d.to[1], filled') /\ ~Full(d.to[1], f)
      /\ \A d, e \in T : d.to[1] = e.to[1] => d = e
      /\ \A o \in DOMAIN graph.prog :
            Full(o, filled') /\ ~Full(o, f) => \E d \in T : d.to[1] = o
  BY <1>1, TriggerFacts
<1>6. \A o \in DOMAIN graph.prog : Full(o, f) => Full(o, filled')
  BY <1>1, FilledDomain DEF Full
<1> HIDE DEF T
<1>7. fires \in Seq(Token) /\ Len(fires) = n
  <2>1. \A i \in 1..n : fires[i] \in Token
    BY <1>4, <1>5 DEF Token
  <2> QED BY <1>4, <2>1
<1>8. stack' = base \o fires
  BY <1>2, <1>4
<1> HIDE DEF fires
<1>9. /\ stack' \in Seq(Token)
      /\ m \in Nat
      /\ DOMAIN stack' = 1..(m + n)
      /\ DOMAIN base = 1..m
      /\ \A i \in 1..m : stack'[i] = base[i]
      /\ \A i \in 1..n : stack'[m + i] = fires[i]
  BY <1>4, <1>7, <1>8
<1>10. \A i \in 1..n : stack'[m + i] = <<"fire", s[i].to[1]>>
  BY <1>9 DEF fires
<1>11. \A k \in 1..(m + n) : k \in 1..m \/ \E i \in 1..n : k = m + i
  <2> SUFFICES ASSUME NEW k \in 1..(m + n), k \notin 1..m
               PROVE  \E i \in 1..n : k = m + i
    OBVIOUS
  <2>1. k - m \in 1..n /\ k = m + (k - m)
    BY <1>4, <1>9
  <2> QED BY <2>1
<1>12. ASSUME NEW o \in DOMAIN graph.prog
       PROVE  /\ \A i, j \in DOMAIN stack' :
                    stack'[i] = <<"fire", o>> /\ stack'[j] = <<"fire", o>> => i = j
              /\ (\E i \in DOMAIN stack' : stack'[i] = <<"fire", o>>)
                    <=> graph.prog[o].arity > 0 /\ Full(o, filled')
  <2>1. /\ \A i, j \in 1..m : base[i] = <<"fire", o>> /\ base[j] = <<"fire", o>> => i = j
        /\ (\E i \in 1..m : base[i] = <<"fire", o>>)
              <=> graph.prog[o].arity > 0 /\ Full(o, f)
    BY <1>9 DEF OneTokenEach, Full
  <2>2. \A i \in 1..n : stack'[m + i] = <<"fire", o>> <=> s[i].to[1] = o
    BY <1>10
  <2>3. \A i \in 1..n : s[i].to[1] = o => ~Full(o, f) /\ Full(o, filled') /\ graph.prog[o].arity > 0
    <3> SUFFICES ASSUME NEW i \in 1..n, s[i].to[1] = o
                 PROVE  ~Full(o, f) /\ Full(o, filled') /\ graph.prog[o].arity > 0
      OBVIOUS
    <3>1. s[i] \in T
      BY <1>4
    <3>2. ~Full(o, f) /\ Full(o, filled') /\ s[i].to \in InPorts(graph, o)
      BY <1>5, <3>1
    <3>3. PICK k \in 0..graph.prog[o].arity - 1 : s[i].to = <<o, k>>
      BY <3>2 DEF InPorts
    <3> QED BY <3>2, <3>3
  <2>4. \A i, j \in 1..n : s[i].to[1] = o /\ s[j].to[1] = o => i = j
    BY <1>4, <1>5
  <2> DEFINE Old(k) == k \in 1..m /\ base[k] = <<"fire", o>> /\ Full(o, f)
             New(k) == /\ ~Full(o, f)
                       /\ \E i \in 1..n : k = m + i /\ s[i].to[1] = o
  <2>8. ASSUME NEW k \in DOMAIN stack', stack'[k] = <<"fire", o>>
        PROVE  Old(k) \/ New(k)
    <3>1. CASE k \in 1..m
      <4>1. base[k] = <<"fire", o>>
        BY <1>9, <2>8, <3>1
      <4> QED BY <2>1, <3>1, <4>1
    <3>2. CASE \E i \in 1..n : k = m + i
      <4>1. PICK i \in 1..n : k = m + i
        BY <3>2
      <4>2. s[i].to[1] = o
        BY <2>2, <2>8, <4>1
      <4> QED BY <2>3, <4>1, <4>2
    <3>3. k \in 1..(m + n)
      BY <1>9
    <3> QED BY <1>11, <3>1, <3>2, <3>3
  <2>9. \A k : Old(k) \/ New(k) => graph.prog[o].arity > 0 /\ Full(o, filled')
    BY <1>6, <2>1, <2>3
  <2>10. \A k, l : (Old(k) \/ New(k)) /\ (Old(l) \/ New(l)) => k = l
    BY <2>1, <2>4
  <2> HIDE DEF Old, New
  <2>5. \A i, j \in DOMAIN stack' :
            stack'[i] = <<"fire", o>> /\ stack'[j] = <<"fire", o>> => i = j
    BY <2>8, <2>10
  <2>6. (\E i \in DOMAIN stack' : stack'[i] = <<"fire", o>>)
            => graph.prog[o].arity > 0 /\ Full(o, filled')
    BY <2>8, <2>9
  <2>7. ASSUME graph.prog[o].arity > 0, Full(o, filled')
        PROVE  \E i \in DOMAIN stack' : stack'[i] = <<"fire", o>>
    <3>1. CASE Full(o, f)
      <4>1. PICK i \in 1..m : base[i] = <<"fire", o>>
        BY <2>1, <2>7, <3>1
      <4>2. i \in DOMAIN stack' /\ stack'[i] = <<"fire", o>>
        BY <1>4, <1>9, <4>1
      <4> QED BY <4>2
    <3>2. CASE ~Full(o, f)
      <4>1. PICK d \in T : d.to[1] = o
        BY <1>5, <2>7, <3>2
      <4>2. PICK i \in 1..n : s[i] = d
        BY <1>4
      <4>3. m + i \in DOMAIN stack' /\ stack'[m + i] = <<"fire", o>>
        <5>1. m + i \in 1..(m + n)
          BY <1>4, <1>9
        <5> QED BY <1>9, <2>2, <4>1, <4>2, <5>1
      <4> QED BY <4>3
    <3> QED BY <3>1, <3>2
  <2> QED BY <2>5, <2>6, <2>7
<1> QED BY <1>9, <1>12 DEF OneTokenEach, Full

-----------------------------------------------------------------------------
(* The steps of the dispatcher.                                            *)

\* Finitely many ports receive finitely many deliveries.
LEMMA FiniteOffers ==
    ASSUME NEW P, IsFiniteSet(P), NEW r, NEW v
    PROVE  IsFiniteSet(Offer(P, r, v))
<1> DEFINE h == [p \in P |-> [rank |-> r, to |-> p, value |-> v]]
<1>1. h \in Surjection(P, Offer(P, r, v))
  BY DEF Surjection, Offer
<1> QED BY <1>1, FS_Surjection DEF ExistsSurjection

\* A value has finitely many consumers.
LEMMA ConsumersFinite ==
    ASSUME graph \in Graphs, NEW from
    PROVE  IsFiniteSet(consumers_of(graph, from))
<1> DEFINE F == {edge \in graph.edges : edge[1] = from}
           C == {e[2] : e \in F}
           h == [e \in F |-> e[2]]
<1>1. IsFiniteSet(F)
  BY GraphAssumption, FS_Subset
<1>2. h \in Surjection(F, C)
  BY DEF Surjection
<1>3. IsFiniteSet(C)
  BY <1>1, <1>2, FS_Surjection DEF ExistsSurjection
<1> QED BY <1>3 DEF consumers_of

\* The deliveries of one value to the consumers of one source.
LEMMA OneQueue ==
    ASSUME graph \in Graphs, NEW from, NEW r \in Nat, NEW v \in Value
    PROVE  Queue(Offer(consumers_of(graph, from), r, v))
<1> DEFINE D == Offer(consumers_of(graph, from), r, v)
<1>1. IsFiniteSet(D)
  <2>1. IsFiniteSet(consumers_of(graph, from))
    BY ConsumersFinite
  <2> QED BY <2>1, FiniteOffers
<1>2. \A p \in consumers_of(graph, from) : p \in Port
  BY GraphAssumption DEF consumers_of, Port
<1>3. \A d \in D : d \in Delivery
  BY <1>2 DEF Offer, Delivery
<1>4. \A d, e \in D : d.rank = e.rank /\ d.to = e.to => d = e
  BY DEF Offer
<1> QED BY <1>1, <1>3, <1>4 DEF Queue

\* The deliveries of the outputs of a firing.
LEMMA OutputQueue ==
    ASSUME graph \in Graphs, NEW o, NEW n \in Nat, NEW outs \in [1..n -> Value]
    PROVE  Queue(Offers(o, outs))
<1> DEFINE Out(i) == Offer(consumers_of(graph, <<"out", o, i - 1>>), i, outs[i])
           SS == {Out(i) : i \in 1..n}
           h == [i \in 1..n |-> Out(i)]
<1>1. \A i \in 1..n : Queue(Out(i))
  <2> SUFFICES ASSUME NEW i \in 1..n
               PROVE  Queue(Out(i))
    OBVIOUS
  <2>1. i \in Nat /\ outs[i] \in Value
    OBVIOUS
  <2> QED BY <2>1, OneQueue
<1>2. \A i \in 1..n : \A d \in Out(i) : d.rank = i
  BY DEF Offer
<1>3. UNION SS = Offers(o, outs)
  BY DEF Offers
<1> HIDE DEF Out
<1>4. IsFiniteSet(SS)
  <2>1. h \in Surjection(1..n, SS)
    BY DEF Surjection
  <2>2. IsFiniteSet(1..n)
    BY FS_Interval
  <2> QED BY <2>1, <2>2, FS_Surjection DEF ExistsSurjection
<1>5. IsFiniteSet(UNION SS)
  <2>1. \A S \in SS : IsFiniteSet(S)
    BY <1>1 DEF Queue
  <2> HIDE DEF SS
  <2> QED BY <1>4, <2>1, FS_UNION
<1>6. \A d \in UNION SS : d \in Delivery
  BY <1>1 DEF Queue
<1>7. \A d, e \in UNION SS : d.rank = e.rank /\ d.to = e.to => d = e
  <2> SUFFICES ASSUME NEW i \in 1..n, NEW j \in 1..n, NEW d \in Out(i), NEW e \in Out(j),
                      d.rank = e.rank, d.to = e.to
               PROVE  d = e
    OBVIOUS
  <2>1. i = j
    BY <1>2
  <2> QED BY <1>1, <2>1 DEF Queue
<1> HIDE DEF SS
<1> QED BY <1>3, <1>5, <1>6, <1>7 DEF Queue

\* On a wired graph they go to ports that programs have.
LEMMA WiredQueues ==
    ASSUME Wired(graph)
    PROVE  /\ \A from, r, v : Queue(Offer(consumers_of(graph, from), r, v))
                => Deliveries(Offer(consumers_of(graph, from), r, v))
           /\ \A o, outs : Queue(Offers(o, outs)) => Deliveries(Offers(o, outs))
<1>1. \A from, r, v : \A d \in Offer(consumers_of(graph, from), r, v) :
        \E o \in DOMAIN graph.prog : d.to \in InPorts(graph, o)
  BY DEF Wired, Offer, consumers_of
<1>2. \A o, outs : \A d \in Offers(o, outs) :
        \E q \in DOMAIN graph.prog : d.to \in InPorts(graph, q)
  <2> SUFFICES ASSUME NEW o, NEW outs, NEW d \in Offers(o, outs)
               PROVE  \E q \in DOMAIN graph.prog : d.to \in InPorts(graph, q)
    OBVIOUS
  <2> DEFINE from(i) == <<"out", o, i - 1>>
  <2>1. PICK i \in DOMAIN outs : d \in Offer(consumers_of(graph, from(i)), i, outs[i])
    BY DEF Offers
  <2> HIDE DEF from
  <2> QED BY <1>1, <2>1
<1> QED BY <1>1, <1>2 DEF Deliveries

\* The stack but its top token, by position.
LEMMA FrontTokens ==
    ASSUME NEW s \in Seq(Token), s # <<>>,
           NEW m, m = Len(s), NEW fr, fr = Front(s), NEW top, top = Last(s)
    PROVE  /\ fr \in Seq(Token)
           /\ \A i \in DOMAIN fr : i \in DOMAIN s /\ i # m /\ fr[i] = s[i]
           /\ \A i \in DOMAIN s : i = m \/ i \in DOMAIN fr
           /\ m \in DOMAIN s /\ top = s[m] /\ top \in Token
<1>1. m \in Nat \ {0} /\ DOMAIN s = 1..m
  OBVIOUS
<1>2. fr = [i \in 1..(m - 1) |-> s[i]]
  BY <1>1 DEF Front
<1>3. \A i \in 1..(m - 1) : i \in 1..m /\ i # m
  BY <1>1
<1>4. \A i \in 1..m : i = m \/ i \in 1..(m - 1)
  BY ONLY <1>1
<1>5. fr \in Seq(Token) /\ DOMAIN fr = 1..(m - 1)
  <2>1. \A i \in 1..(m - 1) : s[i] \in Token
    BY <1>1, <1>3
  <2>2. m - 1 \in Nat
    BY <1>1
  <2> QED BY <1>2, <2>1, <2>2
<1>6. top = s[m] /\ m \in 1..m /\ top \in Token
  BY <1>1 DEF Last
<1> QED BY <1>1, <1>2, <1>3, <1>4, <1>5, <1>6

\* Popping a value token changes no Fire token.
LEMMA PopValue ==
    ASSUME stack \in Seq(Token), stack # <<>>, Last(stack)[1] = "value",
           OneTokenEach(stack, filled)
    PROVE  /\ Last(stack)[2] \in Value
           /\ Front(stack) \in Seq(Token)
           /\ OneTokenEach(Front(stack), filled)
<1> DEFINE m == Len(stack)
           fr == Front(stack)
           top == Last(stack)
<1>1. /\ fr \in Seq(Token)
      /\ \A i \in DOMAIN fr : i \in DOMAIN stack /\ i # m /\ fr[i] = stack[i]
      /\ \A i \in DOMAIN stack : i = m \/ i \in DOMAIN fr
      /\ m \in DOMAIN stack /\ top = stack[m] /\ top \in Token
  BY FrontTokens
<1> HIDE DEF m, fr
<1>2. top[2] \in Value /\ \A o : stack[m] # <<"fire", o>>
  BY <1>1 DEF Token
<1>3. ASSUME NEW o \in DOMAIN graph.prog
      PROVE  /\ \A i, j \in DOMAIN fr : fr[i] = <<"fire", o>> /\ fr[j] = <<"fire", o>> => i = j
             /\ (\E i \in DOMAIN fr : fr[i] = <<"fire", o>>)
                  <=> graph.prog[o].arity > 0 /\ InPorts(graph, o) \subseteq DOMAIN filled
  <2>1. /\ \A i, j \in DOMAIN stack : stack[i] = <<"fire", o>> /\ stack[j] = <<"fire", o>> => i = j
        /\ (\E i \in DOMAIN stack : stack[i] = <<"fire", o>>)
              <=> graph.prog[o].arity > 0 /\ InPorts(graph, o) \subseteq DOMAIN filled
    BY DEF OneTokenEach
  <2>2. (\E i \in DOMAIN stack : stack[i] = <<"fire", o>>)
            <=> (\E i \in DOMAIN fr : fr[i] = <<"fire", o>>)
    BY <1>1, <1>2
  <2>3. \A i, j \in DOMAIN fr : fr[i] = <<"fire", o>> /\ fr[j] = <<"fire", o>> => i = j
    BY <1>1, <2>1
  <2> QED BY <2>1, <2>2, <2>3
<1>4. OneTokenEach(fr, filled)
  BY <1>3 DEF OneTokenEach
<1> QED BY <1>1, <1>2, <1>4 DEF fr

\* Popping a Fire token and clearing its program leaves one token for each of
\* the programs that are still full.
LEMMA PopFire ==
    ASSUME graph \in Graphs, stack \in Seq(Token), stack # <<>>, Last(stack)[1] = "fire",
           OneTokenEach(stack, filled), NEW o, o = Last(stack)[2]
    PROVE  /\ o \in DOMAIN graph.prog
           /\ InPorts(graph, o) \subseteq DOMAIN filled
           /\ Front(stack) \in Seq(Token)
           /\ OneTokenEach(Front(stack), Cleared(o))
<1> DEFINE m == Len(stack)
           fr == Front(stack)
           top == Last(stack)
<1>1. /\ fr \in Seq(Token)
      /\ \A i \in DOMAIN fr : i \in DOMAIN stack /\ i # m /\ fr[i] = stack[i]
      /\ \A i \in DOMAIN stack : i = m \/ i \in DOMAIN fr
      /\ m \in DOMAIN stack /\ top = stack[m] /\ top \in Token
  BY FrontTokens
<1>2. o \in DOMAIN graph.prog /\ stack[m] = <<"fire", o>>
  <2> HIDE DEF m, fr
  <2> QED BY <1>1 DEF Token
<1> HIDE DEF m, fr, top
<1>3. graph.prog[o].arity > 0 /\ InPorts(graph, o) \subseteq DOMAIN filled
  BY <1>1, <1>2 DEF OneTokenEach
<1>4. <<o, 0>> \in InPorts(graph, o)
  <2>1. graph.prog[o].arity \in Nat
    BY <1>2, GraphAssumption
  <2> QED BY <1>3, <2>1 DEF InPorts
<1>5. DOMAIN Cleared(o) = DOMAIN filled \ InPorts(graph, o)
  BY DEF Cleared
<1>6. ASSUME NEW q \in DOMAIN graph.prog
      PROVE  /\ \A i, j \in DOMAIN fr : fr[i] = <<"fire", q>> /\ fr[j] = <<"fire", q>> => i = j
             /\ (\E i \in DOMAIN fr : fr[i] = <<"fire", q>>)
                  <=> graph.prog[q].arity > 0 /\ InPorts(graph, q) \subseteq DOMAIN Cleared(o)
  <2>1. /\ \A i, j \in DOMAIN stack : stack[i] = <<"fire", q>> /\ stack[j] = <<"fire", q>> => i = j
        /\ (\E i \in DOMAIN stack : stack[i] = <<"fire", q>>)
              <=> graph.prog[q].arity > 0 /\ InPorts(graph, q) \subseteq DOMAIN filled
    BY DEF OneTokenEach
  <2>2. \A i, j \in DOMAIN fr : fr[i] = <<"fire", q>> /\ fr[j] = <<"fire", q>> => i = j
    BY <1>1, <2>1
  <2>3. CASE q = o
    <3>1. \A i \in DOMAIN fr : fr[i] # <<"fire", o>>
      BY <1>1, <1>2, <2>1, <2>3
    <3> QED BY <1>4, <1>5, <2>2, <2>3, <3>1
  <2>4. CASE q # o
    <3>1. (\E i \in DOMAIN stack : stack[i] = <<"fire", q>>)
             <=> (\E i \in DOMAIN fr : fr[i] = <<"fire", q>>)
      <4>1. stack[m] # <<"fire", q>>
        BY <1>2, <2>4
      <4> QED BY <1>1, <4>1
    <3>2. InPorts(graph, q) \cap InPorts(graph, o) = {}
      BY <2>4 DEF InPorts
    <3>3. InPorts(graph, q) \subseteq DOMAIN Cleared(o) <=> InPorts(graph, q) \subseteq DOMAIN filled
      BY <1>5, <3>2
    <3> QED BY <2>1, <2>2, <3>1, <3>3
  <2> QED BY <2>3, <2>4
<1>7. OneTokenEach(fr, Cleared(o))
  BY <1>6 DEF OneTokenEach
<1> QED BY <1>1, <1>2, <1>3, <1>7 DEF fr

\* Value tokens on top change no Fire token.
LEMMA PushValues ==
    ASSUME NEW base \in Seq(Token), NEW f, OneTokenEach(base, f),
           NEW n \in Nat, NEW outs \in [1..n -> Value],
           NEW s, s = base \o [i \in 1..n |-> <<"value", outs[i]>>]
    PROVE  s \in Seq(Token) /\ OneTokenEach(s, f)
<1> DEFINE m == Len(base)
           tokens == [i \in 1..n |-> <<"value", outs[i]>>]
<1>1. tokens \in Seq(Token) /\ Len(tokens) = n
  <2>1. \A i \in 1..n : tokens[i] \in Token
    BY DEF Token
  <2> QED BY <2>1
<1>2. \A i \in 1..n : \A o : tokens[i] # <<"fire", o>>
  OBVIOUS
<1> HIDE DEF tokens
<1>3. /\ s \in Seq(Token)
      /\ m \in Nat
      /\ DOMAIN s = 1..(m + n) /\ DOMAIN base = 1..m
      /\ \A i \in 1..m : s[i] = base[i]
      /\ \A i \in (m + 1)..(m + n) : s[i] = tokens[i - m]
  BY <1>1 DEF tokens
<1>4. \A i \in DOMAIN s : i \in DOMAIN base \/ \A o : s[i] # <<"fire", o>>
  <2> SUFFICES ASSUME NEW i \in 1..(m + n), i \notin 1..m
               PROVE  \A o : s[i] # <<"fire", o>>
    BY <1>3
  <2>1. i \in (m + 1)..(m + n) /\ i - m \in 1..n
    BY <1>3
  <2> QED BY <1>2, <1>3, <2>1
<1>5. \A i \in DOMAIN base : i \in DOMAIN s /\ s[i] = base[i]
  BY <1>3
<1>6. s \in Seq(Token)
  BY <1>3
<1> HIDE DEF m
<1>7. ASSUME NEW o \in DOMAIN graph.prog
      PROVE  /\ \A i, j \in DOMAIN s : s[i] = <<"fire", o>> /\ s[j] = <<"fire", o>> => i = j
             /\ (\E i \in DOMAIN s : s[i] = <<"fire", o>>)
                  <=> graph.prog[o].arity > 0 /\ InPorts(graph, o) \subseteq DOMAIN f
  <2>1. /\ \A i, j \in DOMAIN base : base[i] = <<"fire", o>> /\ base[j] = <<"fire", o>> => i = j
        /\ (\E i \in DOMAIN base : base[i] = <<"fire", o>>)
              <=> graph.prog[o].arity > 0 /\ InPorts(graph, o) \subseteq DOMAIN f
    BY DEF OneTokenEach
  <2>2. (\E i \in DOMAIN s : s[i] = <<"fire", o>>)
            <=> (\E i \in DOMAIN base : base[i] = <<"fire", o>>)
    BY ONLY <1>4, <1>5
  <2>3. \A i, j \in DOMAIN s : s[i] = <<"fire", o>> /\ s[j] = <<"fire", o>> => i = j
    BY ONLY <1>4, <1>5, <2>1
  <2> QED BY <2>1, <2>2, <2>3
<1> QED BY <1>6, <1>7 DEF OneTokenEach

-----------------------------------------------------------------------------
(* The inductive invariant, over every graph, seed, budget and predicate.   *)

Inv ==
    /\ graph \in Graphs
    /\ Wired(graph) => /\ stack \in Seq(Token)
                       /\ OneTokenEach(stack, filled)
                       /\ status \notin {"InputNotFilled", "MissingOp"}

\* On a wired graph the deliveries of one loop never meet a missing program.
LEMMA NeverAborts ==
    ASSUME NEW D, Deliveries(D), NEW f
    PROVE  ~Aborts(D, f)
<1>1. \A d \in Accepted(D, f) : \E o \in DOMAIN graph.prog : d.to \in InPorts(graph, o)
  BY AcceptedFacts DEF Deliveries
<1> QED BY <1>1 DEF Aborts, InPorts

\* The dispatcher starts within its invariant.
LEMMA InitInv == Init => Inv
<1> SUFFICES ASSUME Init PROVE Inv
  OBVIOUS
<1>1. graph \in Graphs /\ stack = <<>> /\ filled = <<>> /\ status = "New"
  BY DEF Init
<1>2. stack \in Seq(Token)
  BY <1>1
<1>3. OneTokenEach(stack, filled)
  <2> SUFFICES ASSUME NEW o \in DOMAIN graph.prog, graph.prog[o].arity > 0
               PROVE  ~(InPorts(graph, o) \subseteq DOMAIN filled)
    BY <1>1 DEF OneTokenEach
  <2>1. graph.prog[o].arity \in Nat
    BY <1>1, GraphAssumption
  <2>2. <<o, 0>> \in InPorts(graph, o)
    BY <2>1 DEF InPorts
  <2> QED BY <1>1, <2>2
<1> QED BY <1>1, <1>2, <1>3 DEF Inv

\* Seeding keeps the invariant.
LEMMA SeedInv ==
    ASSUME Inv, Wired(graph), NEW v \in Seeds, seed_value(v)
    PROVE  Inv'
<1>1. /\ graph' = graph /\ filled' = filled /\ status' = status
      /\ stack' = Append(stack, <<"value", v>>)
  BY DEF seed_value
<1>2. v \in Value
  BY GraphAssumption
<1> DEFINE outs == [i \in 1..1 |-> v]
<1>3. stack' = stack \o [i \in 1..1 |-> <<"value", outs[i]>>]
  BY <1>1 DEF Inv
<1>4. outs \in [1..1 -> Value]
  BY <1>2
<1> HIDE DEF outs
<1>5. stack' \in Seq(Token) /\ OneTokenEach(stack', filled)
  BY <1>3, <1>4, PushValues DEF Inv
<1> QED BY <1>1, <1>5 DEF Inv, OneTokenEach, Token

\* Routing a value to its consumers keeps the invariant.
LEMMA RouteInv ==
    ASSUME Inv, Wired(graph), route_value
    PROVE  Inv'
<1> DEFINE v == Last(stack)[2]
           D == Offer(consumers_of(graph, <<"value", v>>), 0, v)
<1>1. /\ stack # <<>> /\ Last(stack)[1] = "value" /\ graph' = graph
      /\ Route(D, filled, Front(stack))
      /\ status' = IF Aborts(D, filled) THEN "MissingOp" ELSE status
  BY DEF route_value, Popped
<1>2. /\ v \in Value
      /\ Front(stack) \in Seq(Token)
      /\ OneTokenEach(Front(stack), filled)
  BY <1>1, PopValue DEF Inv
<1>3. Deliveries(D)
  BY <1>2, OneQueue, WiredQueues DEF Inv
<1>4. ~Aborts(D, filled)
  BY <1>3, NeverAborts
<1>5. \A o \in DOMAIN graph.prog : graph.prog[o].arity \in Nat
  BY GraphAssumption DEF Inv
<1> HIDE DEF D, v
<1>6. stack' \in Seq(Token) /\ OneTokenEach(stack', filled')
  BY <1>1, <1>2, <1>3, <1>5, RouteKeepsOneToken
<1> QED BY <1>1, <1>4, <1>6 DEF Inv, OneTokenEach, Token

\* What a program leaves are values, one for each of its outputs.
LEMMA OutcomeType ==
    ASSUME NEW prog, NEW o, NEW ins, NEW stored, NEW outs \in Outcome(prog, o, ins, stored)
    PROVE  outs \in [1..prog[o].outputs -> Value]
BY DEF Outcome, Evaluated

\* Firing an operation keeps the invariant.
LEMMA FireInv ==
    ASSUME Inv, Wired(graph), fire
    PROVE  Inv'
<1> DEFINE o == Last(stack)[2]
<1>1. /\ stack # <<>> /\ Last(stack)[1] = "fire" /\ graph' = graph
  BY DEF fire, FireReached, Popped
<1>2. /\ o \in DOMAIN graph.prog
      /\ Front(stack) \in Seq(Token)
      /\ OneTokenEach(Front(stack), Cleared(o))
  BY <1>1, PopFire DEF Inv
<1>3. PICK outs \in Outcome(graph.prog, o, Inputs(o), values) :
        LET D == Offers(o, outs)
        IN  /\ Route(D, Cleared(o),
                     Front(stack) \o [i \in DOMAIN outs |-> <<"value", outs[i]>>])
            /\ IF Aborts(D, Cleared(o)) THEN status' = "MissingOp" ELSE status' = status
  BY DEF fire
<1> DEFINE n == graph.prog[o].outputs
           D == Offers(o, outs)
           base == Front(stack) \o [i \in 1..n |-> <<"value", outs[i]>>]
<1>4. n \in Nat
  BY <1>2, GraphAssumption DEF Inv
<1>5. outs \in [1..n -> Value]
  BY <1>3, OutcomeType
<1>6. Deliveries(D)
  <2> HIDE DEF n, o
  <2> QED BY <1>4, <1>5, OutputQueue, WiredQueues DEF Inv
<1>7. ~Aborts(D, Cleared(o))
  BY <1>6, NeverAborts
<1>8. base \in Seq(Token) /\ OneTokenEach(base, Cleared(o))
  <2> HIDE DEF n, o
  <2> QED BY <1>2, <1>4, <1>5, PushValues
<1>9. Route(D, Cleared(o), base) /\ status' = status
  <2>1. DOMAIN outs = 1..n
    BY <1>5
  <2> QED BY <1>3, <1>7, <2>1
<1>10. \A q \in DOMAIN graph.prog : graph.prog[q].arity \in Nat
  BY GraphAssumption DEF Inv
<1> HIDE DEF D, base, n, o
<1>11. stack' \in Seq(Token) /\ OneTokenEach(stack', filled')
  BY <1>6, <1>8, <1>9, <1>10, RouteKeepsOneToken
<1> QED BY <1>1, <1>9, <1>11 DEF Inv, OneTokenEach, Token

\* A firing that fails keeps the invariant.
LEMMA FireFailsInv ==
    ASSUME Inv, Wired(graph), FireFails
    PROVE  Inv'
<1> DEFINE o == Last(stack)[2]
<1>1. /\ stack # <<>> /\ Last(stack)[1] = "fire" /\ graph' = graph
      /\ filled' = Cleared(o) /\ stack' = Front(stack) /\ status' = "EvalError"
  BY DEF FireFails, FireReached, Popped
<1>2. Front(stack) \in Seq(Token) /\ OneTokenEach(Front(stack), Cleared(o))
  BY <1>1, PopFire DEF Inv
<1> HIDE DEF o
<1> QED BY <1>1, <1>2 DEF Inv, OneTokenEach, Token

\* A Fire token never meets an empty port.
LEMMA NeverStarved ==
    ASSUME Inv, Wired(graph)
    PROVE  ~FireStarved
<1> SUFFICES ASSUME FireStarved PROVE FALSE
  OBVIOUS
<1>1. stack # <<>> /\ Last(stack)[1] = "fire"
  BY DEF FireStarved, FireReached, Popped
<1>2. InPorts(graph, Last(stack)[2]) \subseteq DOMAIN filled
  BY <1>1, PopFire DEF Inv
<1> QED BY <1>2 DEF FireStarved

\* Every step does.
LEMMA NextInv == Inv /\ [Next]_vars => Inv'
<1> SUFFICES ASSUME Inv, [Next]_vars PROVE Inv'
  OBVIOUS
<1>1. graph' = graph
  BY DEF Next, vars, seed_value, run_until, Pop, Drained, route_value, fire, FireStarved,
         FireFails, StopAtFire
<1>2. CASE ~Wired(graph)
  BY <1>1, <1>2 DEF Inv, Wired
<1>3. CASE Wired(graph)
  <2>1. CASE \E v \in Seeds : seed_value(v)
    BY <1>3, <2>1, SeedInv
  <2>2. CASE \E m \in graph.fires : run_until(m)
    BY <1>3, <2>2 DEF run_until, Inv, OneTokenEach, Token
  <2>3. CASE Drained
    BY <1>3, <2>3 DEF Drained, Inv, OneTokenEach, Token
  <2>4. CASE route_value
    BY <1>3, <2>4, RouteInv
  <2>5. CASE fire
    BY <1>3, <2>5, FireInv
  <2>6. CASE FireStarved
    BY <1>3, <2>6, NeverStarved
  <2>7. CASE FireFails
    BY <1>3, <2>7, FireFailsInv
  <2>8. CASE StopAtFire
    BY <1>3, <2>8 DEF StopAtFire, Inv, OneTokenEach, Token
  <2>9. CASE UNCHANGED vars
    BY <1>3, <2>9 DEF vars, Inv, OneTokenEach, Token
  <2> QED BY <2>1, <2>2, <2>3, <2>4, <2>5, <2>6, <2>7, <2>8, <2>9 DEF Next, Pop
<1> QED BY <1>2, <1>3

\* On every wired graph a program has a Fire token exactly while its ports are
\* all filled, one and no more, whatever is seeded, stopped, resumed or fails:
\* fire never meets InputNotFilled and no program is forgotten or fired twice.
THEOREM FireTokensExact == Spec => []FireIffReady
<1>1. Init => Inv
  BY InitInv
<1>2. Inv /\ [Next]_vars => Inv'
  BY NextInv
<1>3. Inv => FireIffReady
  BY DEF Inv, FireIffReady
<1> QED BY <1>1, <1>2, <1>3, PTL DEF Spec

-----------------------------------------------------------------------------
(* Bags of the values in flight.                                           *)

Held(s, v) == {i \in DOMAIN s : s[i] = <<"value", v>>}

Carried(s) == [v \in {u \in Value : Held(s, u) # {}} |-> Cardinality(Held(s, v))]

\* The values in flight are those the stack carries.
LEMMA InFlightCarried == InFlight = Carried(stack)
BY DEF InFlight, Carried, Held

\* A value is held at finitely many places of a stack.
LEMMA HeldFinite ==
    ASSUME NEW T, NEW s \in Seq(T), NEW v
    PROVE  /\ IsFiniteSet(Held(s, v)) /\ Cardinality(Held(s, v)) \in Nat
           /\ Cardinality(Held(s, v)) = 0 <=> Held(s, v) = {}
<1>1. IsFiniteSet(1..Len(s)) /\ Held(s, v) \in SUBSET (1..Len(s))
    <2>1. Len(s) \in Nat /\ DOMAIN s = 1..Len(s)
        OBVIOUS
    <2>2. IsFiniteSet(1..Len(s))
        BY <2>1, FS_Interval
    <2> QED BY <2>1, <2>2 DEF Held
<1>2. IsFiniteSet(Held(s, v))
    BY <1>1, FS_Subset
<1> QED
    BY <1>2, FS_CardinalityType, FS_EmptySet

\* The copies of a value in a concatenation.
LEMMA HeldConcat ==
    ASSUME NEW T, NEW s \in Seq(T), NEW t \in Seq(T), NEW v
    PROVE  Cardinality(Held(s \o t, v)) = Cardinality(Held(s, v)) + Cardinality(Held(t, v))
<1> DEFINE m == Len(s)
           n == Len(t)
           H == {m + i : i \in Held(t, v)}
           shift == [i \in Held(t, v) |-> m + i]
<1>1. /\ m \in Nat /\ n \in Nat /\ DOMAIN s = 1..m /\ DOMAIN t = 1..n
      /\ DOMAIN (s \o t) = 1..(m + n)
      /\ \A i \in 1..m : (s \o t)[i] = s[i]
      /\ \A i \in 1..n : (s \o t)[m + i] = t[i]
    OBVIOUS
<1>2. shift \in Bijection(Held(t, v), H)
    <2>1. \A i, j \in Held(t, v) : m + i = m + j => i = j
        BY <1>1 DEF Held
    <2> QED BY <2>1 DEF Bijection, Injection, Surjection, IsInjective
<1>3. IsFiniteSet(Held(t, v)) /\ IsFiniteSet(Held(s, v))
    BY HeldFinite
<1>4. IsFiniteSet(H) /\ Cardinality(H) = Cardinality(Held(t, v))
    <2> HIDE DEF H, shift
    <2> QED BY <1>2, <1>3, FS_Bijection DEF ExistsBijection
<1>5. Held(s, v) \intersect H = {}
    BY <1>1 DEF Held
<1>6. Held(s \o t, v) = Held(s, v) \union H
    <2>1. ASSUME NEW k \in 1..(m + n), k \notin 1..m
          PROVE  k - m \in 1..n /\ k = m + (k - m)
        BY <1>1, <2>1
    <2>2. Held(s \o t, v) \subseteq Held(s, v) \union H
        <3> SUFFICES ASSUME NEW k \in 1..(m + n), (s \o t)[k] = <<"value", v>>
                     PROVE  k \in Held(s, v) \union H
            BY <1>1 DEF Held
        <3>1. CASE k \in 1..m
            BY <1>1, <3>1 DEF Held
        <3>2. CASE k \notin 1..m
            <4>1. k - m \in 1..n /\ k = m + (k - m)
                BY <2>1, <3>2
            <4>2. k - m \in Held(t, v)
                BY <1>1, <4>1 DEF Held
            <4> QED BY <4>1, <4>2
        <3> QED BY <3>1, <3>2
    <2>3. Held(s, v) \subseteq Held(s \o t, v)
        BY <1>1 DEF Held
    <2>4. H \subseteq Held(s \o t, v)
        <3> SUFFICES ASSUME NEW i \in 1..n, t[i] = <<"value", v>>
                     PROVE  m + i \in 1..(m + n) /\ (s \o t)[m + i] = <<"value", v>>
            BY <1>1 DEF Held
        <3> QED BY <1>1
    <2> QED BY <2>2, <2>3, <2>4
<1>7. Cardinality(Held(s, v) \union H) = Cardinality(Held(s, v)) + Cardinality(H)
    <2> HIDE DEF H
    <2>1. Cardinality(Held(s, v) \intersect H) = 0
        BY <1>5, FS_EmptySet
    <2>2. Cardinality(Held(s, v) \union H)
            = Cardinality(Held(s, v)) + Cardinality(H) - Cardinality(Held(s, v) \intersect H)
        BY <1>3, <1>4, FS_Union
    <2>3. Cardinality(Held(s, v)) \in Nat /\ Cardinality(H) \in Nat
        BY <1>3, <1>4, FS_CardinalityType
    <2> QED BY <2>1, <2>2, <2>3
<1> QED
    BY <1>4, <1>6, <1>7

\* What one pushes on the stack is added to the bag.
LEMMA CarriedConcat ==
    ASSUME NEW T, NEW s \in Seq(T), NEW t \in Seq(T)
    PROVE  Carried(s \o t) = Carried(s) (+) Carried(t)
<1>1. \A v : /\ Cardinality(Held(s, v)) \in Nat /\ Cardinality(Held(t, v)) \in Nat
             /\ Cardinality(Held(s, v)) = 0 <=> Held(s, v) = {}
             /\ Cardinality(Held(t, v)) = 0 <=> Held(t, v) = {}
    BY HeldFinite
<1>2. \A v : /\ Cardinality(Held(s \o t, v)) = Cardinality(Held(s, v)) + Cardinality(Held(t, v))
             /\ Cardinality(Held(s \o t, v)) = 0 <=> Held(s \o t, v) = {}
    <2>1. s \o t \in Seq(T)
        OBVIOUS
    <2>2. \A v : Cardinality(Held(s \o t, v)) = 0 <=> Held(s \o t, v) = {}
        BY <2>1, HeldFinite
    <2>3. \A v : Cardinality(Held(s \o t, v)) = Cardinality(Held(s, v)) + Cardinality(Held(t, v))
        BY HeldConcat
    <2> QED BY <2>2, <2>3
<1> DEFINE c(v) == Cardinality(Held(s, v))
           d(v) == Cardinality(Held(t, v))
           e(v) == Cardinality(Held(s \o t, v))
<1>3. \A v : c(v) \in Nat /\ d(v) \in Nat /\ e(v) = c(v) + d(v)
    BY <1>1, <1>2
<1>4. /\ Carried(s) = [v \in {u \in Value : c(u) # 0} |-> c(v)]
      /\ Carried(t) = [v \in {u \in Value : d(u) # 0} |-> d(v)]
      /\ Carried(s \o t) = [v \in {u \in Value : e(u) # 0} |-> e(v)]
    BY <1>1, <1>2 DEF Carried
<1> HIDE DEF c, d, e
<1>5. {u \in Value : e(u) # 0} = {u \in Value : c(u) # 0} \union {u \in Value : d(u) # 0}
    BY <1>3
<1>6. \A v \in {u \in Value : e(u) # 0} :
        e(v) = (IF v \in {u \in Value : c(u) # 0} THEN c(v) ELSE 0)
               + (IF v \in {u \in Value : d(u) # 0} THEN d(v) ELSE 0)
    BY <1>3
<1> QED
    BY <1>4, <1>5, <1>6 DEF (+)

\* Fire tokens carry nothing.
LEMMA CarriedFires ==
    ASSUME NEW T, NEW s \in Seq(T), NEW t \in Seq(T), \A i \in DOMAIN t : t[i][1] = "fire"
    PROVE  Carried(s \o t) = Carried(s)
<1>1. \A v : Held(t, v) = {}
    BY DEF Held
<1>2. \A v : Cardinality(Held(t, v)) = 0
    BY <1>1, FS_EmptySet
<1>3. \A v : Cardinality(Held(s \o t, v)) = Cardinality(Held(s, v))
    BY <1>2, HeldConcat, HeldFinite
<1>4. \A v : Held(s \o t, v) = {} <=> Held(s, v) = {}
    <2>1. s \o t \in Seq(T)
        OBVIOUS
    <2> QED BY <1>3, <2>1, HeldFinite
<1> QED
    BY <1>3, <1>4 DEF Carried

\* The tokens of a sequence of values carry its bag.
LEMMA CarriedValues ==
    ASSUME NEW n \in Nat, NEW outs \in [1..n -> Value]
    PROVE  Carried([i \in 1..n |-> <<"value", outs[i]>>]) = ToBag(outs)
<1> DEFINE t == [i \in 1..n |-> <<"value", outs[i]>>]
<1>1. \A v : Held(t, v) = {i \in DOMAIN outs : outs[i] = v}
    BY DEF Held
<1>2. {u \in Value : Held(t, u) # {}} = Range(outs)
    BY <1>1 DEF Range
<1> HIDE DEF t
<1>3. Carried(t) = ToBag(outs)
    BY <1>1, <1>2 DEF Carried, ToBag
<1> QED
    BY <1>3 DEF t

\* One value token carries one value.
LEMMA CarriedOne ==
    ASSUME NEW v \in Value
    PROVE  Carried(<< <<"value", v>> >>) = SetToBag({v})
<1> DEFINE t == << <<"value", v>> >>
<1>1. \A u : Held(t, u) = IF u = v THEN {1} ELSE {}
    BY DEF Held
<1>2. Cardinality({1}) = 1
    BY FS_Singleton
<1>3. {u \in Value : Held(t, u) # {}} = {v}
    BY <1>1
<1> HIDE DEF t
<1>4. Carried(t) = [u \in {v} |-> 1]
    BY <1>1, <1>2, <1>3 DEF Carried
<1> QED
    BY <1>4 DEF t, SetToBag

\* What one pops is taken from the bag.
LEMMA CarriedPop ==
    ASSUME NEW T, NEW s \in Seq(T), NEW v \in Value, NEW B, B = Carried(s) (+) SetToBag({v})
    PROVE  /\ v \in DOMAIN B
           /\ B (-) SetToBag({v}) = Carried(s)
<1> DEFINE c(u) == Cardinality(Held(s, u))
           X == {u \in Value : c(u) # 0}
<1>1. \A u : c(u) \in Nat /\ (c(u) = 0 <=> Held(s, u) = {})
    BY HeldFinite
<1>2. Carried(s) = [u \in X |-> c(u)]
    BY <1>1 DEF Carried
<1> HIDE DEF c
<1>3. B = [u \in X \union {v} |-> (IF u \in X THEN c(u) ELSE 0) + (IF u = v THEN 1 ELSE 0)]
    BY <1>2 DEF (+), SetToBag
<1> DEFINE C == [u \in DOMAIN B |-> IF u \in {v} THEN B[u] - 1 ELSE B[u]]
<1>4. B (-) SetToBag({v}) = [u \in {d \in DOMAIN C : C[d] > 0} |-> C[u]]
    BY DEF (-), SetToBag
<1>5. \A u \in X \union {v} : C[u] = IF u \in X THEN c(u) ELSE 0
    BY <1>1, <1>3
<1>6. DOMAIN C = X \union {v}
    BY <1>3
<1> HIDE DEF C
<1>7. {d \in DOMAIN C : C[d] > 0} = X
    BY <1>1, <1>5, <1>6
<1>8. [u \in {d \in DOMAIN C : C[d] > 0} |-> C[u]] = [u \in X |-> c(u)]
    BY <1>5, <1>7
<1> QED
    BY <1>2, <1>3, <1>4, <1>8

-----------------------------------------------------------------------------
(* Routing, on any graph.                                                  *)

\* Of the deliveries of a set one comes first.
LEMMA FirstDelivery ==
    ASSUME NEW K, K \subseteq Delivery, IsFiniteSet(K), K # {}
    PROVE  \E d \in K : \A e \in K : ~Precedes(e, d)
<1> DEFINE Sooner(d) == {e \in K : Precedes(e, d)}
           T == {Sooner(d) : d \in K}
<1>1. IsWellFoundedOn(StrictSubsetOrdering(K), FiniteSubsetsOf(K))
  BY FS_StrictSubsetOrderingWellFounded
<1>2. T \subseteq FiniteSubsetsOf(K) /\ T # {}
  <2>1. FiniteSubsetsOf(K) = SUBSET K
    BY FS_FiniteSubsetsOfFinite
  <2>2. \A m \in T : m \in SUBSET K
    OBVIOUS
  <2>3. T # {}
    OBVIOUS
  <2> QED BY <2>1, <2>2, <2>3
<1>3. PICK m \in T : \A y \in T : <<y, m>> \notin StrictSubsetOrdering(K)
  <2> HIDE DEF T
  <2> QED BY <1>1, <1>2, WFMin
<1>4. PICK d \in K : m = Sooner(d)
  OBVIOUS
<1>5. ASSUME NEW e \in K, Precedes(e, d)
      PROVE  FALSE
  <2>1. Sooner(e) \subseteq Sooner(d)
    BY <1>5, PrecedesTransitive
  <2>2. e \in Sooner(d) /\ e \notin Sooner(e)
    BY <1>5, PrecedesOrder
  <2>3. <<Sooner(e), Sooner(d)>> \in StrictSubsetOrdering(K)
    BY <2>1, <2>2 DEF StrictSubsetOrdering
  <2> QED BY <2>3, <1>3, <1>4
<1> QED BY <1>5

\* A loop that meets no missing program fills every port that it reaches and that
\* was empty, with a value that is delivered to it.
LEMMA RouteFills ==
    ASSUME NEW D, Queue(D), NEW f, ~Aborts(D, f), NEW A, A = Accepted(D, f)
    PROVE  /\ A \subseteq D
           /\ {d.to : d \in A} = {d.to : d \in D} \ DOMAIN f
           /\ \A d \in A : d.to[1] \in DOMAIN graph.prog
<1> DEFINE first == {d \in D : /\ d.to \notin DOMAIN f
                              /\ \A e \in D : e.to = d.to => ~Precedes(e, d)}
           bad == {d \in first : d.to[1] \notin DOMAIN graph.prog}
<1>1. A = {d \in first : \A e \in first : Precedes(e, d) => e.to[1] \in DOMAIN graph.prog}
  BY DEF Accepted
<1>2. \A K \in SUBSET D : K \subseteq Delivery /\ IsFiniteSet(K)
  BY FS_Subset DEF Queue
<1>3. bad = {}
  <2> SUFFICES ASSUME bad # {}
               PROVE  FALSE
    OBVIOUS
  <2>1. PICK d \in bad : \A e \in bad : ~Precedes(e, d)
    <3>1. bad \in SUBSET D
      OBVIOUS
    <3> HIDE DEF bad
    <3> QED BY <1>2, <3>1, FirstDelivery
  <2>2. d \in A
    BY <1>1, <2>1
  <2> QED BY <2>1, <2>2 DEF Aborts
<1>4. A = first
  BY <1>1, <1>3
<1>5. ASSUME NEW d \in D, d.to \notin DOMAIN f
      PROVE  \E e \in first : e.to = d.to
  <2> DEFINE K == {e \in D : e.to = d.to}
  <2>1. K \in SUBSET D /\ K # {}
    OBVIOUS
  <2>2. PICK e \in K : \A x \in K : ~Precedes(x, e)
    <3> HIDE DEF K
    <3> QED BY <1>2, <2>1, FirstDelivery
  <2>3. e \in first
    BY <1>5, <2>2
  <2> QED BY <2>2, <2>3
<1>6. {d.to : d \in first} \subseteq {d.to : d \in D} \ DOMAIN f
  OBVIOUS
<1>7. {d.to : d \in D} \ DOMAIN f \subseteq {d.to : d \in first}
  <2> SUFFICES ASSUME NEW d \in D, d.to \notin DOMAIN f
               PROVE  d.to \in {e.to : e \in first}
    OBVIOUS
  <2>1. PICK e \in first : e.to = d.to
    BY <1>5
  <2> QED BY <2>1
<1>8. \A d \in first : d.to[1] \in DOMAIN graph.prog
  BY <1>3
<1> HIDE DEF first, bad
<1>9. A \subseteq D
  BY <1>4, <1>1 DEF first
<1> QED BY <1>4, <1>6, <1>7, <1>8, <1>9

\* A loop pushes the Fire tokens of the programs it triggers, and no others.
LEMMA RoutePushes ==
    ASSUME NEW D, Queue(D), NEW f, NEW base, Route(D, f, base)
    PROVE  \E fires \in Seq({"fire"} \X DOMAIN graph.prog) :
              /\ stack' = base \o fires
              /\ \A d \in Triggers(f, Accepted(D, f)) :
                    \E i \in DOMAIN fires : fires[i] = <<"fire", d.to[1]>>
<1> DEFINE T == Triggers(f, Accepted(D, f))
           n == Cardinality(T)
<1>1. PICK s \in SetToSeqs(T) : stack' = base \o [i \in DOMAIN s |-> <<"fire", s[i].to[1]>>]
  BY DEF Route
<1> DEFINE fires == [i \in 1..n |-> <<"fire", s[i].to[1]>>]
<1>2. IsFiniteSet(T)
  <2>1. T \in SUBSET D
    BY AcceptedFacts DEF Triggers
  <2> QED BY <2>1, FS_Subset DEF Queue
<1>3. \A d \in T : d.to[1] \in DOMAIN graph.prog
  BY DEF Triggers
<1>4. /\ n \in Nat
      /\ s \in [1..n -> T]
      /\ \A t \in T : \E i \in 1..n : s[i] = t
  <2> HIDE DEF T
  <2> QED BY <1>2, ListsAll
<1> HIDE DEF T, n
<1>5. \A i \in 1..n : fires[i] \in {"fire"} \X DOMAIN graph.prog
  BY <1>3, <1>4
<1>6. fires \in Seq({"fire"} \X DOMAIN graph.prog) /\ DOMAIN fires = 1..n
  BY <1>4, <1>5
<1>7. stack' = base \o fires
  BY <1>1, <1>4
<1>8. \A d \in T : \E i \in DOMAIN fires : fires[i] = <<"fire", d.to[1]>>
  BY <1>4
<1> HIDE DEF fires
<1> QED BY <1>6, <1>7, <1>8 DEF T

\* A program that is ready has a Fire token.
Live(s, f) ==
    \A o \in DOMAIN graph.prog :
        graph.prog[o].arity > 0 /\ Full(o, f) => \E i \in DOMAIN s : s[i] = <<"fire", o>>

\* Offering deliveries leaves the stack live and carrying what it carried.
LEMMA RouteLive ==
    ASSUME NEW D, Queue(D), NEW f, NEW base \in Seq(Token), Live(base, f), Route(D, f, base)
    PROVE  /\ stack' \in Seq(Token) /\ Live(stack', filled')
           /\ Carried(stack') = Carried(base)
<1> DEFINE A == Accepted(D, f)
           F == {"fire"} \X DOMAIN graph.prog
<1>1. PICK fires \in Seq(F) :
        /\ stack' = base \o fires
        /\ \A d \in Triggers(f, A) : \E i \in DOMAIN fires : fires[i] = <<"fire", d.to[1]>>
  BY RoutePushes
<1>2. fires \in Seq(Token)
  BY DEF Token
<1> DEFINE m == Len(base)
           n == Len(fires)
<1>3. /\ m \in Nat /\ n \in Nat /\ DOMAIN base = 1..m /\ DOMAIN fires = 1..n
      /\ DOMAIN stack' = 1..(m + n)
      /\ \A i \in 1..m : stack'[i] = base[i]
      /\ \A i \in 1..n : stack'[m + i] = fires[i]
  BY <1>1, <1>2
<1>4. \A i \in 1..m : i \in 1..(m + n)
  BY <1>3
<1>5. \A i \in 1..n : m + i \in 1..(m + n)
  BY <1>3
<1>6. filled' = FilledWith(f, A)
  BY DEF Route
<1> HIDE DEF m, n, A
<1>7. Live(stack', filled')
  <2> SUFFICES ASSUME NEW o \in DOMAIN graph.prog, graph.prog[o].arity > 0, Full(o, filled')
               PROVE  \E i \in DOMAIN stack' : stack'[i] = <<"fire", o>>
    BY DEF Live
  <2>1. CASE Full(o, f)
    <3>1. PICK i \in DOMAIN base : base[i] = <<"fire", o>>
      BY <2>1 DEF Live
    <3> QED BY <1>3, <1>4, <3>1
  <2>2. CASE ~Full(o, f)
    <3>1. PICK d \in Triggers(f, A) : d.to[1] = o
      BY <1>6, <2>2, BecomesFull DEF A
    <3>2. PICK i \in DOMAIN fires : fires[i] = <<"fire", o>>
      BY <1>1, <3>1 DEF A
    <3> QED BY <1>3, <1>5, <3>2
  <2> QED BY <2>1, <2>2
<1>8. Carried(stack') = Carried(base)
  <2>1. \A i \in DOMAIN fires : fires[i][1] = "fire"
    OBVIOUS
  <2> QED BY <1>1, <1>2, <2>1, CarriedFires
<1>9. stack' \in Seq(Token)
  BY <1>1, <1>2
<1> QED BY <1>7, <1>8, <1>9

-----------------------------------------------------------------------------
(* The dispatcher implements the dataflow.                                 *)

\* On any graph the tokens are values and programs, and a ready program has a
\* token as long as nothing failed.
FlowInv ==
    /\ graph \in Graphs
    /\ status \in Errors \union Stopped \union {"running"}
    /\ stack \in Seq(Token)
    /\ status \notin Errors => Live(stack, filled)

\* The initial states are initial states of the data flow.
LEMMA InitFlow == Init => FlowInv /\ Flow!Init
<1> SUFFICES ASSUME Init PROVE FlowInv /\ Flow!Init
  OBVIOUS
<1>1. /\ graph \in Graphs /\ stack = <<>> /\ filled = <<>> /\ status = "New"
      /\ values = graph.literals /\ log = <<>>
  BY DEF Init
<1>2. DOMAIN <<>> = {}
  OBVIOUS
<1>3. Live(stack, filled)
  <2> SUFFICES ASSUME NEW o \in DOMAIN graph.prog, graph.prog[o].arity > 0
               PROVE  ~Full(o, filled)
    BY DEF Live
  <2>1. graph.prog[o].arity \in Nat
    BY <1>1, GraphAssumption
  <2>2. <<o, 0>> \in InPorts(graph, o)
    BY <2>1 DEF InPorts
  <2> QED BY <1>1, <1>2, <2>2 DEF Full
<1>4. FlowInv
  BY <1>1, <1>3 DEF FlowInv, Stopped
<1>5. InFlight = EmptyBag
  <2>1. \A v : Held(stack, v) = {}
    BY <1>1, <1>2 DEF Held
  <2>2. {u \in Value : Held(stack, u) # {}} = {}
    BY <2>1
  <2>3. Carried(stack) = [v \in {} |-> Cardinality(Held(stack, v))]
    BY <2>2 DEF Carried
  <2>4. Carried(stack) = [e \in {} |-> 1]
    BY <2>3
  <2> QED BY <2>4, InFlightCarried DEF EmptyBag, SetToBag
<1>6. EmptyBag = Flow!EmptyBag
  BY DEF EmptyBag, SetToBag, Flow!EmptyBag, Flow!SetToBag
<1>7. Flow!Init
  BY <1>1, <1>5, <1>6 DEF Flow!Init, Errors
<1> QED BY <1>4, <1>7

\* Appending is concatenating a sequence of one.
LEMMA AppendOne ==
    ASSUME NEW T, NEW s \in Seq(T), NEW x \in T
    PROVE  <<x>> \in Seq(T) /\ Append(s, x) = s \o <<x>>
<1> DEFINE t == [i \in 1..1 |-> x]
<1>1. Append(s, x) = s \o t
  OBVIOUS
<1>2. <<x>> = t
  OBVIOUS
<1>3. <<x>> \in Seq(T)
  OBVIOUS
<1> HIDE DEF t
<1> QED BY <1>1, <1>2, <1>3

\* Seeding injects a value.
LEMMA SeedFlow ==
    ASSUME FlowInv, NEW v \in Seeds, seed_value(v)
    PROVE  FlowInv' /\ Flow!Inject(v)
<1>1. /\ status \in Stopped /\ stack' = Append(stack, <<"value", v>>)
      /\ UNCHANGED <<graph, values, filled, log, status>>
  BY DEF seed_value
<1>2. v \in Value
  BY GraphAssumption
<1> DEFINE t == << <<"value", v>> >>
<1>3. t \in Seq(Token) /\ stack' = stack \o t
  <2>1. <<"value", v>> \in Token
    BY <1>2 DEF Token
  <2>2. stack \in Seq(Token)
    BY DEF FlowInv
  <2> QED BY <1>1, <2>1, <2>2, AppendOne
<1>4. Carried(stack') = Carried(stack) (+) SetToBag({v})
  <2>1. Carried(stack \o t) = Carried(stack) (+) Carried(t)
    BY <1>3, CarriedConcat DEF FlowInv
  <2> QED BY <1>2, <1>3, <2>1, CarriedOne
<1>5. InFlight' = Flow!(+)(InFlight, Flow!SetToBag({v}))
  <2>1. InFlight' = Carried(stack')
    BY DEF InFlight, Carried, Held
  <2>2. Carried(stack) (+) SetToBag({v}) = Flow!(+)(Carried(stack), Flow!SetToBag({v}))
    BY DEF (+), SetToBag, Flow!(+), Flow!SetToBag
  <2> QED BY <1>4, <2>1, <2>2, InFlightCarried
<1>6. stack' # <<>>
  BY <1>1 DEF FlowInv
<1>7. Live(stack', filled')
  <2>1. Live(stack, filled) /\ DOMAIN stack \subseteq DOMAIN stack'
        /\ \A i \in DOMAIN stack : stack'[i] = stack[i]
    BY <1>1, <1>3 DEF FlowInv, Errors, Stopped
  <2> QED BY <1>1, <2>1 DEF Live, Full, InPorts
<1>8. stack' \in Seq(Token)'
  BY <1>1, <1>3 DEF FlowInv, Token
<1>9. FlowInv'
  BY <1>1, <1>7, <1>8 DEF FlowInv, Live, Full, InPorts
<1>10. (status = "Quiescence" /\ stack = <<>>)' = FALSE
  BY <1>6
<1>11. ~(status \in Errors)
  BY <1>1 DEF Errors, Stopped
<1>12. (status \in Errors)' = (status \in Errors)
  BY <1>1
<1> HIDE DEF t
<1> QED BY <1>1, <1>5, <1>9, <1>10, <1>11, <1>12 DEF Flow!Inject

\* An empty stack finishes the flow.
LEMMA DrainFlow ==
    ASSUME FlowInv, Drained
    PROVE  FlowInv' /\ Flow!Finish
<1>1. /\ status = "running" /\ stack = <<>> /\ status' = "Quiescence"
      /\ UNCHANGED <<graph, values, stack, filled, log>>
  BY DEF Drained
<1>2. Live(stack, filled) /\ DOMAIN stack = {}
  BY <1>1 DEF FlowInv, Errors
<1>3. \A o \in DOMAIN graph.prog : graph.prog[o].arity > 0 => ~Flow!Ready(o)
  BY <1>2 DEF Live, Full, Flow!Ready, InPorts, Flow!InPorts
<1>4. InFlight = Flow!EmptyBag
  <2>1. \A v : {i \in DOMAIN stack : stack[i] = <<"value", v>>} = {}
    BY <1>2
  <2>2. InFlight = [e \in {} |-> 1]
    BY <2>1 DEF InFlight
  <2> QED BY <2>2 DEF Flow!EmptyBag, Flow!SetToBag
<1>5. InFlight' = InFlight
  BY <1>1 DEF InFlight
<1>6. FlowInv'
  BY <1>1, <1>2 DEF FlowInv, Live, Full, InPorts, Token, Stopped
<1> QED BY <1>1, <1>3, <1>4, <1>5, <1>6 DEF Flow!Finish, Errors

\* Taking the top token loses no other Fire token.
LEMMA TokenFlow ==
    ASSUME FlowInv, stack # <<>>, NEW top, top = Last(stack)
    PROVE  /\ Front(stack) \in Seq(Token) /\ top \in Token
           /\ stack = Front(stack) \o <<top>>
           /\ \A o : top # <<"fire", o>> =>
                 ((\E i \in DOMAIN stack : stack[i] = <<"fire", o>>)
                    => \E i \in DOMAIN Front(stack) : Front(stack)[i] = <<"fire", o>>)
<1> DEFINE m == Len(stack)
           fr == Front(stack)
<1>1. /\ fr \in Seq(Token)
      /\ \A i \in DOMAIN fr : i \in DOMAIN stack /\ i # m /\ fr[i] = stack[i]
      /\ \A i \in DOMAIN stack : i = m \/ i \in DOMAIN fr
      /\ m \in DOMAIN stack /\ top = stack[m] /\ top \in Token
  BY FrontTokens DEF FlowInv
<1>2. stack = fr \o <<top>>
  <2>1. stack \in Seq(Token) /\ m \in Nat \ {0}
    BY DEF FlowInv
  <2>2. fr = [i \in 1..(m - 1) |-> stack[i]]
    BY <2>1 DEF Front
  <2>3. Len(fr) = m - 1 /\ fr \in Seq(Token)
    BY <1>1, <2>1, <2>2
  <2>4. <<top>> \in Seq(Token) /\ Len(<<top>>) = 1 /\ <<top>>[1] = top
    BY <1>1
  <2> HIDE DEF fr
  <2>5. Len(fr \o <<top>>) = m /\ fr \o <<top>> \in Seq(Token)
    BY <2>1, <2>3, <2>4
  <2>6. \A i \in 1..m : (fr \o <<top>>)[i] = stack[i]
    <3> SUFFICES ASSUME NEW i \in 1..m
                 PROVE  (fr \o <<top>>)[i] = stack[i]
      OBVIOUS
    <3>1. CASE i = m
      BY <1>1, <2>1, <2>3, <2>4, <3>1
    <3>2. CASE i # m
      <4>1. i \in 1..(m - 1)
        BY <2>1, <3>2
      <4> QED BY <1>1, <2>2, <2>3, <2>4, <4>1 DEF fr
    <3> QED BY <3>1, <3>2
  <2> QED BY <2>1, <2>5, <2>6
<1> QED BY <1>1, <1>2

\* Routing delivers a value of the flow, or fails.
LEMMA RouteFlow ==
    ASSUME FlowInv, route_value
    PROVE  FlowInv' /\ (Flow!Fail \/ \E v \in Value : Flow!Deliver(v))
<1> DEFINE top == Last(stack)
           v == top[2]
           D == Offer(consumers_of(graph, <<"value", v>>), 0, v)
           A == Accepted(D, filled)
<1>1. /\ status = "running" /\ stack # <<>> /\ top[1] = "value"
      /\ Route(D, filled, Front(stack))
      /\ status' = IF Aborts(D, filled) THEN "MissingOp" ELSE status
      /\ UNCHANGED <<graph, values, log>>
  BY DEF route_value, Popped
<1>2. /\ Front(stack) \in Seq(Token) /\ top \in Token
      /\ stack = Front(stack) \o <<top>>
      /\ \A o : top # <<"fire", o>> =>
            ((\E i \in DOMAIN stack : stack[i] = <<"fire", o>>)
               => \E i \in DOMAIN Front(stack) : Front(stack)[i] = <<"fire", o>>)
  BY <1>1, TokenFlow
<1>3. v \in Value /\ top = <<"value", v>>
  BY <1>1, <1>2 DEF Token
<1>4. Live(Front(stack), filled)
  <2>1. \A o : top # <<"fire", o>>
    BY <1>3
  <2>2. Live(stack, filled)
    BY <1>1 DEF FlowInv, Errors
  <2> QED BY <1>2, <2>1, <2>2 DEF Live
<1>5. Queue(D)
  BY <1>3, OneQueue DEF FlowInv
<1> HIDE DEF top, v
<1>6. /\ stack' \in Seq(Token) /\ Live(stack', filled')
      /\ Carried(stack') = Carried(Front(stack))
  <2> HIDE DEF D
  <2> QED BY <1>1, <1>2, <1>4, <1>5, RouteLive
<1>7. FlowInv'
  BY <1>1, <1>6 DEF FlowInv, Token, Live, Full, InPorts, Errors
<1>8. CASE Aborts(D, filled)
  BY <1>1, <1>7, <1>8 DEF Flow!Fail, Errors
<1>9. CASE ~Aborts(D, filled)
  <2>1. /\ A \subseteq D
        /\ {d.to : d \in A} = {d.to : d \in D} \ DOMAIN filled
    BY <1>5, <1>9, RouteFills
  <2>2. {d.to : d \in D} = consumers_of(graph, <<"value", v>>) /\ \A d \in D : d.value = v
    <3>1. PICK P : P = consumers_of(graph, <<"value", v>>)
      OBVIOUS
    <3>2. D = {[rank |-> 0, to |-> p, value |-> v] : p \in P}
      BY <3>1 DEF Offer
    <3> HIDE DEF D
    <3>3. \A d \in D : d.to \in P /\ d.value = v
      BY <3>2
    <3>4. \A p \in P : \E d \in D : d.to = p
      <4> SUFFICES ASSUME NEW p \in P
                   PROVE  \E d \in D : d.to = p
        OBVIOUS
      <4>1. [rank |-> 0, to |-> p, value |-> v] \in D
        BY <3>2
      <4> QED BY <4>1
    <3> QED BY <3>1, <3>3, <3>4
  <2>3. filled' = FilledWith(filled, A)
    BY <1>1 DEF Route
  <2> HIDE DEF A, D
  <2>4. filled' = [p \in DOMAIN filled \cup consumers_of(graph, <<"value", v>>) |->
                      IF p \in DOMAIN filled THEN filled[p] ELSE v]
    <3>1. DOMAIN filled \cup {d.to : d \in A} = DOMAIN filled \cup consumers_of(graph, <<"value", v>>)
      BY <2>1, <2>2
    <3>2. \A p \in {d.to : d \in A} : (CHOOSE d \in A : d.to = p).value = v
      BY <2>1, <2>2
    <3> QED BY <2>3, <3>1, <3>2 DEF FilledWith
  <2>5. InFlight = Carried(Front(stack)) (+) SetToBag({v})
    <3>1. <<top>> \in Seq(Token)
      BY <1>2
    <3>2. Carried(stack) = Carried(Front(stack)) (+) Carried(<<top>>)
      BY <1>2, <3>1, CarriedConcat
    <3> QED BY <1>3, <3>2, CarriedOne, InFlightCarried
  <2>6. v \in DOMAIN InFlight /\ InFlight (-) SetToBag({v}) = Carried(Front(stack))
    BY <1>2, <1>3, <2>5, CarriedPop
  <2>7. InFlight' = Flow!(-)(InFlight, Flow!SetToBag({v}))
    <3>1. InFlight' = Carried(stack')
      BY DEF InFlight, Carried, Held
    <3>2. InFlight (-) SetToBag({v}) = Flow!(-)(InFlight, Flow!SetToBag({v}))
      BY DEF (-), SetToBag, Flow!(-), Flow!SetToBag
    <3> QED BY <1>6, <2>6, <3>1, <3>2
  <2>8. Flow!BagIn(v, InFlight)
    BY <2>6 DEF Flow!BagIn, Flow!BagToSet
  <2>9. consumers_of(graph, <<"value", v>>) = Flow!consumers_of(graph, <<"value", v>>)
    BY DEF consumers_of, Flow!consumers_of
  <2>10. /\ ~(status \in Errors) /\ ~(status = "Quiescence" /\ stack = <<>>)
         /\ (status \in Errors)' = (status \in Errors)
         /\ (status = "Quiescence" /\ stack = <<>>)' = (status = "Quiescence" /\ stack = <<>>)
    BY <1>1, <1>9 DEF Errors
  <2>11. Flow!Deliver(v)
    BY <1>1, <2>4, <2>7, <2>8, <2>9, <2>10 DEF Flow!Deliver
  <2> QED BY <1>3, <1>7, <2>11
<1> QED BY <1>7, <1>8, <1>9

\* The definitions that the dataflow shares.
LEMMA FlowOutcome ==
    ASSUME NEW prog, NEW o, NEW ins, NEW stored
    PROVE  Flow!Outcome(prog, o, ins, stored) = Outcome(prog, o, ins, stored)
BY DEF Flow!Outcome, Outcome, Flow!Evaluated, Evaluated, Flow!Inlined, Inlined, Flow!After, After,
       Flow!Needs, Needs, Flow!Binary, Binary, Flow!exists_c, exists_c, Flow!forall_c, forall_c,
       Flow!Coord, Coord, Flow!Value, Value, Flow!Plane, Plane, Flow!FlattenSeq, FlattenSeq,
       Flow!ToSet, ToSet, Flow!Front, Front, Flow!Last, Last

\* Popping the Fire token of o and clearing its ports leaves a token for every program
\* that is still ready.
LEMMA ClearedLive ==
    ASSUME FlowInv, stack # <<>>, Live(stack, filled),
           NEW o \in DOMAIN graph.prog, Last(stack) = <<"fire", o>>,
           NEW t, t \in Seq(Token)
    PROVE  Live(Front(stack) \o t, Cleared(o))
<1> DEFINE fr == Front(stack)
<1>1. /\ fr \in Seq(Token)
      /\ \A q : q # o => ((\E i \in DOMAIN stack : stack[i] = <<"fire", q>>)
                             => \E i \in DOMAIN fr : fr[i] = <<"fire", q>>)
  <2>1. \A q : q # o => Last(stack) # <<"fire", q>>
    OBVIOUS
  <2> QED BY <2>1, TokenFlow
<1> HIDE DEF fr
<1>2. \A i \in DOMAIN fr : i \in DOMAIN (fr \o t) /\ (fr \o t)[i] = fr[i]
  BY <1>1
<1>3. DOMAIN Cleared(o) = DOMAIN filled \ InPorts(graph, o)
  BY DEF Cleared
<1> SUFFICES ASSUME NEW q \in DOMAIN graph.prog, graph.prog[q].arity > 0, Full(q, Cleared(o))
             PROVE  \E i \in DOMAIN (fr \o t) : (fr \o t)[i] = <<"fire", q>>
  BY DEF Live, fr
<1>4. q # o
  <2>1. graph.prog[q].arity \in Nat
    BY GraphAssumption DEF FlowInv
  <2>2. <<q, 0>> \in InPorts(graph, q)
    BY <2>1 DEF InPorts
  <2> QED BY <1>3, <2>2 DEF Full
<1>5. Full(q, filled)
  BY <1>3 DEF Full
<1>6. PICK i \in DOMAIN fr : fr[i] = <<"fire", q>>
  BY <1>1, <1>4, <1>5 DEF Live
<1> QED BY <1>2, <1>6

\* Firing is a firing of the flow, or fails.
LEMMA FireFlow ==
    ASSUME FlowInv, fire
    PROVE  /\ FlowInv'
           /\ Flow!Fail \/ \E o \in DOMAIN graph.prog : Last(stack) = <<"fire", o>> /\ Flow!Fire(o)
<1> DEFINE top == Last(stack)
           o == top[2]
           fr == Front(stack)
<1>1. /\ status = "running" /\ stack # <<>> /\ top[1] = "fire"
      /\ InPorts(graph, o) \subseteq DOMAIN filled /\ graph' = graph
  BY DEF fire, FireReached, Popped
<1>2. fr \in Seq(Token) /\ top \in Token /\ stack = fr \o <<top>>
  BY <1>1, TokenFlow
<1>3. o \in DOMAIN graph.prog /\ top = <<"fire", o>>
  BY <1>1, <1>2 DEF Token
<1>4. PICK outs \in Outcome(graph.prog, o, Inputs(o), values) :
        /\ values' = values \cup ToSet(outs)
        /\ Route(Offers(o, outs), Cleared(o), fr \o [i \in DOMAIN outs |-> <<"value", outs[i]>>])
        /\ IF Aborts(Offers(o, outs), Cleared(o))
           THEN status' = "MissingOp" /\ log' = log
           ELSE status' = status /\ log' = Append(log, Record(o, Inputs(o), outs))
  BY DEF fire
<1> DEFINE n == graph.prog[o].outputs
           D == Offers(o, outs)
           t == [i \in 1..n |-> <<"value", outs[i]>>]
           base == fr \o t
           f == Cleared(o)
           A == Accepted(D, f)
<1>5. n \in Nat /\ outs \in [1..n -> Value] /\ DOMAIN outs = 1..n
  <2>1. outs \in [1..n -> Value]
    BY <1>4, OutcomeType
  <2> QED BY <2>1, <1>3, GraphAssumption DEF FlowInv
<1>6. Live(stack, filled)
  BY <1>1 DEF FlowInv, Errors
<1>7. t \in Seq(Token)
  <2>1. \A i \in 1..n : t[i] \in Token
    BY <1>5 DEF Token
  <2> HIDE DEF n
  <2> QED BY <1>5, <2>1
<1> HIDE DEF o, top
<1>8. Live(base, f)
  <2> HIDE DEF t
  <2> QED BY <1>1, <1>3, <1>6, <1>7, ClearedLive DEF top
<1>9. Queue(D)
  <2> HIDE DEF n
  <2> QED BY <1>5, OutputQueue DEF FlowInv
<1>10. base \in Seq(Token) /\ Route(D, f, base)
  <2>1. base \in Seq(Token)
    BY <1>2, <1>7
  <2>2. DOMAIN outs = 1..n
    BY <1>5
  <2> QED BY <1>4, <2>1, <2>2
<1>11. /\ stack' \in Seq(Token) /\ Live(stack', filled')
       /\ Carried(stack') = Carried(base)
  <2> HIDE DEF D, base, f
  <2> QED BY <1>8, <1>9, <1>10, RouteLive
<1>12. status' \in {status, "MissingOp"}
  BY <1>4
<1>13. FlowInv'
  BY <1>1, <1>11, <1>12 DEF FlowInv, Token, Live, Full, InPorts, Errors
<1>14. CASE Aborts(D, f)
  <2>1. status' = "MissingOp"
    BY <1>4, <1>14
  <2> QED BY <1>13, <2>1 DEF Flow!Fail, Errors
<1>15. CASE ~Aborts(D, f)
  <2>1. status' = status /\ log' = Append(log, Record(o, Inputs(o), outs))
    BY <1>4, <1>15
  <2>2. /\ A \subseteq D
        /\ {d.to : d \in A} = {d.to : d \in D} \ DOMAIN f
    <3> HIDE DEF D, f
    <3> QED BY <1>9, <1>15, RouteFills
  <2> DEFINE from(i) == <<"out", o, i - 1>>
             fed == UNION {consumers_of(graph, from(i)) : i \in DOMAIN outs}
             kept == DOMAIN filled \ InPorts(graph, o)
  <2>3. \A d \in D : \E i \in DOMAIN outs : d.value = outs[i] /\ d.to \in consumers_of(graph, from(i))
    BY DEF Offers, Offer
  <2>4. \A p \in fed : \E d \in D : d.to = p
    <3> SUFFICES ASSUME NEW i \in DOMAIN outs, NEW p \in consumers_of(graph, from(i))
                 PROVE  \E d \in D : d.to = p
      OBVIOUS
    <3>1. [rank |-> i, to |-> p, value |-> outs[i]] \in Offer(consumers_of(graph, from(i)), i, outs[i])
      BY DEF Offer
    <3>2. [rank |-> i, to |-> p, value |-> outs[i]] \in D
      BY <3>1 DEF Offers
    <3> QED BY <3>2
  <2>5. {d.to : d \in D} = fed
    <3> HIDE DEF D, from
    <3> QED BY <2>3, <2>4
  <2>6. filled' = FilledWith(f, A)
    BY <1>10 DEF Route
  <2>7. DOMAIN f = kept /\ \A p \in kept : f[p] = filled[p]
    BY DEF Cleared
  <2> HIDE DEF D, A, f, fed
  <2>8. DOMAIN filled' = kept \cup fed /\ \A p \in kept : filled'[p] = filled[p]
    BY <2>2, <2>5, <2>6, <2>7 DEF FilledWith
  <2>9. \A p \in fed \ kept : \E d \in D : d.to = p /\ filled'[p] = d.value
    <3> SUFFICES ASSUME NEW p \in fed \ kept
                 PROVE  \E d \in D : d.to = p /\ filled'[p] = d.value
      OBVIOUS
    <3>1. p \in {d.to : d \in A} /\ p \notin DOMAIN f
      BY <2>2, <2>5, <2>7
    <3>2. filled'[p] = (CHOOSE d \in A : d.to = p).value
      BY <2>6, <3>1 DEF FilledWith
    <3>3. PICK d : d = CHOOSE x \in A : x.to = p
      OBVIOUS
    <3>4. d \in A /\ d.to = p
      BY <3>1, <3>3
    <3> QED BY <2>2, <3>2, <3>3, <3>4
  <2>10. \A p \in fed \ kept :
            filled'[p] \in {outs[i] : i \in {k \in DOMAIN outs : p \in consumers_of(graph, from(k))}}
    BY <2>3, <2>9
  <2>11. InFlight' = Flow!(+)(InFlight, Flow!ToBag(outs))
    <3>1. Carried(stack) = Carried(fr)
      <4>1. <<top>> \in Seq(Token)
        BY <1>2
      <4>2. \A i \in DOMAIN <<top>> : <<top>>[i][1] = "fire"
        BY <1>3
      <4> QED BY <1>2, <4>1, <4>2, CarriedFires
    <3>2. Carried(base) = Carried(fr) (+) Carried(t)
      <4> HIDE DEF t
      <4> QED BY <1>2, <1>7, CarriedConcat
    <3>3. Carried(t) = ToBag(outs)
      <4> HIDE DEF n
      <4> QED BY <1>5, CarriedValues
    <3>4. InFlight' = Carried(stack')
      BY DEF InFlight, Carried, Held
    <3>5. Carried(stack) (+) ToBag(outs) = Flow!(+)(Carried(stack), Flow!ToBag(outs))
      BY DEF (+), ToBag, Range, Flow!(+), Flow!ToBag, Flow!Range, Cardinality, Flow!Cardinality, IsFiniteSet, Flow!IsFiniteSet
    <3> QED BY <1>11, <3>1, <3>2, <3>3, <3>4, <3>5, InFlightCarried
  <2>12. /\ Flow!Ready(o) /\ Flow!InPorts(graph, o) = InPorts(graph, o)
         /\ [i \in 1..graph.prog[o].arity |-> filled[<<o, i - 1>>]] = Inputs(o)
         /\ outs \in Flow!Outcome(graph.prog, o, Inputs(o), values)
         /\ \A from_ : Flow!consumers_of(graph, from_) = consumers_of(graph, from_)
         /\ Flow!ToSet(outs) = ToSet(outs)
    <3>1. Flow!InPorts(graph, o) = InPorts(graph, o)
      BY DEF Flow!InPorts, InPorts
    <3>2. Flow!Ready(o)
      BY <1>1, <3>1 DEF Flow!Ready
    <3>3. [i \in 1..graph.prog[o].arity |-> filled[<<o, i - 1>>]] = Inputs(o)
      BY DEF Inputs
    <3>4. outs \in Flow!Outcome(graph.prog, o, Inputs(o), values)
      BY <1>4, FlowOutcome
    <3>5. \A from_ : Flow!consumers_of(graph, from_) = consumers_of(graph, from_)
      BY DEF Flow!consumers_of, consumers_of
    <3>6. Flow!ToSet(outs) = ToSet(outs)
      BY DEF Flow!ToSet, ToSet
    <3> QED BY <3>1, <3>2, <3>3, <3>4, <3>5, <3>6
  <2>13. /\ ~(status \in Errors) /\ ~(status = "Quiescence" /\ stack = <<>>)
         /\ (status \in Errors)' = (status \in Errors)
         /\ (status = "Quiescence" /\ stack = <<>>)' = (status = "Quiescence" /\ stack = <<>>)
    BY <1>1, <2>1 DEF Errors
  <2> DEFINE given(p) == {outs[i] : i \in {k \in DOMAIN outs :
                                p \in Flow!consumers_of(graph, <<"out", o, k - 1>>)}}
             reached == UNION {Flow!consumers_of(graph, <<"out", o, i - 1>>) : i \in DOMAIN outs}
             held == DOMAIN filled \ Flow!InPorts(graph, o)
  <2>14. /\ values' = values \cup Flow!ToSet(outs)
         /\ DOMAIN filled' = held \cup reached
         /\ \A p \in held : filled'[p] = filled[p]
         /\ \A p \in reached \ held : filled'[p] \in given(p)
         /\ log' = Append(log, [op |-> o, inputs |-> Inputs(o), outputs |-> outs])
    <3>1. reached = fed /\ held = kept
      BY <2>12 DEF fed
    <3>2. \A p : given(p) = {outs[i] : i \in {k \in DOMAIN outs : p \in consumers_of(graph, from(k))}}
      BY <2>12
    <3> HIDE DEF given, reached, held, kept, from
    <3> QED BY <1>4, <2>1, <2>8, <2>10, <2>12, <3>1, <3>2 DEF Record
  <2>15. Flow!Fire(o)
    <3> HIDE DEF kept, from, f, t, base, D, A, n
    <3> QED BY <1>1, <2>11, <2>12, <2>13, <2>14 DEF Flow!Fire
  <2> QED BY <1>3, <1>13, <2>15 DEF top
<1> QED BY <1>13, <1>14, <1>15

\* Every step is a step of the data flow, or stutters.
LEMMA NextFlow == FlowInv /\ [Next]_vars => FlowInv' /\ [Flow!Next]_(Flow!flow)
<1> SUFFICES ASSUME FlowInv, [Next]_vars
             PROVE  FlowInv' /\ [Flow!Next]_(Flow!flow)
  OBVIOUS
<1>1. CASE \E v \in Seeds : seed_value(v)
  BY <1>1, SeedFlow DEF Flow!Next
<1>2. CASE Drained
  BY <1>2, DrainFlow DEF Flow!Next
<1>3. CASE route_value
  BY <1>3, RouteFlow DEF Flow!Next, Flow!Value, Value, Flow!Plane, Plane
<1>4. CASE fire
  BY <1>4, FireFlow DEF Flow!Next
<1>5. ASSUME stack # <<>>, UNCHANGED <<graph, values, stack, filled, log>>,
             status \notin Errors, status' \in Stopped \union {"running"}
      PROVE  FlowInv' /\ (stack' # <<>>) /\ (status' \notin Errors) /\ InFlight' = InFlight
  <2>1. InFlight' = InFlight
    BY <1>5 DEF InFlight
  <2>2. FlowInv'
    BY <1>5 DEF FlowInv, Live, Full, InPorts, Token
  <2> QED BY <1>5, <2>1, <2>2 DEF Errors, Stopped
<1>6. CASE (\E m \in graph.fires : run_until(m)) \/ StopAtFire
  <2>1. /\ stack # <<>> /\ UNCHANGED <<graph, values, stack, filled, log>>
        /\ status \notin Errors /\ status' \in {"running", "FireBudget", "Predicate"}
    BY <1>6 DEF run_until, StopAtFire, Popped, Stopped, Errors
  <2>2. FlowInv' /\ (stack' # <<>>) /\ (status' \notin Errors) /\ InFlight' = InFlight
    BY <1>5, <2>1 DEF Stopped
  <2>3. UNCHANGED Flow!flow
    <3>1. (status \in Errors)' = (status \in Errors)
      BY <2>1, <2>2
    <3>2. (status = "Quiescence" /\ stack = <<>>)' = (status = "Quiescence" /\ stack = <<>>)
      BY <2>1, <2>2
    <3> QED BY <2>1, <2>2, <3>1, <3>2 DEF Flow!flow
  <2> QED BY <2>2, <2>3
<1>7. CASE FireStarved \/ FireFails
  <2>1. /\ stack # <<>> /\ graph' = graph /\ stack' = Front(stack)
        /\ status' \in {"InputNotFilled", "EvalError"}
    BY <1>7 DEF FireStarved, FireFails, FireReached, Popped
  <2>2. FlowInv'
    BY <2>1, TokenFlow DEF FlowInv, Token, Errors
  <2>3. Flow!Fail
    BY <2>1 DEF Flow!Fail, Errors
  <2> QED BY <2>2, <2>3 DEF Flow!Next
<1>8. CASE UNCHANGED vars
  <2>1. UNCHANGED <<graph, values, stack, filled, log, status>>
    BY <1>8 DEF vars
  <2>2. InFlight' = InFlight
    BY <2>1 DEF InFlight
  <2>3. FlowInv'
    BY <2>1 DEF FlowInv, Live, Full, InPorts, Token
  <2>4. UNCHANGED Flow!flow
    BY <2>1, <2>2 DEF Flow!flow
  <2> QED BY <2>3, <2>4
<1> QED BY <1>1, <1>2, <1>3, <1>4, <1>6, <1>7, <1>8 DEF Next, Pop

\* The stack machine only fires, routes and stops as the order-free dataflow reading
\* allows, on every graph, wired or not, and with every budget and predicate: the
\* LIFO stack and the Fire tokens lose and invent nothing, and a stop in the middle
\* of a run changes nothing that the graph computes (dispatch.rs run_until).
THEOREM DispatcherImplementsDataflow == Spec => ImplementsDataflow
<1>1. Init => FlowInv /\ Flow!Init
  BY InitFlow
<1>2. FlowInv /\ [Next]_vars => FlowInv' /\ [Flow!Next]_(Flow!flow)
  BY NextFlow
<1> QED BY <1>1, <1>2, PTL DEF Spec, ImplementsDataflow, Flow!Spec

-----------------------------------------------------------------------------
(* What a program computes: one outcome at most, and the same when more is   *)
(* stored.  The words of a program are a sequence.                           *)

\* A sequence, of whatever it is.
IsSequence(s) == \E S : s \in Seq(S)

\* A set of naturals that is not empty has a least member.
LEMMA LeastNatural ==
    ASSUME NEW T, T \subseteq Nat, T # {}
    PROVE  \E n \in T : \A m \in T : n <= m
<1>1. IsWellFoundedOn(OpToRel(<, Nat), Nat)
    BY NatLessThanWellFounded
<1>2. PICK n \in T : \A m \in T : ~(<<m, n>> \in OpToRel(<, Nat))
    BY <1>1, WFMin
<1>3. \A m \in T : ~(m < n)
    BY <1>2 DEF OpToRel
<1> QED
    BY <1>3

\* Induction up to n, over a set of numbers.
LEMMA Climb ==
    ASSUME NEW n \in Nat, NEW T, 0 \in T, \A k \in 1..n : k - 1 \in T => k \in T
    PROVE  \A k \in 0..n : k \in T
<1> DEFINE B == {k \in 0..n : k \notin T}
<1>1. SUFFICES ASSUME B # {} PROVE FALSE
    OBVIOUS
<1>2. B \subseteq Nat
    OBVIOUS
<1> HIDE DEF B
<1>3. PICK m \in B : \A k \in B : m <= k
    BY <1>1, <1>2, LeastNatural
<1> USE DEF B
<1>4. m \in 0..n /\ m # 0
    BY <1>3
<1>5. m \in 1..n /\ m - 1 \in 0..n
    BY <1>4
<1>6. m - 1 \notin B
    BY <1>3, <1>5
<1> QED
    BY <1>3, <1>5, <1>6

\* Two sequences concatenated are a sequence.
LEMMA ConcatSequence ==
    ASSUME NEW s, NEW t, IsSequence(s), IsSequence(t)
    PROVE  IsSequence(s \o t)
<1>1. PICK S : s \in Seq(S)
    BY DEF IsSequence
<1>2. PICK T : t \in Seq(T)
    BY DEF IsSequence
<1> DEFINE U == S \union T
<1>3. s \in Seq(U) /\ t \in Seq(U)
    BY <1>1, <1>2
<1> HIDE DEF U
<1>4. s \o t \in Seq(U)
    BY <1>3
<1> QED
    BY <1>4 DEF IsSequence

\* The recursion of FlattenSeq.
IsFlattening(g, n, ss) ==
    g = [i \in 1..n |-> IF i = 1 THEN ss[i] ELSE g[i - 1] \o ss[i]]

\* Flattening is a recursion that some function satisfies.
LEMMA FlatteningExists ==
    ASSUME NEW ss, NEW n \in Nat
    PROVE  \E g : IsFlattening(g, n, ss)
<1> DEFINE T == {k \in Nat : ~ \E g : IsFlattening(g, k, ss)}
<1>1. SUFFICES ASSUME n \in T PROVE FALSE
    OBVIOUS
<1>2. PICK m \in T : \A k \in T : m <= k
    <2>1. T \subseteq Nat
        OBVIOUS
    <2> HIDE DEF T
    <2> QED BY <1>1, <2>1, LeastNatural
<1>3. CASE m = 0
    <2> DEFINE g == [i \in 1..0 |-> {}]
    <2>1. 1..0 = {}
        OBVIOUS
    <2>2. IsFlattening(g, 0, ss)
        BY <2>1 DEF IsFlattening
    <2> QED BY <1>2, <1>3, <2>2
<1>4. CASE m # 0
    <2>1. m - 1 \in Nat /\ m - 1 \notin T
        <3>1. m \in Nat
            BY <1>2
        <3> HIDE DEF T
        <3> QED BY <1>2, <1>4, <3>1
    <2>2. PICK g : IsFlattening(g, m - 1, ss)
        BY <2>1
    <2> DEFINE h == [i \in 1..m |-> IF i = 1 THEN ss[i] ELSE g[i - 1] \o ss[i]]
    <2>3. ASSUME NEW i \in 1..(m - 1)
          PROVE  h[i] = g[i]
        <3>1. i \in 1..m
            BY <1>2, <2>1
        <3> QED BY <2>2, <3>1 DEF IsFlattening
    <2>4. \A i \in 1..m : i # 1 => i - 1 \in 1..(m - 1)
        BY <1>2
    <2>5. IsFlattening(h, m, ss)
        BY <2>3, <2>4 DEF IsFlattening
    <2> QED BY <1>2, <2>5
<1> QED
    BY <1>3, <1>4

\* What it gives is a sequence.
LEMMA FlattenSequence ==
    ASSUME NEW n \in Nat, NEW ss, DOMAIN ss = 1..n, IsSequence(ss),
           \A i \in 1..n : IsSequence(ss[i])
    PROVE  IsSequence(FlattenSeq(ss))
<1>1. Len(ss) = n
    BY DEF IsSequence
<1>2. CASE n = 0
    BY <1>1, <1>2 DEF FlattenSeq
<1>3. CASE n # 0
    <2> DEFINE g == CHOOSE g : IsFlattening(g, n, ss)
    <2>1. IsFlattening(g, n, ss)
        BY FlatteningExists
    <2>2. FlattenSeq(ss) = g[n]
        BY <1>1, <1>3 DEF FlattenSeq, IsFlattening
    <2> HIDE DEF g
    <2> DEFINE T == {k \in 0..n : k = 0 \/ IsSequence(g[k])}
    <2>3. ASSUME NEW k \in 1..n, k - 1 \in T
          PROVE  k \in T
        <3>1. CASE k = 1
            BY <2>1, <3>1 DEF IsFlattening
        <3>2. CASE k # 1
            <4>1. g[k] = g[k - 1] \o ss[k]
                BY <2>1, <3>2 DEF IsFlattening
            <4>2. IsSequence(g[k - 1]) /\ IsSequence(ss[k])
                BY <2>3, <3>2
            <4>3. k \in 0..n /\ IsSequence(g[k])
                BY <4>1, <4>2, ConcatSequence
            <4> QED BY <4>3
        <3> QED BY <3>1, <3>2
    <2>4. 0 \in T
        OBVIOUS
    <2> HIDE DEF T
    <2>5. \A k \in 0..n : k \in T
        BY <2>3, <2>4, Climb
    <2> USE DEF T
    <2>6. n \in T
        BY <2>5
    <2> QED BY <1>3, <2>2, <2>6
<1> QED
    BY <1>2, <1>3

\* One round of inlining: the calls replaced by what the round below left.
Round(prog, bottom, below) ==
    [o \in DOMAIN prog |->
        FlattenSeq([k \in DOMAIN prog[o].words |->
            LET w == prog[o].words[k]
            IN  CASE w[1] # "call" -> <<w>>
                  [] w[1] = "call" /\ (bottom \/ w[2] \notin DOMAIN prog)
                        -> << <<"stuck">> >>
                  [] OTHER -> below[w[2]]])]

IsInlining(g, n, prog) == g = [d \in 0..n |-> Round(prog, d = 0, g[d - 1])]

\* The innermost round of inlining asks nothing of the round below.
LEMMA RoundBottom ==
    ASSUME NEW prog, NEW f, NEW g
    PROVE  Round(prog, TRUE, f) = Round(prog, TRUE, g)
BY DEF Round

\* Inlining is a recursion that some function satisfies.
LEMMA InliningExists ==
    ASSUME NEW prog, NEW n \in Nat
    PROVE  \E g : IsInlining(g, n, prog)
<1> DEFINE T == {k \in Nat : ~ \E g : IsInlining(g, k, prog)}
<1>1. SUFFICES ASSUME n \in T PROVE FALSE
    OBVIOUS
<1>2. PICK m \in T : \A k \in T : m <= k
    <2>1. T \subseteq Nat
        OBVIOUS
    <2> HIDE DEF T
    <2> QED BY <1>1, <2>1, LeastNatural
<1>3. CASE m = 0
    <2> DEFINE g == [d \in 0..0 |-> Round(prog, TRUE, {})]
    <2>1. Round(prog, TRUE, {}) = Round(prog, TRUE, g[-1])
        BY RoundBottom
    <2>2. \A d \in 0..0 : (d = 0) = TRUE /\ d - 1 = -1
        OBVIOUS
    <2> HIDE DEF g
    <2>3. [d \in 0..0 |-> Round(prog, TRUE, {})] = [d \in 0..0 |-> Round(prog, d = 0, g[d - 1])]
        BY <2>1, <2>2
    <2>4. IsInlining(g, 0, prog)
        BY <2>3 DEF IsInlining, g
    <2> QED BY <1>2, <1>3, <2>4
<1>4. CASE m # 0
    <2>1. m - 1 \in Nat /\ m - 1 \notin T
        <3>1. m \in Nat
            BY <1>2
        <3> HIDE DEF T
        <3> QED BY <1>2, <1>4, <3>1
    <2>2. PICK g : IsInlining(g, m - 1, prog)
        BY <2>1
    <2> DEFINE h == [d \in 0..m |-> Round(prog, d = 0, g[d - 1])]
    <2>3. ASSUME NEW d \in 0..(m - 1)
          PROVE  h[d] = g[d]
        <3>1. d \in 0..m
            BY <1>2, <2>1
        <3> QED BY <2>2, <3>1 DEF IsInlining
    <2> HIDE DEF h
    <2>4. ASSUME NEW d \in 0..m
          PROVE  Round(prog, d = 0, g[d - 1]) = Round(prog, d = 0, h[d - 1])
        <3>1. CASE d = 0
            <4>1. (d = 0) = TRUE
                BY <3>1
            <4>2. Round(prog, TRUE, g[d - 1]) = Round(prog, TRUE, h[d - 1])
                BY RoundBottom
            <4> QED BY <4>1, <4>2
        <3>2. CASE d # 0
            <4>1. d - 1 \in 0..(m - 1)
                BY <1>2, <3>2
            <4>2. h[d - 1] = g[d - 1]
                BY <2>3, <4>1
            <4>3. (d = 0) = FALSE
                BY <3>2
            <4> QED BY <4>2, <4>3
        <3> QED BY <3>1, <3>2
    <2>5. [d \in 0..m |-> Round(prog, d = 0, g[d - 1])] = [d \in 0..m |-> Round(prog, d = 0, h[d - 1])]
        BY <2>4
    <2>6. IsInlining(h, m, prog)
        BY <2>5 DEF IsInlining, h
    <2> QED BY <1>2, <2>6
<1> QED
    BY <1>3, <1>4

\* An inlined body is a sequence of words.
LEMMA InlinedSequence ==
    ASSUME NEW prog, \A o \in DOMAIN prog : IsSequence(prog[o].words), NEW o \in DOMAIN prog
    PROVE  IsSequence(Inlined(prog)[o])
<1> DEFINE g == CHOOSE g : IsInlining(g, MaxCallDepth, prog)
           T == {d \in 0..MaxCallDepth : \A q \in DOMAIN prog : IsSequence(g[d][q])}
<1>1. IsInlining(g, MaxCallDepth, prog)
    BY CallDepthNat, InliningExists
<1>2. Inlined(prog) = g[MaxCallDepth]
    BY DEF Inlined, IsInlining, Round
<1> HIDE DEF g
<1>3. ASSUME NEW below, NEW bottom \in BOOLEAN, NEW q \in DOMAIN prog,
             ~bottom => \A r \in DOMAIN prog : IsSequence(below[r])
      PROVE  IsSequence(Round(prog, bottom, below)[q])
    <2> DEFINE W == prog[q].words
               Part(w) == CASE w[1] # "call" -> <<w>>
                            [] w[1] = "call" /\ (bottom \/ w[2] \notin DOMAIN prog)
                                -> << <<"stuck">> >>
                            [] OTHER -> below[w[2]]
               ss == [k \in DOMAIN W |-> Part(W[k])]
    <2>1. Round(prog, bottom, below)[q] = FlattenSeq(ss)
        BY DEF Round
    <2>2. PICK n \in Nat : DOMAIN W = 1..n
        BY DEF IsSequence
    <2>3. \A w : IsSequence(Part(w))
        <3> TAKE w
        <3>1. \A x : IsSequence(<<x>>)
            <4> TAKE x
            <4>1. <<x>> \in Seq({x})
                OBVIOUS
            <4> QED BY <4>1 DEF IsSequence
        <3> QED BY <1>3, <3>1
    <2> HIDE DEF W, Part
    <2>4. DOMAIN ss = 1..n /\ \A i \in 1..n : IsSequence(ss[i])
        BY <2>2, <2>3
    <2>5. IsSequence(ss)
        <3> DEFINE S == {Part(W[i]) : i \in 1..n}
        <3>1. ss \in Seq(S)
            BY <2>2
        <3> QED BY <3>1 DEF IsSequence
    <2> HIDE DEF ss
    <2> QED BY <2>1, <2>4, <2>5, FlattenSequence
<1>4. \A d \in 0..MaxCallDepth : g[d] = Round(prog, d = 0, g[d - 1])
    BY <1>1 DEF IsInlining
<1>5. 0 \in T
    <2>1. g[0] = Round(prog, TRUE, g[0 - 1]) /\ 0 \in 0..MaxCallDepth
        <3>1. 0 \in 0..MaxCallDepth /\ (0 = 0) = TRUE
            BY CallDepthNat
        <3> QED BY <1>4, <3>1
    <2> QED BY <1>3, <2>1
<1>6. ASSUME NEW d \in 1..MaxCallDepth, d - 1 \in T
      PROVE  d \in T
    <2>1. g[d] = Round(prog, FALSE, g[d - 1]) /\ d \in 0..MaxCallDepth
        <3>1. d \in 0..MaxCallDepth /\ (d = 0) = FALSE
            BY CallDepthNat
        <3> QED BY <1>4, <3>1
    <2>2. \A r \in DOMAIN prog : IsSequence(g[d - 1][r])
        BY <1>6
    <2> QED BY <1>3, <2>1, <2>2
<1> HIDE DEF T
<1>7. \A d \in 0..MaxCallDepth : d \in T
    BY <1>5, <1>6, CallDepthNat, Climb
<1> USE DEF T
<1>8. MaxCallDepth \in T
    BY <1>7, CallDepthNat
<1> QED
    BY <1>2, <1>8

\* The stacks after each word.
IsExecution(g, n, words, inputs, stored) ==
    g = [k \in 0..n |-> IF k = 0 THEN {inputs}
                        ELSE UNION {After(words[k], s, stored) : s \in g[k - 1]}]

\* Executing a body is a recursion that some function satisfies.
LEMMA ExecutionExists ==
    ASSUME NEW words, NEW inputs, NEW stored, NEW n \in Nat
    PROVE  \E g : IsExecution(g, n, words, inputs, stored)
<1> DEFINE T == {k \in Nat : ~ \E g : IsExecution(g, k, words, inputs, stored)}
<1>1. SUFFICES ASSUME n \in T PROVE FALSE
    OBVIOUS
<1>2. PICK m \in T : \A k \in T : m <= k
    <2>1. T \subseteq Nat
        OBVIOUS
    <2> HIDE DEF T
    <2> QED BY <1>1, <2>1, LeastNatural
<1>3. CASE m = 0
    <2> DEFINE g == [k \in 0..0 |-> {inputs}]
    <2>1. IsExecution(g, 0, words, inputs, stored)
        BY DEF IsExecution
    <2> QED BY <1>2, <1>3, <2>1
<1>4. CASE m # 0
    <2>1. m - 1 \in Nat /\ m - 1 \notin T
        <3>1. m \in Nat
            BY <1>2
        <3> HIDE DEF T
        <3> QED BY <1>2, <1>4, <3>1
    <2>2. PICK g : IsExecution(g, m - 1, words, inputs, stored)
        BY <2>1
    <2> DEFINE h == [k \in 0..m |-> IF k = 0 THEN {inputs}
                                    ELSE UNION {After(words[k], s, stored) : s \in g[k - 1]}]
    <2>3. ASSUME NEW k \in 0..(m - 1)
          PROVE  h[k] = g[k]
        <3>1. k \in 0..m
            BY <1>2, <2>1
        <3> QED BY <2>2, <3>1 DEF IsExecution
    <2>4. \A k \in 0..m : k # 0 => k - 1 \in 0..(m - 1)
        BY <1>2
    <2>5. IsExecution(h, m, words, inputs, stored)
        BY <2>3, <2>4 DEF IsExecution
    <2> QED BY <1>2, <2>5
<1> QED
    BY <1>3, <1>4

\* A program that succeeds on what is stored succeeds with the same outputs when
\* more is stored.
LEMMA OutcomeMonotone ==
    ASSUME NEW prog, \A o \in DOMAIN prog : IsSequence(prog[o].words), NEW o \in DOMAIN prog,
           NEW inputs, NEW few, NEW more, few \subseteq more
    PROVE  Outcome(prog, o, inputs, few) \subseteq Outcome(prog, o, inputs, more)
<1> DEFINE words == Inlined(prog)[o]
           n == Len(words)
           g == CHOOSE g : IsExecution(g, n, words, inputs, few)
           h == CHOOSE h : IsExecution(h, n, words, inputs, more)
           T == {k \in 0..n : g[k] \subseteq h[k]}
<1>1. n \in Nat
    BY InlinedSequence DEF IsSequence
<1>2. Evaluated(prog, o, inputs, few) = g[n] \cap [1..prog[o].outputs -> Value]
    BY DEF Evaluated, IsExecution
<1>3. Evaluated(prog, o, inputs, more) = h[n] \cap [1..prog[o].outputs -> Value]
    BY DEF Evaluated, IsExecution
<1> HIDE DEF words, n
<1>4. IsExecution(g, n, words, inputs, few) /\ IsExecution(h, n, words, inputs, more)
    BY <1>1, ExecutionExists
<1> HIDE DEF g, h
<1>5. 0 \in T
    BY <1>1, <1>4 DEF IsExecution
<1>6. ASSUME NEW k \in 1..n, k - 1 \in T
      PROVE  k \in T
    <2>0. k \in 0..n /\ k # 0
        BY <1>1
    <2>1. /\ g[k] = UNION {After(words[k], s, few) : s \in g[k - 1]}
          /\ h[k] = UNION {After(words[k], s, more) : s \in h[k - 1]}
        BY <1>4, <2>0 DEF IsExecution
    <2>2. \A s : After(words[k], s, few) \subseteq After(words[k], s, more)
        BY DEF After
    <2>3. g[k - 1] \subseteq h[k - 1]
        BY <1>6
    <2>4. g[k] \subseteq h[k]
        BY <2>1, <2>2, <2>3
    <2> QED BY <1>1, <2>4
<1> HIDE DEF T
<1>7. \A k \in 0..n : k \in T
    BY <1>1, <1>5, <1>6, Climb
<1> USE DEF T
<1>8. n \in T
    BY <1>1, <1>7
<1>9. Evaluated(prog, o, inputs, few) \subseteq Evaluated(prog, o, inputs, more)
    BY <1>2, <1>3, <1>8
<1> QED
    BY <1>9 DEF Outcome

-----------------------------------------------------------------------------
(* What a log in order is: every program fires once, on what was offered    *)
(* to its ports; a port holds what was offered to it; and a value is in     *)
(* flight, or has arrived at its consumers, once.                           *)

Logged(lg) == {lg[i].op : i \in DOMAIN lg}

\* Every program fires once.
OncePerOp(lg) == \A i, j \in DOMAIN lg : lg[i].op = lg[j].op => i = j

\* A firing of a program with inputs, on what the seeds and the firings R offer it.
DerivedFrom(g, given, R, r) ==
    LET n == g.prog[r.op].arity
    IN  /\ r.op \in DOMAIN g.prog /\ n > 0
        /\ r = [op |-> r.op, inputs |-> r.inputs, outputs |-> r.outputs]
        /\ r.inputs = [k \in 1..n |-> r.inputs[k]]
        /\ \A k \in 1..n : r.inputs[k] \in Arriving(g, given, R, <<r.op, k - 1>>)
        /\ r.outputs \in Outcome(g.prog, r.op, r.inputs, Value)

\* Every firing takes what the seeds and the firings before it offer its ports.
Derived(g, given, lg) ==
    \A i \in DOMAIN lg : DerivedFrom(g, given, {lg[j] : j \in 1..(i - 1)}, lg[i])

\* What a port holds was offered to it, and its program has yet to fire.
HeldPorts(g, given, fill, lg) ==
    \A p \in DOMAIN fill :
        /\ p[1] \notin Logged(lg)
        /\ fill[p] \in Arriving(g, given, ToSet(lg), p)

\* A value that some port is wired to is in flight once, from a seed, and none of
\* its consumers has it yet.
OnTheWay(g, given, fill, fly, lg) ==
    \A v \in DOMAIN fly : consumers_of(g, <<"value", v>>) # {} =>
        /\ fly[v] = 1 /\ v \in given
        /\ \A p \in consumers_of(g, <<"value", v>>) : p \notin DOMAIN fill /\ p[1] \notin Logged(lg)

\* A port has received a value that it keeps until its program fires.
Reached(fill, lg, p) == p \in DOMAIN fill \/ p[1] \in Logged(lg)

\* What is no longer in flight has reached its consumers, and so has every output.
Arrived(g, given, fill, fly, lg) ==
    /\ \A v \in given \ DOMAIN fly : \A p \in consumers_of(g, <<"value", v>>) : Reached(fill, lg, p)
    /\ \A i \in DOMAIN lg : \A n \in DOMAIN lg[i].outputs :
        \A p \in consumers_of(g, <<"out", lg[i].op, n - 1>>) : Reached(fill, lg, p)

InOrder(g, given, fill, fly, lg) ==
    /\ OncePerOp(lg)
    /\ Derived(g, given, lg)
    /\ HeldPorts(g, given, fill, lg)
    /\ OnTheWay(g, given, fill, fly, lg)
    /\ Arrived(g, given, fill, fly, lg)

\* At most one element.
AtMostOne(S) == \A x, y \in S : x = y

\* A word leaves one stack at most.
LEMMA AfterOne ==
    ASSUME NEW w, NEW s, NEW stored
    PROVE  AtMostOne(After(w, s, stored))
<1>1. CASE w[1] = "stuck" \/ Len(s) < Needs(w) \/ (w[1] = "value" /\ w[2] \notin stored)
    BY <1>1 DEF After, AtMostOne
<1>2. CASE ~(w[1] = "stuck" \/ Len(s) < Needs(w) \/ (w[1] = "value" /\ w[2] \notin stored))
    <2>1. \E t : After(w, s, stored) = {t}
        <3>1. After(w, s, stored) \in
                {{Append(s, w[2])}, {Append(s, Last(s))}, {Front(s)},
                 {Front(Front(s)) \o <<Last(s), Last(Front(s))>>},
                 {Append(Front(Front(s)), Binary(w, Last(Front(s)), Last(s)))}}
            BY <1>2 DEF After
        <3> QED BY <3>1
    <2> QED BY <2>1 DEF AtMostOne
<1> QED
    BY <1>1, <1>2

\* A program has one outcome at most: nothing in it depends on a choice.
LEMMA OutcomeOne ==
    ASSUME NEW prog, \A o \in DOMAIN prog : IsSequence(prog[o].words), NEW o \in DOMAIN prog,
           NEW inputs, NEW stored
    PROVE  AtMostOne(Outcome(prog, o, inputs, stored))
<1> DEFINE words == Inlined(prog)[o]
           n == Len(words)
           g == CHOOSE g : IsExecution(g, n, words, inputs, stored)
           T == {k \in 0..n : AtMostOne(g[k])}
<1>1. n \in Nat
    BY InlinedSequence DEF IsSequence
<1>2. Evaluated(prog, o, inputs, stored) = g[n] \cap [1..prog[o].outputs -> Value]
    BY DEF Evaluated, IsExecution
<1> HIDE DEF words, n
<1>3. IsExecution(g, n, words, inputs, stored)
    BY <1>1, ExecutionExists
<1> HIDE DEF g
<1>4. 0 \in T
    <2>1. g[0] = {inputs} /\ 0 \in 0..n
        BY <1>1, <1>3 DEF IsExecution
    <2> QED BY <2>1 DEF AtMostOne
<1>5. ASSUME NEW k \in 1..n, k - 1 \in T
      PROVE  k \in T
    <2>1. k \in 0..n /\ k # 0
        BY <1>1
    <2>2. g[k] = UNION {After(words[k], s, stored) : s \in g[k - 1]}
        BY <1>3, <2>1 DEF IsExecution
    <2>3. AtMostOne(g[k - 1])
        BY <1>5
    <2>4. AtMostOne(g[k])
        <3> SUFFICES ASSUME NEW x \in g[k], NEW y \in g[k]
                     PROVE  x = y
            BY DEF AtMostOne
        <3>1. PICK s \in g[k - 1] : x \in After(words[k], s, stored)
            BY <2>2
        <3>2. PICK t \in g[k - 1] : y \in After(words[k], t, stored)
            BY <2>2
        <3>3. s = t
            BY <2>3 DEF AtMostOne
        <3> QED BY <3>1, <3>2, <3>3, AfterOne DEF AtMostOne
    <2> QED BY <2>1, <2>4
<1> HIDE DEF T
<1>6. \A k \in 0..n : k \in T
    BY <1>1, <1>4, <1>5, Climb
<1> USE DEF T
<1>7. AtMostOne(g[n])
    BY <1>1, <1>6
<1> QED
    BY <1>2, <1>7 DEF Outcome, AtMostOne

-----------------------------------------------------------------------------
(* What is offered to a port, and which firings it allows: with one source  *)
(* per port, one value and one firing at most.                              *)

\* The words of the programs of a graph are sequences.
LEMMA GraphWords ==
    ASSUME NEW g \in Graphs, NEW o \in DOMAIN g.prog
    PROVE  /\ IsSequence(g.prog[o].words)
           /\ g.prog[o].arity \in Nat /\ g.prog[o].outputs \in Nat
BY GraphAssumption DEF IsSequence

\* One firing of each program at most, its outputs numbered.
OneEach(R) ==
    /\ \A r, s \in R : r.op = s.op => r = s
    /\ \A r \in R : DOMAIN r.outputs \subseteq Nat

\* Program o has a value at each port, and the values it takes.
Fed(g, given, R, o) ==
    /\ g.prog[o].arity > 0
    /\ \A p \in InPorts(g, o) : Arriving(g, given, R, p) # {}

Taken(g, given, R, o) ==
    [i \in 1..g.prog[o].arity |-> CHOOSE v \in Arriving(g, given, R, <<o, i - 1>>) : TRUE]

\* The firings of o on those values.
Fires(g, given, R, o) ==
    {[op |-> o, inputs |-> Taken(g, given, R, o), outputs |-> outs] :
        outs \in Outcome(g.prog, o, Taken(g, given, R, o), Value)}

\* What one round fires: the programs that have a value at each port, on those values.
LEMMA FiringsAre ==
    ASSUME NEW g, NEW given, NEW R, NEW r
    PROVE  r \in Firings(g, given, R) <=>
               \E o \in DOMAIN g.prog : Fed(g, given, R, o) /\ r \in Fires(g, given, R, o)
<1>1. Firings(g, given, R) =
            UNION {Fires(g, given, R, o) : o \in {x \in DOMAIN g.prog : Fed(g, given, R, x)}}
    BY DEF Firings, Fires, Fed, Taken
<1> QED
    BY <1>1

\* One round fires every program once at most.
LEMMA FiringsOne ==
    ASSUME NEW g \in Graphs, NEW given, NEW R
    PROVE  OneEach(Firings(g, given, R))
<1> SUFFICES ASSUME NEW r \in Firings(g, given, R), NEW s \in Firings(g, given, R)
             PROVE  /\ r.op = s.op => r = s
                    /\ DOMAIN r.outputs \subseteq Nat
    BY DEF OneEach
<1>1. PICK o \in DOMAIN g.prog : r \in Fires(g, given, R, o)
    BY FiringsAre
<1>2. PICK q \in DOMAIN g.prog : s \in Fires(g, given, R, q)
    BY FiringsAre
<1>3. r.op = s.op => o = q
    BY <1>1, <1>2 DEF Fires
<1>4. AtMostOne(Outcome(g.prog, o, Taken(g, given, R, o), Value))
    BY GraphWords, OutcomeOne
<1>5. DOMAIN r.outputs \subseteq Nat
    <2>1. \A outs \in Outcome(g.prog, o, Taken(g, given, R, o), Value) : DOMAIN outs \subseteq Nat
        BY GraphWords, OutcomeType
    <2> QED BY <1>1, <2>1 DEF Fires
<1> QED
    BY <1>1, <1>2, <1>3, <1>4, <1>5 DEF AtMostOne, Fires

\* One source of a port offers it one value at most.
LEMMA ArrivingOne ==
    ASSUME NEW g, SingleSource(g), NEW given, NEW R, OneEach(R), NEW p
    PROVE  AtMostOne(Arriving(g, given, R, p))
<1> SUFFICES ASSUME NEW x \in Arriving(g, given, R, p), NEW y \in Arriving(g, given, R, p)
             PROVE  x = y
    BY DEF AtMostOne
<1> DEFINE FromSeed(v) == v \in given /\ <<<<"value", v>>, p>> \in g.edges
           FromFiring(v) == \E r \in R : \E i \in DOMAIN r.outputs :
                                v = r.outputs[i] /\ <<<<"out", r.op, i - 1>>, p>> \in g.edges
<1>1. \A v \in Arriving(g, given, R, p) : FromSeed(v) \/ FromFiring(v)
    BY DEF Arriving
<1>2. \A f, h : <<f, p>> \in g.edges /\ <<h, p>> \in g.edges => f = h
    <2> SUFFICES ASSUME NEW f, NEW h, <<f, p>> \in g.edges, <<h, p>> \in g.edges
                 PROVE  f = h
        OBVIOUS
    <2>1. <<f, p>>[2] = <<h, p>>[2]
        OBVIOUS
    <2>2. <<f, p>> = <<h, p>>
        BY <2>1 DEF SingleSource
    <2> QED BY <2>2
<1>3. \A v, o, k : <<"value", v>> # <<"out", o, k>>
    OBVIOUS
<1>4. CASE FromSeed(x)
    <2>1. ~FromFiring(y)
        BY <1>2, <1>3, <1>4
    <2> QED BY <1>1, <1>2, <1>4, <2>1
<1>5. CASE FromFiring(x)
    <2>0. PICK r \in R : \E i \in DOMAIN r.outputs :
                x = r.outputs[i] /\ <<<<"out", r.op, i - 1>>, p>> \in g.edges
        BY <1>5
    <2>1. PICK i \in DOMAIN r.outputs :
                x = r.outputs[i] /\ <<<<"out", r.op, i - 1>>, p>> \in g.edges
        BY <2>0
    <2>2. ~FromSeed(y)
        BY <1>2, <1>3, <2>1
    <2>6. PICK s \in R : \E j \in DOMAIN s.outputs :
                y = s.outputs[j] /\ <<<<"out", s.op, j - 1>>, p>> \in g.edges
        BY <1>1, <2>2
    <2>3. PICK j \in DOMAIN s.outputs :
                y = s.outputs[j] /\ <<<<"out", s.op, j - 1>>, p>> \in g.edges
        BY <2>6
    <2>4. <<"out", r.op, i - 1>> = <<"out", s.op, j - 1>>
        BY <1>2, <2>1, <2>3
    <2>5. r = s
        BY <2>4 DEF OneEach
    <2>7. i = j
        <3>1. i \in Nat /\ j \in Nat
            BY DEF OneEach
        <3> QED BY <2>4, <3>1
    <2> QED BY <2>1, <2>3, <2>5, <2>7
<1> QED
    BY <1>1, <1>4, <1>5

-----------------------------------------------------------------------------
(* The rounds of the denotation grow, and so does it with the seeds.        *)

\* More seeds and more firings offer a port no less.
LEMMA ArrivingMonotone ==
    ASSUME NEW g, NEW few, NEW more, few \subseteq more, NEW R, NEW S, R \subseteq S, NEW p
    PROVE  Arriving(g, few, R, p) \subseteq Arriving(g, more, S, p)
BY DEF Arriving

\* The ports of a program, counted from one.
LEMMA PortOf ==
    ASSUME NEW g \in Graphs, NEW o \in DOMAIN g.prog, NEW i \in 1..g.prog[o].arity
    PROVE  <<o, i - 1>> \in InPorts(g, o)
<1>1. g.prog[o].arity \in Nat
    BY GraphWords
<1>2. i - 1 \in 0..g.prog[o].arity - 1
    BY <1>1
<1> QED
    BY <1>2 DEF InPorts

\* A program takes the values offered to its ports, the only ones there are.
LEMMA TakenArrives ==
    ASSUME NEW g \in Graphs, SingleSource(g), NEW given, NEW R, OneEach(R),
           NEW o \in DOMAIN g.prog, NEW ins, ins = [i \in 1..g.prog[o].arity |-> ins[i]],
           \A i \in 1..g.prog[o].arity : ins[i] \in Arriving(g, given, R, <<o, i - 1>>)
    PROVE  ins = Taken(g, given, R, o)
<1>1. ASSUME NEW i \in 1..g.prog[o].arity
      PROVE  ins[i] = CHOOSE v \in Arriving(g, given, R, <<o, i - 1>>) : TRUE
    <2>1. AtMostOne(Arriving(g, given, R, <<o, i - 1>>))
        BY ArrivingOne
    <2>2. ins[i] \in Arriving(g, given, R, <<o, i - 1>>)
        OBVIOUS
    <2>3. (CHOOSE v \in Arriving(g, given, R, <<o, i - 1>>) : TRUE) \in Arriving(g, given, R, <<o, i - 1>>)
        BY <2>2
    <2> QED BY <2>1, <2>2, <2>3 DEF AtMostOne
<1> QED
    BY <1>1 DEF Taken

\* A round fires no less when it is given no less.
LEMMA FiringsMonotone ==
    ASSUME NEW g \in Graphs, SingleSource(g), NEW few, NEW more, few \subseteq more,
           NEW R, NEW S, R \subseteq S, OneEach(S)
    PROVE  Firings(g, few, R) \subseteq Firings(g, more, S)
<1> SUFFICES ASSUME NEW r \in Firings(g, few, R)
             PROVE  r \in Firings(g, more, S)
    OBVIOUS
<1>1. PICK o \in DOMAIN g.prog : Fed(g, few, R, o) /\ r \in Fires(g, few, R, o)
    BY FiringsAre
<1>2. \A p : Arriving(g, few, R, p) \subseteq Arriving(g, more, S, p)
    BY ArrivingMonotone
<1>3. Fed(g, more, S, o)
    BY <1>1, <1>2 DEF Fed
<1>4. ASSUME NEW i \in 1..g.prog[o].arity
      PROVE  Taken(g, few, R, o)[i] \in Arriving(g, more, S, <<o, i - 1>>)
    <2>1. <<o, i - 1>> \in InPorts(g, o)
        BY PortOf
    <2>2. Arriving(g, few, R, <<o, i - 1>>) # {}
        BY <1>1, <2>1 DEF Fed
    <2>3. (CHOOSE v \in Arriving(g, few, R, <<o, i - 1>>) : TRUE) \in Arriving(g, few, R, <<o, i - 1>>)
        BY <2>2
    <2> QED BY <1>2, <2>3 DEF Taken
<1>5. Taken(g, few, R, o) = [i \in 1..g.prog[o].arity |-> Taken(g, few, R, o)[i]]
    BY DEF Taken
<1>6. Taken(g, few, R, o) = Taken(g, more, S, o)
    BY <1>4, <1>5, TakenArrives
<1>7. r \in Fires(g, more, S, o)
    BY <1>1, <1>6 DEF Fires
<1> QED
    BY <1>3, <1>7, FiringsAre

\* The firings of n rounds.
IsRounds(f, n, g, given) ==
    f = [k \in 0..n |-> IF k = 0 THEN {} ELSE Firings(g, given, f[k - 1])]

\* Firing in rounds is a recursion that some function satisfies.
LEMMA RoundsExist ==
    ASSUME NEW g, NEW given, NEW n \in Nat
    PROVE  \E f : IsRounds(f, n, g, given)
<1> DEFINE T == {k \in Nat : ~ \E f : IsRounds(f, k, g, given)}
<1>1. SUFFICES ASSUME n \in T PROVE FALSE
    OBVIOUS
<1>2. PICK m \in T : \A k \in T : m <= k
    <2>1. T \subseteq Nat
        OBVIOUS
    <2> HIDE DEF T
    <2> QED BY <1>1, <2>1, LeastNatural
<1>3. CASE m = 0
    <2> DEFINE f == [k \in 0..0 |-> {}]
    <2>1. IsRounds(f, 0, g, given)
        BY DEF IsRounds
    <2> QED BY <1>2, <1>3, <2>1
<1>4. CASE m # 0
    <2>1. m - 1 \in Nat /\ m - 1 \notin T
        <3>1. m \in Nat
            BY <1>2
        <3> HIDE DEF T
        <3> QED BY <1>2, <1>4, <3>1
    <2>2. PICK f : IsRounds(f, m - 1, g, given)
        BY <2>1
    <2> DEFINE h == [k \in 0..m |-> IF k = 0 THEN {} ELSE Firings(g, given, f[k - 1])]
    <2>3. ASSUME NEW k \in 0..(m - 1)
          PROVE  h[k] = f[k]
        <3>1. k \in 0..m
            BY <1>2, <2>1
        <3> QED BY <2>2, <3>1 DEF IsRounds
    <2>4. \A k \in 0..m : k # 0 => k - 1 \in 0..(m - 1)
        BY <1>2
    <2>5. IsRounds(h, m, g, given)
        BY <2>3, <2>4 DEF IsRounds
    <2> QED BY <1>2, <2>5
<1> QED
    BY <1>3, <1>4

\* The rounds of a graph from the seeds given, one for each program.
RoundsOf(g, given) == CHOOSE f : IsRounds(f, Cardinality(DOMAIN g.prog), g, given)

\* What the rounds are, and that the last one is the denotation.
LEMMA RoundsFacts ==
    ASSUME NEW g \in Graphs, NEW given, NEW n, n = Cardinality(DOMAIN g.prog),
           NEW f, f = RoundsOf(g, given)
    PROVE  /\ n \in Nat
           /\ Denotation(g, given) = f[n]
           /\ f[0] = {}
           /\ \A k \in 1..n : f[k] = Firings(g, given, f[k - 1])
           /\ \A k \in 0..n : OneEach(f[k])
<1>1. n \in Nat
    BY GraphAssumption, FS_CardinalityType
<1>2. IsRounds(f, n, g, given)
    BY <1>1, RoundsExist DEF RoundsOf
<1>3. Denotation(g, given) = f[n]
    BY DEF Denotation, RoundsOf, IsRounds
<1>4. f[0] = {}
    BY <1>1, <1>2 DEF IsRounds
<1>5. \A k \in 1..n : f[k] = Firings(g, given, f[k - 1])
    <2>1. \A k \in 1..n : k \in 0..n /\ k # 0
        BY <1>1
    <2> QED BY <1>2, <2>1 DEF IsRounds
<1>6. ASSUME NEW k \in 0..n
      PROVE  OneEach(f[k])
    <2>1. CASE k = 0
        BY <1>4, <2>1 DEF OneEach
    <2>2. CASE k # 0
        <3>1. k \in 1..n
            BY <1>1, <2>2
        <3> QED BY <1>5, <3>1, FiringsOne
    <2> QED BY <2>1, <2>2
<1> QED
    BY <1>1, <1>3, <1>4, <1>5, <1>6

\* A round contains the round before it.
LEMMA RoundsGrow ==
    ASSUME NEW g \in Graphs, SingleSource(g), NEW given, NEW n, n = Cardinality(DOMAIN g.prog),
           NEW f, f = RoundsOf(g, given)
    PROVE  /\ \A k \in 1..n : f[k - 1] \subseteq f[k]
           /\ \A k \in 0..n : f[k] \subseteq f[n]
<1>1. /\ n \in Nat /\ f[0] = {}
      /\ \A k \in 1..n : f[k] = Firings(g, given, f[k - 1])
      /\ \A k \in 0..n : OneEach(f[k])
    BY RoundsFacts
<1> DEFINE U == {k \in 0..n : k = 0 \/ f[k - 1] \subseteq f[k]}
<1>2. 0 \in U
    BY <1>1
<1>3. ASSUME NEW k \in 1..n, k - 1 \in U
      PROVE  k \in U
    <2>0. k \in 0..n
        BY <1>1
    <2>1. CASE k = 1
        BY <1>1, <2>0, <2>1
    <2>2. CASE k # 1
        <3>1. k - 1 \in 1..n /\ k - 1 \in 0..n /\ (k - 1) - 1 \in 0..n
            BY <1>1, <2>2
        <3>2. f[(k - 1) - 1] \subseteq f[k - 1]
            BY <1>3, <3>1
        <3>3. OneEach(f[k - 1])
            BY <1>1, <3>1
        <3>4. Firings(g, given, f[(k - 1) - 1]) \subseteq Firings(g, given, f[k - 1])
            BY <3>2, <3>3, FiringsMonotone
        <3>5. f[k - 1] \subseteq f[k]
            BY <1>1, <3>1, <3>4
        <3> QED BY <2>0, <3>5
    <2> QED BY <2>1, <2>2
<1> HIDE DEF U
<1>4. \A k \in 0..n : k \in U
    BY <1>1, <1>2, <1>3, Climb
<1> USE DEF U
<1>5. \A k \in 1..n : f[k - 1] \subseteq f[k]
    <2>1. \A k \in 1..n : k \in 0..n /\ k # 0
        BY <1>1
    <2> QED BY <1>4, <2>1
<1> DEFINE D == {d \in 0..n : f[n - d] \subseteq f[n]}
<1>6. 0 \in D
    <2>1. n - 0 = n
        BY <1>1
    <2> QED BY <1>1, <2>1
<1>7. ASSUME NEW d \in 1..n, d - 1 \in D
      PROVE  d \in D
    <2>1. n - (d - 1) \in 1..n /\ (n - (d - 1)) - 1 = n - d /\ d \in 0..n
        BY <1>1
    <2>2. f[n - d] \subseteq f[n - (d - 1)]
        BY <1>5, <2>1
    <2> QED BY <1>7, <2>1, <2>2
<1> HIDE DEF D
<1>8. \A d \in 0..n : d \in D
    BY <1>1, <1>6, <1>7, Climb
<1> USE DEF D
<1>9. \A k \in 0..n : n - k \in 0..n /\ n - (n - k) = k
    BY <1>1
<1> QED
    BY <1>5, <1>8, <1>9

\* More seeds fire no less.
LEMMA DenotationMonotone ==
    ASSUME NEW g \in Graphs, SingleSource(g), NEW few, NEW more, few \subseteq more
    PROVE  Denotation(g, few) \subseteq Denotation(g, more)
<1> DEFINE n == Cardinality(DOMAIN g.prog)
           f == RoundsOf(g, few)
           h == RoundsOf(g, more)
           T == {k \in 0..n : f[k] \subseteq h[k]}
<1>1. /\ n \in Nat /\ f[0] = {} /\ Denotation(g, few) = f[n]
      /\ \A k \in 1..n : f[k] = Firings(g, few, f[k - 1])
    BY RoundsFacts
<1>2. /\ h[0] = {} /\ Denotation(g, more) = h[n]
      /\ \A k \in 1..n : h[k] = Firings(g, more, h[k - 1])
      /\ \A k \in 0..n : OneEach(h[k])
    BY RoundsFacts
<1> HIDE DEF n, f, h
<1>3. 0 \in T
    BY <1>1
<1>4. ASSUME NEW k \in 1..n, k - 1 \in T
      PROVE  k \in T
    <2>1. k \in 0..n /\ k - 1 \in 0..n
        BY <1>1
    <2>2. Firings(g, few, f[k - 1]) \subseteq Firings(g, more, h[k - 1])
        BY <1>2, <1>4, <2>1, FiringsMonotone
    <2> QED BY <1>1, <1>2, <2>1, <2>2
<1> HIDE DEF T
<1>5. \A k \in 0..n : k \in T
    BY <1>1, <1>3, <1>4, Climb
<1> USE DEF T
<1>6. f[n] \subseteq h[n]
    BY <1>1, <1>5
<1> QED
    BY <1>1, <1>2, <1>6

-----------------------------------------------------------------------------
(* A log in order against the denotation: its k-th record is in round k, and *)
(* when nothing is in flight and no program is ready, it has every round.   *)

\* A log that fires every program once is no longer than the program table.
LEMMA LogBounded ==
    ASSUME NEW g \in Graphs, NEW given, NEW lg, IsSequence(lg), OncePerOp(lg), Derived(g, given, lg)
    PROVE  Len(lg) \in Nat /\ DOMAIN lg = 1..Len(lg) /\ Len(lg) <= Cardinality(DOMAIN g.prog)
<1> DEFINE m == Len(lg)
           S == {lg[i].op : i \in 1..m}
           f == [i \in 1..m |-> lg[i].op]
<1>1. m \in Nat /\ DOMAIN lg = 1..m
    BY DEF IsSequence
<1>2. IsFiniteSet(1..m) /\ Cardinality(1..m) = m
    <2> HIDE DEF m
    <2> QED BY <1>1, FS_Interval
<1>3. f \in Bijection(1..m, S)
    BY <1>1 DEF OncePerOp, Bijection, Injection, Surjection, IsInjective
<1>4. ExistsBijection(1..m, S)
    BY <1>3 DEF ExistsBijection
<1>5. Cardinality(S) = m
    BY <1>2, <1>4, FS_Bijection
<1>6. S \subseteq DOMAIN g.prog
    BY <1>1 DEF Derived, DerivedFrom
<1>7. Cardinality(S) <= Cardinality(DOMAIN g.prog)
    <2> HIDE DEF S
    <2> QED BY <1>6, GraphAssumption, FS_Subset
<1> QED
    BY <1>1, <1>5, <1>7

\* The firings of the log are firings of the rounds, each as early as its place.
LEMMA LogDenoted ==
    ASSUME NEW g \in Graphs, SingleSource(g), NEW given, NEW lg, IsSequence(lg),
           OncePerOp(lg), Derived(g, given, lg)
    PROVE  ToSet(lg) \subseteq Denotation(g, given)
<1> DEFINE n == Cardinality(DOMAIN g.prog)
           m == Len(lg)
           f == RoundsOf(g, given)
           Before(i) == {lg[j] : j \in 1..i}
           T == {i \in 0..m : Before(i) \subseteq f[i]}
<1>1. m \in Nat /\ DOMAIN lg = 1..m /\ m <= n
    BY LogBounded
<1>2. /\ n \in Nat /\ Denotation(g, given) = f[n]
      /\ \A k \in 1..n : f[k] = Firings(g, given, f[k - 1])
      /\ \A k \in 0..n : OneEach(f[k])
    BY RoundsFacts
<1>3. /\ \A k \in 1..n : f[k - 1] \subseteq f[k]
      /\ \A k \in 0..n : f[k] \subseteq f[n]
    BY RoundsGrow
<1> HIDE DEF n, m, f
<1>4. 0 \in T
    <2>1. 1..0 = {} /\ 0 \in 0..m
        BY <1>1
    <2> QED BY <2>1
<1>5. ASSUME NEW i \in 1..m, i - 1 \in T
      PROVE  i \in T
    <2>1. i \in 1..n /\ i - 1 \in 0..n /\ i \in 0..m
        BY <1>1, <1>2
    <2>2. Before(i - 1) \subseteq f[i - 1] /\ f[i - 1] \subseteq f[i]
        BY <1>3, <1>5, <2>1
    <2> DEFINE r == lg[i]
               o == lg[i].op
    <2>3. /\ o \in DOMAIN g.prog /\ g.prog[o].arity > 0
          /\ r = [op |-> o, inputs |-> r.inputs, outputs |-> r.outputs]
          /\ r.inputs = [k \in 1..g.prog[o].arity |-> r.inputs[k]]
          /\ \A k \in 1..g.prog[o].arity :
                r.inputs[k] \in Arriving(g, given, Before(i - 1), <<o, k - 1>>)
          /\ r.outputs \in Outcome(g.prog, o, r.inputs, Value)
        BY <1>1 DEF Derived, DerivedFrom
    <2> HIDE DEF Before, r, o
    <2>4. \A k \in 1..g.prog[o].arity : r.inputs[k] \in Arriving(g, given, f[i - 1], <<o, k - 1>>)
        BY <2>2, <2>3, ArrivingMonotone
    <2>5. r.inputs = Taken(g, given, f[i - 1], o)
        <3>1. OneEach(f[i - 1])
            BY <1>2, <2>1
        <3> QED BY <2>3, <2>4, <3>1, TakenArrives
    <2>6. Fed(g, given, f[i - 1], o)
        <3>1. ASSUME NEW p \in InPorts(g, o)
              PROVE  Arriving(g, given, f[i - 1], p) # {}
            <4>1. PICK k \in 0..g.prog[o].arity - 1 : p = <<o, k>>
                BY DEF InPorts
            <4>2. k + 1 \in 1..g.prog[o].arity /\ (k + 1) - 1 = k
                BY <2>3, GraphWords
            <4> QED BY <2>4, <4>1, <4>2
        <3> QED BY <2>3, <3>1 DEF Fed
    <2>7. r \in Firings(g, given, f[i - 1])
        <3>1. r \in Fires(g, given, f[i - 1], o)
            BY <2>3, <2>5 DEF Fires
        <3> QED BY <2>3, <2>6, <3>1, FiringsAre
    <2>8. r \in f[i]
        BY <1>2, <2>1, <2>7
    <2>9. Before(i) \subseteq Before(i - 1) \cup {r}
        BY <2>1 DEF Before, r
    <2> QED BY <2>1, <2>2, <2>8, <2>9
<1> HIDE DEF T
<1>6. \A i \in 0..m : i \in T
    BY <1>1, <1>4, <1>5, Climb
<1> USE DEF T
<1>7. Before(m) \subseteq f[m] /\ f[m] \subseteq f[n]
    BY <1>1, <1>2, <1>3, <1>6
<1>8. ToSet(lg) = Before(m)
    BY <1>1 DEF ToSet
<1> QED
    BY <1>2, <1>7, <1>8

\* Nothing in flight, no program ready: every firing of the rounds is in the log.
LEMMA DenotedLogged ==
    ASSUME NEW g \in Graphs, SingleSource(g), NEW given, NEW lg, IsSequence(lg), NEW fill,
           NEW fly, DOMAIN fly = {}, InOrder(g, given, fill, fly, lg),
           \A o \in DOMAIN g.prog : g.prog[o].arity > 0 => ~(InPorts(g, o) \subseteq DOMAIN fill)
    PROVE  Denotation(g, given) \subseteq ToSet(lg)
<1> DEFINE n == Cardinality(DOMAIN g.prog)
           f == RoundsOf(g, given)
           T == {k \in 0..n : f[k] \subseteq ToSet(lg)}
<1>1. OncePerOp(lg) /\ Derived(g, given, lg) /\ Arrived(g, given, fill, fly, lg)
    BY DEF InOrder
<1>2. /\ n \in Nat /\ Denotation(g, given) = f[n] /\ f[0] = {}
      /\ \A k \in 1..n : f[k] = Firings(g, given, f[k - 1])
      /\ \A k \in 0..n : OneEach(f[k])
    <2> HIDE DEF T, n, f
    <2>1. n = Cardinality(DOMAIN g.prog) /\ f = RoundsOf(g, given)
        BY DEF n, f
    <2>2. /\ n \in Nat
          /\ Denotation(g, given) = f[n]
          /\ f[0] = {}
          /\ \A k \in 1..n : f[k] = Firings(g, given, f[k - 1])
          /\ \A k \in 0..n : OneEach(f[k])
        BY ONLY g \in Graphs, <2>1, RoundsFacts
    <2> QED BY <2>2
<1>3. \A k \in 0..n : f[k] \subseteq f[n]
    BY RoundsGrow
<1>4. ToSet(lg) \subseteq f[n]
    BY <1>1, <1>2, LogDenoted
<1> HIDE DEF n, f
<1>5. 0 \in T
    BY <1>2
<1>6. ASSUME NEW k \in 1..n, k - 1 \in T
      PROVE  k \in T
    <2>1. k \in 0..n /\ k - 1 \in 0..n
        BY <1>2
    <2>2. f[k - 1] \subseteq ToSet(lg)
        BY <1>6
    <2>3. ASSUME NEW r \in f[k]
          PROVE  r \in ToSet(lg)
        <3>1. PICK o \in DOMAIN g.prog : Fed(g, given, f[k - 1], o) /\ r \in Fires(g, given, f[k - 1], o)
            BY <1>2, FiringsAre
        <3>2. ASSUME o \notin Logged(lg), NEW p \in InPorts(g, o)
              PROVE  p \in DOMAIN fill
            <4>1. PICK v \in Arriving(g, given, f[k - 1], p) : TRUE
                BY <3>1 DEF Fed
            <4>2. p[1] = o
                BY DEF InPorts
            <4>3. CASE v \in given /\ <<<<"value", v>>, p>> \in g.edges
                <5>1. p \in consumers_of(g, <<"value", v>>)
                    BY <4>3 DEF consumers_of
                <5>2. Reached(fill, lg, p)
                    BY <1>1, <4>3, <5>1 DEF Arrived
                <5> QED BY <3>2, <4>2, <5>2 DEF Reached
            <4>4. CASE \E s \in f[k - 1] : \E i \in DOMAIN s.outputs :
                            <<<<"out", s.op, i - 1>>, p>> \in g.edges
                <5>1. PICK s \in f[k - 1] : \E i \in DOMAIN s.outputs :
                            <<<<"out", s.op, i - 1>>, p>> \in g.edges
                    BY <4>4
                <5>2. PICK i \in DOMAIN s.outputs : <<<<"out", s.op, i - 1>>, p>> \in g.edges
                    BY <5>1
                <5>3. PICK j \in DOMAIN lg : s = lg[j]
                    BY <2>2 DEF ToSet
                <5>4. p \in consumers_of(g, <<"out", s.op, i - 1>>)
                    BY <5>2 DEF consumers_of
                <5>5. Reached(fill, lg, p)
                    BY <1>1, <5>2, <5>3, <5>4 DEF Arrived
                <5> QED BY <3>2, <4>2, <5>5 DEF Reached
            <4> QED BY <4>1, <4>3, <4>4 DEF Arriving
        <3>3. o \in Logged(lg)
            BY <3>1, <3>2 DEF Fed
        <3>4. PICK j \in DOMAIN lg : lg[j].op = o
            BY <3>3 DEF Logged
        <3>5. lg[j] \in f[n] /\ r \in f[n] /\ lg[j] \in ToSet(lg)
            BY <1>3, <1>4, <2>1 DEF ToSet
        <3>6. r.op = o
            BY <3>1 DEF Fires
        <3>7. r = lg[j]
            <4>1. OneEach(f[n])
                BY <1>2
            <4> QED BY <3>4, <3>5, <3>6, <4>1 DEF OneEach
        <3> QED BY <3>5, <3>7
    <2> QED BY <2>1, <2>3
<1> HIDE DEF T
<1>7. \A k \in 0..n : k \in T
    BY <1>2, <1>5, <1>6, Climb
<1> USE DEF T
<1>8. f[n] \subseteq ToSet(lg)
    BY <1>2, <1>7
<1> QED
    BY <1>2, <1>8

-----------------------------------------------------------------------------
(* Seeding and delivering keep the order.                                   *)

\* The consumers of a source are the ports its edges lead to.
LEMMA ConsumerEdge ==
    ASSUME NEW g \in Graphs, NEW from, NEW p
    PROVE  p \in consumers_of(g, from) <=> <<from, p>> \in g.edges
<1>1. ASSUME NEW e \in g.edges, e[1] = from, e[2] = p
      PROVE  <<from, p>> \in g.edges
    BY <1>1, GraphAssumption
<1>2. p \in consumers_of(g, from) => \E e \in g.edges : e[1] = from /\ e[2] = p
    BY DEF consumers_of
<1>3. ASSUME <<from, p>> \in g.edges
      PROVE  p \in consumers_of(g, from)
    BY <1>3 DEF consumers_of
<1> QED
    BY <1>1, <1>2, <1>3

\* On a graph with one source per port, two sources of a port are the same.
LEMMA OneSource ==
    ASSUME NEW g, SingleSource(g), NEW f, NEW h, NEW p, <<f, p>> \in g.edges, <<h, p>> \in g.edges
    PROVE  f = h
<1>1. <<f, p>>[2] = <<h, p>>[2]
    OBVIOUS
<1>2. <<f, p>> = <<h, p>>
    BY <1>1 DEF SingleSource
<1> QED
    BY <1>2

\* What arrives at a port wired to a value is that value, and it was seeded.
LEMMA FromValue ==
    ASSUME NEW g, SingleSource(g), NEW given, NEW R, NEW p, NEW v, <<<<"value", v>>, p>> \in g.edges,
           NEW x \in Arriving(g, given, R, p)
    PROVE  x = v /\ v \in given
<1>1. \A u : <<<<"value", u>>, p>> \in g.edges => u = v
    <2> TAKE u
    <2>1. <<<<"value", u>>, p>> \in g.edges => <<"value", u>> = <<"value", v>>
        BY OneSource
    <2> QED BY <2>1
<1>2. \A o, k : <<<<"out", o, k>>, p>> \notin g.edges
    <2> TAKE o, k
    <2>1. <<<<"out", o, k>>, p>> \in g.edges => <<"out", o, k>> = <<"value", v>>
        BY OneSource
    <2> QED BY <2>1
<1> QED
    BY <1>1, <1>2 DEF Arriving

\* What arrives at a port wired to an output comes from a firing of that program.
LEMMA FromOutput ==
    ASSUME NEW g, SingleSource(g), NEW given, NEW R, NEW p, NEW o, NEW k,
           <<<<"out", o, k>>, p>> \in g.edges, NEW x \in Arriving(g, given, R, p)
    PROVE  \E r \in R : r.op = o
<1>1. \A u : <<<<"value", u>>, p>> \notin g.edges
    <2> TAKE u
    <2>1. <<<<"value", u>>, p>> \in g.edges => <<"value", u>> = <<"out", o, k>>
        BY OneSource
    <2> QED BY <2>1
<1>2. \A q, j : <<<<"out", q, j>>, p>> \in g.edges => q = o
    <2> TAKE q, j
    <2>1. <<<<"out", q, j>>, p>> \in g.edges => <<"out", q, j>> = <<"out", o, k>>
        BY OneSource
    <2> QED BY <2>1
<1> QED
    BY <1>1, <1>2 DEF Arriving

\* On a wired graph a port that something is offered to belongs to its program.
LEMMA WiredPort ==
    ASSUME NEW g, Wired(g), NEW from, NEW p, <<from, p>> \in g.edges
    PROVE  p[1] \in DOMAIN g.prog /\ p \in InPorts(g, p[1])
<1>1. <<from, p>>[2] = p
    OBVIOUS
<1>2. PICK o \in DOMAIN g.prog : p \in InPorts(g, o)
    BY <1>1 DEF Wired
<1>3. p[1] = o
    BY <1>2 DEF InPorts
<1> QED
    BY <1>2, <1>3

\* Something is offered along an edge.
LEMMA ArrivingEdge ==
    ASSUME NEW g, NEW given, NEW R, NEW p, NEW x \in Arriving(g, given, R, p)
    PROVE  \E from : <<from, p>> \in g.edges
BY DEF Arriving

\* A port of a program that fired had something offered.
LEMMA LoggedPort ==
    ASSUME NEW g \in Graphs, Wired(g), NEW given, NEW lg, IsSequence(lg), Derived(g, given, lg),
           NEW from, NEW p, <<from, p>> \in g.edges, p[1] \in Logged(lg)
    PROVE  \E x : x \in Arriving(g, given, ToSet(lg), p)
<1>1. PICK i \in DOMAIN lg : lg[i].op = p[1]
    BY DEF Logged
<1>2. p[1] \in DOMAIN g.prog /\ p \in InPorts(g, p[1])
    BY WiredPort
<1>3. PICK k \in 0..g.prog[p[1]].arity - 1 : p = <<p[1], k>>
    BY <1>2 DEF InPorts
<1>4. k + 1 \in 1..g.prog[p[1]].arity /\ (k + 1) - 1 = k
    BY <1>2, <1>3, GraphWords
<1>5. lg[i].inputs[k + 1] \in Arriving(g, given, {lg[j] : j \in 1..(i - 1)}, <<p[1], (k + 1) - 1>>)
    BY <1>1, <1>4 DEF Derived, DerivedFrom
<1>6. {lg[j] : j \in 1..(i - 1)} \subseteq ToSet(lg)
    <2>1. PICK m \in Nat : DOMAIN lg = 1..m
        BY DEF IsSequence
    <2>2. \A j \in 1..(i - 1) : j \in DOMAIN lg
        BY <2>1
    <2> QED BY <2>2 DEF ToSet
<1>7. <<p[1], (k + 1) - 1>> = p
    BY <1>3, <1>4
<1>8. Arriving(g, given, {lg[j] : j \in 1..(i - 1)}, p) \subseteq Arriving(g, given, ToSet(lg), p)
    BY <1>6, ArrivingMonotone
<1> QED
    BY <1>5, <1>7, <1>8

\* A new seed: none of its consumers has it yet.
LEMMA SeedInOrder ==
    ASSUME NEW g \in Graphs, Wired(g), SingleSource(g), NEW given, NEW fill, NEW fly, NEW lg,
           IsSequence(lg), InOrder(g, given, fill, fly, lg),
           NEW v, v \notin given, NEW fly2,
           DOMAIN fly2 = DOMAIN fly \cup {v},
           v \notin DOMAIN fly => fly2[v] = 1,
           \A u \in DOMAIN fly \ {v} : fly2[u] = fly[u]
    PROVE  InOrder(g, given \cup {v}, fill, fly2, lg)
<1> DEFINE more == given \cup {v}
           C(u) == consumers_of(g, <<"value", u>>)
<1>1. /\ OncePerOp(lg) /\ Derived(g, given, lg) /\ HeldPorts(g, given, fill, lg)
      /\ OnTheWay(g, given, fill, fly, lg) /\ Arrived(g, given, fill, fly, lg)
    BY DEF InOrder
<1>2. \A R, p : Arriving(g, given, R, p) \subseteq Arriving(g, more, R, p)
    BY ArrivingMonotone
<1> HIDE DEF more
<1>3. Derived(g, more, lg)
    BY <1>1, <1>2 DEF Derived, DerivedFrom
<1>4. HeldPorts(g, more, fill, lg)
    BY <1>1, <1>2 DEF HeldPorts
<1>5. ASSUME NEW u \in DOMAIN fly2, C(u) # {}
      PROVE  /\ fly2[u] = 1 /\ u \in more
             /\ \A p \in C(u) : p \notin DOMAIN fill /\ p[1] \notin Logged(lg)
    <2>1. CASE u = v
        <3>1. v \notin DOMAIN fly
            BY <1>1, <1>5, <2>1 DEF OnTheWay
        <3>2. ASSUME NEW p \in C(u)
              PROVE  p \notin DOMAIN fill /\ p[1] \notin Logged(lg)
            <4>1. <<<<"value", v>>, p>> \in g.edges
                BY <2>1, ConsumerEdge
            <4>2. p \notin DOMAIN fill
                BY <1>1, <4>1, FromValue DEF HeldPorts
            <4>3. p[1] \notin Logged(lg)
                BY <1>1, <4>1, LoggedPort, FromValue
            <4> QED BY <4>2, <4>3
        <3> QED BY <2>1, <3>1, <3>2 DEF more
    <2>2. CASE u # v
        BY <1>1, <1>5, <2>2 DEF OnTheWay, more
    <2> QED BY <2>1, <2>2
<1>6. OnTheWay(g, more, fill, fly2, lg)
    BY <1>5 DEF OnTheWay
<1>7. Arrived(g, more, fill, fly2, lg)
    BY <1>1 DEF Arrived, more
<1> QED
    BY <1>1, <1>3, <1>4, <1>6, <1>7 DEF InOrder, more

\* A value delivered: its consumers hold it.
LEMMA DeliverInOrder ==
    ASSUME NEW g \in Graphs, SingleSource(g), NEW given, NEW fill, NEW fly, NEW lg,
           InOrder(g, given, fill, fly, lg),
           NEW v \in DOMAIN fly, NEW fly2, NEW C, C = consumers_of(g, <<"value", v>>),
           DOMAIN fly \ {v} \subseteq DOMAIN fly2, DOMAIN fly2 \subseteq DOMAIN fly,
           fly[v] = 1 => v \notin DOMAIN fly2,
           \A u \in DOMAIN fly2 \ {v} : fly2[u] = fly[u],
           NEW fill2, fill2 = [p \in DOMAIN fill \cup C |-> IF p \in DOMAIN fill THEN fill[p] ELSE v]
    PROVE  InOrder(g, given, fill2, fly2, lg)
<1>1. /\ OncePerOp(lg) /\ Derived(g, given, lg) /\ HeldPorts(g, given, fill, lg)
      /\ OnTheWay(g, given, fill, fly, lg) /\ Arrived(g, given, fill, fly, lg)
    BY DEF InOrder
<1>2. /\ DOMAIN fill2 = DOMAIN fill \cup C
      /\ \A p \in DOMAIN fill : fill2[p] = fill[p]
      /\ \A p \in C \ DOMAIN fill : fill2[p] = v
    OBVIOUS
<1>3. ASSUME NEW p \in DOMAIN fill2
      PROVE  p[1] \notin Logged(lg) /\ fill2[p] \in Arriving(g, given, ToSet(lg), p)
    <2>1. CASE p \in DOMAIN fill
        BY <1>1, <1>2, <2>1 DEF HeldPorts
    <2>2. CASE p \in C \ DOMAIN fill
        <3>1. v \in given /\ p[1] \notin Logged(lg)
            BY <1>1, <2>2 DEF OnTheWay
        <3>2. <<<<"value", v>>, p>> \in g.edges
            BY <2>2, ConsumerEdge
        <3>3. v \in Arriving(g, given, ToSet(lg), p)
            BY <3>1, <3>2 DEF Arriving
        <3> QED BY <1>2, <2>2, <3>1, <3>3
    <2> QED BY <1>2, <2>1, <2>2
<1>4. HeldPorts(g, given, fill2, lg)
    BY <1>3 DEF HeldPorts
<1>5. ASSUME NEW u \in DOMAIN fly2, consumers_of(g, <<"value", u>>) # {}
      PROVE  /\ fly2[u] = 1 /\ u \in given
             /\ \A p \in consumers_of(g, <<"value", u>>) :
                    p \notin DOMAIN fill2 /\ p[1] \notin Logged(lg)
    <2>1. u # v
        BY <1>1, <1>5 DEF OnTheWay
    <2>2. /\ fly[u] = 1 /\ u \in given
          /\ \A p \in consumers_of(g, <<"value", u>>) : p \notin DOMAIN fill /\ p[1] \notin Logged(lg)
        BY <1>1, <1>5 DEF OnTheWay
    <2>3. \A p \in consumers_of(g, <<"value", u>>) : p \notin C
        <3> SUFFICES ASSUME NEW p \in consumers_of(g, <<"value", u>>), p \in C
                     PROVE  FALSE
            OBVIOUS
        <3>1. <<<<"value", u>>, p>> \in g.edges /\ <<<<"value", v>>, p>> \in g.edges
            BY ConsumerEdge
        <3>2. <<"value", u>> = <<"value", v>>
            BY <3>1, OneSource
        <3> QED BY <2>1, <3>2
    <2> QED BY <1>2, <2>1, <2>2, <2>3
<1>6. OnTheWay(g, given, fill2, fly2, lg)
    BY <1>5 DEF OnTheWay
<1>7. \A p : Reached(fill, lg, p) => Reached(fill2, lg, p)
    BY <1>2 DEF Reached
<1>8. ASSUME NEW u \in given, u \notin DOMAIN fly2, NEW p \in consumers_of(g, <<"value", u>>)
      PROVE  Reached(fill2, lg, p)
    <2>1. CASE u = v
        BY <1>2, <2>1 DEF Reached
    <2>2. CASE u # v
        <3>1. u \notin DOMAIN fly
            BY <1>8, <2>2
        <3> QED BY <1>1, <1>7, <3>1 DEF Arrived
    <2> QED BY <2>1, <2>2
<1>9. Arrived(g, given, fill2, fly2, lg)
    BY <1>1, <1>7, <1>8 DEF Arrived
<1> QED
    BY <1>1, <1>4, <1>6, <1>9 DEF InOrder

-----------------------------------------------------------------------------
(* Firing keeps it.                                                         *)

\* A log with one more firing, its m + 1st.
Longer(lg, r, lg2, m) ==
    /\ m \in Nat /\ DOMAIN lg = 1..m
    /\ IsSequence(lg2) /\ DOMAIN lg2 = 1..(m + 1)
    /\ \A i \in 1..m : lg2[i] = lg[i]
    /\ lg2[m + 1] = r
    /\ ToSet(lg2) = ToSet(lg) \cup {r}
    /\ Logged(lg2) = Logged(lg) \cup {r.op}

\* Logging a firing makes the log longer by it.
LEMMA LongerLog ==
    ASSUME NEW lg, IsSequence(lg), NEW r, NEW lg2, lg2 = Append(lg, r)
    PROVE  Longer(lg, r, lg2, Len(lg))
<1> DEFINE m == Len(lg)
<1>1. PICK S : lg \in Seq(S)
    BY DEF IsSequence
<1> DEFINE T == S \cup {r}
<1>2. lg \in Seq(T) /\ r \in T
    BY <1>1
<1> HIDE DEF T
<1>3. /\ m \in Nat /\ DOMAIN lg = 1..m
      /\ lg2 \in Seq(T) /\ DOMAIN lg2 = 1..(m + 1)
      /\ \A i \in 1..m : lg2[i] = lg[i]
      /\ lg2[m + 1] = r
    BY <1>2
<1>4. IsSequence(lg2)
    BY <1>3 DEF IsSequence
<1>5. \A i \in 1..(m + 1) : i \in 1..m \/ i = m + 1
    BY <1>3
<1>6. \A i \in 1..m : i \in 1..(m + 1)
    BY <1>3
<1>7. m + 1 \in 1..(m + 1)
    BY <1>3
<1>8. ToSet(lg2) = ToSet(lg) \cup {r}
    BY <1>3, <1>5, <1>6, <1>7 DEF ToSet
<1>9. Logged(lg2) = Logged(lg) \cup {r.op}
    BY <1>3, <1>5, <1>6, <1>7 DEF Logged
<1> QED
    BY <1>3, <1>4, <1>8, <1>9 DEF Longer

\* A program that fires has not fired before, and its firing is derived.
LEMMA FireDerived ==
    ASSUME NEW g \in Graphs, SingleSource(g), NEW given, NEW fill, NEW fly, NEW lg,
           IsSequence(lg), InOrder(g, given, fill, fly, lg),
           NEW o \in DOMAIN g.prog, g.prog[o].arity > 0, InPorts(g, o) \subseteq DOMAIN fill,
           NEW ins, ins = [i \in 1..g.prog[o].arity |-> fill[<<o, i - 1>>]],
           NEW outs \in Outcome(g.prog, o, ins, Value),
           NEW lg2, lg2 = Append(lg, [op |-> o, inputs |-> ins, outputs |-> outs])
    PROVE  o \notin Logged(lg) /\ OncePerOp(lg2) /\ Derived(g, given, lg2)
<1> DEFINE m == Len(lg)
           r == [op |-> o, inputs |-> ins, outputs |-> outs]
           n == g.prog[o].arity
<1>1. OncePerOp(lg) /\ Derived(g, given, lg) /\ HeldPorts(g, given, fill, lg)
    BY DEF InOrder
<1>2. /\ m \in Nat /\ DOMAIN lg = 1..m
      /\ DOMAIN lg2 = 1..(m + 1)
      /\ \A i \in 1..m : lg2[i] = lg[i]
      /\ lg2[m + 1] = r
    <2>1. Longer(lg, r, lg2, m)
        BY LongerLog
    <2> HIDE DEF r, m
    <2> QED BY <2>1 DEF Longer
<1>3. n \in Nat /\ \A i \in 1..n : <<o, i - 1>> \in InPorts(g, o)
    BY GraphWords, PortOf
<1> HIDE DEF m
<1>4. o \notin Logged(lg)
    <2>1. <<o, 1 - 1>> \in DOMAIN fill /\ <<o, 1 - 1>>[1] = o
        BY <1>3
    <2> QED BY <1>1, <2>1 DEF HeldPorts
<1>5. \A i \in 1..(m + 1) : i \in 1..m \/ i = m + 1
    BY <1>2
<1>6. OncePerOp(lg2)
    <2>1. \A i \in 1..m : lg2[i].op # o
        BY <1>2, <1>4 DEF Logged
    <2> QED BY <1>1, <1>2, <1>5, <2>1 DEF OncePerOp
<1>7. \A i \in 1..(m + 1) : {lg2[j] : j \in 1..(i - 1)} = {lg[j] : j \in 1..(i - 1)}
    <2> TAKE i \in 1..(m + 1)
    <2>1. \A j \in 1..(i - 1) : j \in 1..m
        BY <1>2
    <2> QED BY <1>2, <2>1
<1>8. ASSUME NEW i \in DOMAIN lg2
      PROVE  DerivedFrom(g, given, {lg2[j] : j \in 1..(i - 1)}, lg2[i])
    <2>1. CASE i \in 1..m
        BY <1>1, <1>2, <1>7, <2>1 DEF Derived
    <2>2. CASE i = m + 1
        <3>1. lg2[i] = r /\ (m + 1) - 1 = m
            BY <1>2, <2>2
        <3>2. {lg2[j] : j \in 1..(i - 1)} = ToSet(lg)
            BY <1>2, <1>7, <2>2, <3>1 DEF ToSet
        <3>3. ASSUME NEW l \in 1..n
              PROVE  ins[l] \in Arriving(g, given, ToSet(lg), <<o, l - 1>>)
            BY <1>1, <1>3 DEF HeldPorts
        <3>4. ins = [l \in 1..n |-> ins[l]]
            OBVIOUS
        <3>5. DerivedFrom(g, given, ToSet(lg), r)
            BY <3>3, <3>4 DEF DerivedFrom
        <3> QED BY <3>1, <3>2, <3>5
    <2> QED BY <1>2, <1>5, <2>1, <2>2
<1>9. Derived(g, given, lg2)
    BY <1>8 DEF Derived
<1> QED
    BY <1>4, <1>6, <1>9

\* What firing o does to the values in flight and to the ports.
FireEffect(g, o, outs, fill, fly, fill2, fly2) ==
    LET kept == DOMAIN fill \ InPorts(g, o)
        fed  == UNION {consumers_of(g, <<"out", o, i - 1>>) : i \in DOMAIN outs}
    IN  /\ DOMAIN fly2 = DOMAIN fly \cup ToSet(outs)
        /\ \A u \in DOMAIN fly \ ToSet(outs) : fly2[u] = fly[u]
        /\ DOMAIN fill2 = kept \cup fed
        /\ \A p \in kept : fill2[p] = fill[p]
        /\ \A p \in fed \ kept : \E i \in DOMAIN outs :
                fill2[p] = outs[i] /\ p \in consumers_of(g, <<"out", o, i - 1>>)

\* A program fired: its ports are free for good, and what its outputs are wired to
\* holds them.
LEMMA FireInOrder ==
    ASSUME NEW g \in Graphs, Wired(g), SingleSource(g), NEW given, Fresh(g, given),
           NEW fill, NEW fly, NEW lg, IsSequence(lg), InOrder(g, given, fill, fly, lg),
           NEW o \in DOMAIN g.prog, g.prog[o].arity > 0, InPorts(g, o) \subseteq DOMAIN fill,
           NEW ins, ins = [i \in 1..g.prog[o].arity |-> fill[<<o, i - 1>>]],
           NEW outs \in Outcome(g.prog, o, ins, Value),
           NEW fly2, NEW fill2, FireEffect(g, o, outs, fill, fly, fill2, fly2),
           NEW lg2, lg2 = Append(lg, [op |-> o, inputs |-> ins, outputs |-> outs])
    PROVE  InOrder(g, given, fill2, fly2, lg2)
<1>3. o \notin Logged(lg) /\ OncePerOp(lg2) /\ Derived(g, given, lg2)
    BY FireDerived
<1> DEFINE kept == DOMAIN fill \ InPorts(g, o)
           fed  == UNION {consumers_of(g, <<"out", o, i - 1>>) : i \in DOMAIN outs}
<1>0. /\ DOMAIN fly2 = DOMAIN fly \cup ToSet(outs)
      /\ \A u \in DOMAIN fly \ ToSet(outs) : fly2[u] = fly[u]
      /\ DOMAIN fill2 = kept \cup fed
      /\ \A p \in kept : fill2[p] = fill[p]
      /\ \A p \in fed \ kept : \E i \in DOMAIN outs :
            fill2[p] = outs[i] /\ p \in consumers_of(g, <<"out", o, i - 1>>)
    BY DEF FireEffect
<1> USE <1>0
<1> DEFINE m == Len(lg)
           r == [op |-> o, inputs |-> ins, outputs |-> outs]
<1>1. /\ OncePerOp(lg) /\ Derived(g, given, lg) /\ HeldPorts(g, given, fill, lg)
      /\ OnTheWay(g, given, fill, fly, lg) /\ Arrived(g, given, fill, fly, lg)
    BY DEF InOrder
<1>2. /\ m \in Nat /\ DOMAIN lg = 1..m
      /\ IsSequence(lg2) /\ DOMAIN lg2 = 1..(m + 1)
      /\ \A i \in 1..m : lg2[i] = lg[i]
      /\ lg2[m + 1] = r
      /\ ToSet(lg2) = ToSet(lg) \cup {r}
      /\ Logged(lg2) = Logged(lg) \cup {r.op}
    <2>1. Longer(lg, r, lg2, m)
        BY LongerLog
    <2> HIDE DEF r, m
    <2> QED BY <2>1 DEF Longer
<1> HIDE DEF m
<1>4. \A v \in ToSet(outs) : consumers_of(g, <<"value", v>>) = {}
    <2>1. r \in Denotation(g, given)
        BY <1>2, <1>3, LogDenoted
    <2>2. r.outputs = outs
        OBVIOUS
    <2> QED BY <2>1, <2>2 DEF Fresh
<1>5. \A p, from : <<from, p>> \in g.edges /\ p[1] = o => p \in InPorts(g, o)
    BY WiredPort
<1>6. \A p \in fed : \E k : <<<<"out", o, k>>, p>> \in g.edges
    <2> SUFFICES ASSUME NEW i \in DOMAIN outs, NEW p \in consumers_of(g, <<"out", o, i - 1>>)
                 PROVE  \E k : <<<<"out", o, k>>, p>> \in g.edges
        OBVIOUS
    <2>1. <<<<"out", o, i - 1>>, p>> \in g.edges
        BY ConsumerEdge
    <2> QED BY <2>1
<1>7. \A R : R \subseteq ToSet(lg) => \A s \in R : s.op # o
    BY <1>3 DEF Logged, ToSet
<1>8. ASSUME NEW p \in DOMAIN fill2
      PROVE  p[1] \notin Logged(lg2) /\ fill2[p] \in Arriving(g, given, ToSet(lg2), p)
    <2>1. CASE p \in kept
        <3>1. p \in DOMAIN fill /\ p \notin InPorts(g, o)
            BY <2>1
        <3>2. p[1] \notin Logged(lg) /\ fill[p] \in Arriving(g, given, ToSet(lg), p)
            BY <1>1, <3>1 DEF HeldPorts
        <3>3. p[1] # o
            BY <1>5, <3>1, <3>2, ArrivingEdge
        <3>4. fill[p] \in Arriving(g, given, ToSet(lg2), p)
            <4>1. ToSet(lg) \subseteq ToSet(lg2)
                BY <1>2
            <4> QED BY <3>2, <4>1, ArrivingMonotone
        <3> QED BY <1>2, <2>1, <3>2, <3>3, <3>4
    <2>2. CASE p \in fed \ kept
        <3>1. PICK k : <<<<"out", o, k>>, p>> \in g.edges
            BY <1>6, <2>2
        <3>2. \A x : x \notin Arriving(g, given, ToSet(lg), p)
            <4> SUFFICES ASSUME NEW x \in Arriving(g, given, ToSet(lg), p)
                         PROVE  FALSE
                OBVIOUS
            <4>1. \E s \in ToSet(lg) : s.op = o
                BY ONLY SingleSource(g), <3>1, x \in Arriving(g, given, ToSet(lg), p), FromOutput
            <4> QED BY <1>7, <4>1
        <3>3. p[1] \notin Logged(lg)
            BY <1>1, <3>1, <3>2, LoggedPort
        <3>4. p[1] # o
            <4>1. p \notin DOMAIN fill
                BY <1>1, <3>2 DEF HeldPorts
            <4> QED BY <1>5, <3>1, <4>1
        <3>5. PICK i \in DOMAIN outs : fill2[p] = outs[i] /\ p \in consumers_of(g, <<"out", o, i - 1>>)
            BY <2>2
        <3>6. <<<<"out", r.op, i - 1>>, p>> \in g.edges /\ r.outputs[i] = fill2[p] /\ i \in DOMAIN r.outputs
            BY <3>5, ConsumerEdge
        <3>7. fill2[p] \in Arriving(g, given, {r}, p)
            <4> DEFINE Out(s) == {s.outputs[l] : l \in {l \in DOMAIN s.outputs :
                                    <<<<"out", s.op, l - 1>>, p>> \in g.edges}}
            <4>1. fill2[p] \in Out(r)
                BY <3>6
            <4>2. Out(r) \subseteq UNION {Out(s) : s \in {r}}
                <5> HIDE DEF Out, r
                <5> QED OBVIOUS
            <4>3. UNION {Out(s) : s \in {r}} \subseteq Arriving(g, given, {r}, p)
                BY DEF Arriving
            <4> HIDE DEF Out, r
            <4> QED BY <4>1, <4>2, <4>3
        <3>8. fill2[p] \in Arriving(g, given, ToSet(lg2), p)
            <4>1. {r} \subseteq ToSet(lg2)
                BY <1>2
            <4> HIDE DEF r
            <4> QED BY <3>7, <4>1, ArrivingMonotone
        <3> QED BY <1>2, <3>3, <3>4, <3>8
    <2> QED BY <2>1, <2>2
<1>9. HeldPorts(g, given, fill2, lg2)
    BY <1>8 DEF HeldPorts
<1>10. ASSUME NEW v \in DOMAIN fly2, consumers_of(g, <<"value", v>>) # {}
       PROVE  /\ fly2[v] = 1 /\ v \in given
              /\ \A p \in consumers_of(g, <<"value", v>>) :
                    p \notin DOMAIN fill2 /\ p[1] \notin Logged(lg2)
    <2>1. v \in DOMAIN fly \ ToSet(outs)
        BY <1>4, <1>10
    <2>2. /\ fly[v] = 1 /\ v \in given
          /\ \A p \in consumers_of(g, <<"value", v>>) : p \notin DOMAIN fill /\ p[1] \notin Logged(lg)
        BY <1>1, <1>10, <2>1 DEF OnTheWay
    <2>3. ASSUME NEW p \in consumers_of(g, <<"value", v>>)
          PROVE  p \notin DOMAIN fill2 /\ p[1] \notin Logged(lg2)
        <3>1. <<<<"value", v>>, p>> \in g.edges
            BY ConsumerEdge
        <3>2. p \notin fed
            <4> SUFFICES ASSUME NEW k, <<<<"out", o, k>>, p>> \in g.edges
                         PROVE  FALSE
                BY <1>6
            <4>1. <<"out", o, k>> = <<"value", v>>
                BY <3>1, OneSource
            <4> QED BY <4>1
        <3>3. p[1] # o
            BY <1>5, <2>2, <3>1
        <3> QED BY <1>2, <2>2, <3>2, <3>3
    <2> QED BY <2>1, <2>2, <2>3
<1>11. OnTheWay(g, given, fill2, fly2, lg2)
    BY <1>10 DEF OnTheWay
<1>12. \A p : Reached(fill, lg, p) => Reached(fill2, lg2, p)
    <2> TAKE p
    <2>1. p \in InPorts(g, o) => p[1] = o
        BY DEF InPorts
    <2> QED BY <1>2, <2>1 DEF Reached
<1>13. ASSUME NEW i \in DOMAIN lg2, NEW n \in DOMAIN lg2[i].outputs,
              NEW p \in consumers_of(g, <<"out", lg2[i].op, n - 1>>)
       PROVE  Reached(fill2, lg2, p)
    <2>1. CASE i \in 1..m
        BY <1>1, <1>2, <1>12, <2>1 DEF Arrived
    <2>2. CASE i = m + 1
        <3>1. lg2[i].op = o /\ lg2[i].outputs = outs
            BY <1>2, <2>2
        <3>2. p \in fed
            BY <3>1
        <3> QED BY <3>2 DEF Reached
    <2>3. i \in 1..m \/ i = m + 1
        BY <1>2
    <2> QED BY <2>1, <2>2, <2>3
<1>14. Arrived(g, given, fill2, fly2, lg2)
    BY <1>1, <1>12, <1>13 DEF Arrived
<1> QED
    BY <1>3, <1>9, <1>11, <1>14 DEF InOrder

-----------------------------------------------------------------------------
(* The inductive invariant of the dispatcher, under the premises of         *)
(* Determinate: that the state is in order.                                 *)

\* The premises under which the order must not show, but for the run's end.
Plain ==
    /\ status \notin Errors
    /\ Wired(graph) /\ SingleSource(graph)
    /\ Cardinality(ToSet(seeded)) = Len(seeded)
    /\ Fresh(graph, ToSet(seeded))

Kept == values \subseteq Value /\ seeded \in Seq(Value) /\ IsSequence(log)

OrderInv == Plain => InOrder(graph, ToSet(seeded), filled, InFlight, log)

\* The inductive invariant of an order that does not show.
DetInv == FlowInv /\ Inv /\ Kept /\ OrderInv

\* The elements of a sequence are no more than its places.
LEMMA SetOfSequence ==
    ASSUME NEW S, NEW s \in Seq(S)
    PROVE  /\ IsFiniteSet(ToSet(s)) /\ Cardinality(ToSet(s)) \in Nat
           /\ Cardinality(ToSet(s)) <= Len(s)
<1> DEFINE m == Len(s)
           f == [i \in 1..m |-> s[i]]
<1>1. m \in Nat /\ DOMAIN s = 1..m
    OBVIOUS
<1> HIDE DEF m
<1>2. IsFiniteSet(1..m) /\ Cardinality(1..m) = m
    BY <1>1, FS_Interval
<1>3. f \in Surjection(1..m, ToSet(s))
    BY <1>1 DEF Surjection, ToSet
<1> QED
    BY <1>2, <1>3, FS_Surjection, FS_CardinalityType DEF m

\* Seeds that are distinct were distinct before the last one, and it is new.
LEMMA DistinctAppend ==
    ASSUME NEW S, NEW s \in Seq(S), NEW v \in S, NEW t, t = Append(s, v),
           Cardinality(ToSet(t)) = Len(t)
    PROVE  /\ ToSet(t) = ToSet(s) \cup {v} /\ v \notin ToSet(s)
           /\ Cardinality(ToSet(s)) = Len(s)
<1>1. ToSet(t) = ToSet(s) \cup {v}
    <2> DEFINE m == Len(s)
    <2>1. /\ m \in Nat /\ DOMAIN s = 1..m /\ DOMAIN t = 1..(m + 1)
          /\ \A i \in 1..m : t[i] = s[i]
          /\ t[m + 1] = v
        OBVIOUS
    <2>2. \A i \in 1..(m + 1) : i \in 1..m \/ i = m + 1
        BY <2>1
    <2>3. (\A i \in 1..m : i \in 1..(m + 1)) /\ m + 1 \in 1..(m + 1)
        BY <2>1
    <2> HIDE DEF m
    <2> QED BY <2>1, <2>2, <2>3 DEF ToSet
<1>2. IsFiniteSet(ToSet(s)) /\ Cardinality(ToSet(s)) \in Nat /\ Cardinality(ToSet(s)) <= Len(s)
    BY SetOfSequence
<1>3. Cardinality(ToSet(t)) = IF v \in ToSet(s) THEN Cardinality(ToSet(s)) ELSE Cardinality(ToSet(s)) + 1
    BY <1>1, <1>2, FS_AddElement
<1>4. Len(t) = Len(s) + 1 /\ Len(s) \in Nat
    OBVIOUS
<1> QED
    BY <1>1, <1>2, <1>3, <1>4

\* The counts of the values in flight.
LEMMA InFlightCounts ==
    ASSUME FlowInv
    PROVE  \A v \in DOMAIN InFlight : InFlight[v] \in Nat /\ InFlight[v] > 0
<1> SUFFICES ASSUME NEW v \in DOMAIN InFlight
             PROVE  InFlight[v] \in Nat /\ InFlight[v] > 0
    OBVIOUS
<1>1. InFlight = Carried(stack)
    BY InFlightCarried
<1>2. Held(stack, v) # {} /\ InFlight[v] = Cardinality(Held(stack, v))
    BY <1>1 DEF Carried
<1>3. Cardinality(Held(stack, v)) \in Nat /\ (Cardinality(Held(stack, v)) = 0 <=> Held(stack, v) = {})
    BY HeldFinite DEF FlowInv
<1> QED
    BY <1>2, <1>3

\* Bags, added and taken away.
LEMMA BagPlus ==
    ASSUME NEW B, NEW C, NEW D, D = Flow!(+)(B, C),
           \A e \in DOMAIN B : B[e] \in Nat, \A e \in DOMAIN C : C[e] \in Nat
    PROVE  /\ DOMAIN D = DOMAIN B \cup DOMAIN C
           /\ \A e \in DOMAIN B \ DOMAIN C : D[e] = B[e]
           /\ \A e \in DOMAIN C \ DOMAIN B : D[e] = C[e]
BY DEF Flow!(+)

\* A bag with one copy of v taken out.
LEMMA BagMinusOne ==
    ASSUME NEW B, NEW v \in DOMAIN B, NEW D, D = Flow!(-)(B, Flow!SetToBag({v})),
           \A e \in DOMAIN B : B[e] \in Nat /\ B[e] > 0
    PROVE  /\ DOMAIN B \ {v} \subseteq DOMAIN D
           /\ DOMAIN D \subseteq DOMAIN B
           /\ B[v] = 1 => v \notin DOMAIN D
           /\ \A e \in DOMAIN D \ {v} : D[e] = B[e]
BY DEF Flow!(-), Flow!SetToBag

\* Seeding keeps the order invariant.
LEMMA SeedOrder ==
    ASSUME DetInv, NEW v \in Seeds, seed_value(v)
    PROVE  Kept' /\ OrderInv'
<1>1. /\ status \in Stopped /\ seeded' = Append(seeded, v)
      /\ UNCHANGED <<graph, values, filled, log, status>>
    BY DEF seed_value
<1>2. v \in Value
    BY GraphAssumption
<1>3. Kept'
    BY <1>1, <1>2 DEF Kept, DetInv
<1>4. ASSUME Plain'
      PROVE  InOrder(graph, ToSet(seeded), filled, InFlight, log)'
    <2>1. /\ ToSet(seeded') = ToSet(seeded) \cup {v} /\ v \notin ToSet(seeded)
          /\ Cardinality(ToSet(seeded)) = Len(seeded)
        <3>1. seeded \in Seq(Value) /\ Cardinality(ToSet(seeded')) = Len(seeded')
            BY <1>4 DEF Plain, Kept, DetInv
        <3> QED BY <1>1, <1>2, <3>1, DistinctAppend, ZenonT(60)
    <2>2. Wired(graph) /\ SingleSource(graph) /\ Fresh(graph, ToSet(seeded'))
        BY <1>1, <1>4 DEF Plain, Wired, SingleSource, Fresh
    <2>3. graph \in Graphs
        BY DEF DetInv, FlowInv
    <2>4. Fresh(graph, ToSet(seeded))
        <3>1. Denotation(graph, ToSet(seeded)) \subseteq Denotation(graph, ToSet(seeded'))
            BY <2>1, <2>2, <2>3, DenotationMonotone
        <3> QED BY <2>2, <3>1 DEF Fresh
    <2>5. InOrder(graph, ToSet(seeded), filled, InFlight, log)
        BY <1>1, <2>1, <2>2, <2>4 DEF DetInv, OrderInv, Plain, Errors, Stopped
    <2>6. InFlight' = Flow!(+)(InFlight, Flow!SetToBag({v}))
        BY SeedFlow DEF DetInv, Flow!Inject
    <2>7. Flow!SetToBag({v}) = [e \in {v} |-> 1]
        BY DEF Flow!SetToBag
    <2>8. /\ DOMAIN InFlight' = DOMAIN InFlight \cup {v}
          /\ v \notin DOMAIN InFlight => InFlight'[v] = 1
          /\ \A u \in DOMAIN InFlight \ {v} : InFlight'[u] = InFlight[u]
        BY <2>6, <2>7, InFlightCounts, BagPlus DEF DetInv
    <2>9. InOrder(graph, ToSet(seeded) \cup {v}, filled, InFlight', log)
        BY <2>1, <2>2, <2>3, <2>5, <2>8, SeedInOrder DEF DetInv, Kept
    <2> QED BY <1>1, <2>1, <2>9
<1> QED
    BY <1>3, <1>4 DEF OrderInv

-----------------------------------------------------------------------------
(* The steps of the stack machine: a popped value is routed, a popped Fire  *)
(* token fires, as the dataflow does.                                       *)

\* A step that seeds nothing and does not fail keeps the premises as they were.
LEMMA PlainBefore ==
    ASSUME graph' = graph, seeded' = seeded, status \notin Errors, Plain'
    PROVE  Plain
BY DEF Plain, Wired, SingleSource, Fresh

\* Routing a value keeps the order invariant.
LEMMA RouteOrder ==
    ASSUME DetInv, route_value
    PROVE  Kept' /\ OrderInv'
<1>1. status = "running" /\ UNCHANGED <<graph, values, log, seeded>>
    BY DEF route_value, Popped
<1>2. Kept'
    BY <1>1 DEF Kept, DetInv
<1>3. ASSUME Plain'
      PROVE  InOrder(graph, ToSet(seeded), filled, InFlight, log)'
    <2>1. Plain
        BY <1>1, <1>3, PlainBefore DEF Errors
    <2>2. InOrder(graph, ToSet(seeded), filled, InFlight, log)
        BY <2>1 DEF DetInv, OrderInv
    <2>3. PICK v \in Value : Flow!Deliver(v)
        BY <1>3, RouteFlow DEF DetInv, Flow!Fail, Plain
    <2>4. /\ v \in DOMAIN InFlight
          /\ InFlight' = Flow!(-)(InFlight, Flow!SetToBag({v}))
          /\ filled' = [p \in DOMAIN filled \cup Flow!consumers_of(graph, <<"value", v>>) |->
                            IF p \in DOMAIN filled THEN filled[p] ELSE v]
        BY <2>3 DEF Flow!Deliver, Flow!BagIn, Flow!BagToSet
    <2>5. Flow!consumers_of(graph, <<"value", v>>) = consumers_of(graph, <<"value", v>>)
        BY DEF Flow!consumers_of, consumers_of
    <2>6. /\ DOMAIN InFlight \ {v} \subseteq DOMAIN InFlight'
          /\ DOMAIN InFlight' \subseteq DOMAIN InFlight
          /\ InFlight[v] = 1 => v \notin DOMAIN InFlight'
          /\ \A u \in DOMAIN InFlight' \ {v} : InFlight'[u] = InFlight[u]
        <3>1. \A u \in DOMAIN InFlight : InFlight[u] \in Nat /\ InFlight[u] > 0
            BY InFlightCounts DEF DetInv
        <3> QED BY <2>4, <3>1, BagMinusOne, Z3
    <2>7. graph \in Graphs /\ SingleSource(graph)
        BY <2>1 DEF DetInv, FlowInv, Plain
    <2>8. InOrder(graph, ToSet(seeded), filled', InFlight', log)
        <3> DEFINE C == consumers_of(graph, <<"value", v>>)
                   fill == [p \in DOMAIN filled \cup C |->
                                IF p \in DOMAIN filled THEN filled[p] ELSE v]
        <3>1. filled' = fill
            BY <2>4, <2>5
        <3>2. InOrder(graph, ToSet(seeded), fill, InFlight', log)
            <4>1. v \in DOMAIN InFlight /\ C = consumers_of(graph, <<"value", v>>)
                BY <2>4
            <4> HIDE DEF C
            <4> QED BY ONLY <2>2, <2>6, <2>7, <4>1, DeliverInOrder
        <3> QED BY <3>1, <3>2
    <2> QED BY <1>1, <2>8
<1> QED
    BY <1>2, <1>3 DEF OrderInv

\* A Fire token is for a program that takes inputs.
LEMMA FiresInputs ==
    ASSUME Inv, Wired(graph), stack # <<>>, NEW o \in DOMAIN graph.prog, Last(stack) = <<"fire", o>>
    PROVE  graph.prog[o].arity > 0
<1>1. stack \in Seq(Token) /\ OneTokenEach(stack, filled)
    BY DEF Inv
<1>2. Len(stack) \in DOMAIN stack /\ stack[Len(stack)] = <<"fire", o>>
    BY <1>1 DEF Last
<1> QED
    BY <1>1, <1>2 DEF OneTokenEach

\* Firing a program keeps the order invariant.
LEMMA FireOrder ==
    ASSUME DetInv, fire
    PROVE  Kept' /\ OrderInv'
<1>1. status = "running" /\ stack # <<>> /\ UNCHANGED <<graph, seeded>>
    BY DEF fire, FireReached, Popped
<1>2. graph \in Graphs /\ values \subseteq Value /\ IsSequence(log) /\ seeded \in Seq(Value)
    BY DEF DetInv, FlowInv, Kept
<1>3. /\ values' \subseteq Value
      /\ log' = log \/ \E r : log' = Append(log, r)
    <2> DEFINE o == Last(stack)[2]
    <2>1. PICK outs \in Outcome(graph.prog, o, Inputs(o), values) :
            /\ values' = values \cup ToSet(outs)
            /\ \/ log' = log
               \/ log' = Append(log, Record(o, Inputs(o), outs))
        BY DEF fire
    <2>2. outs \in [1..graph.prog[o].outputs -> Value]
        BY OutcomeType
    <2>3. ToSet(outs) \subseteq Value
        <3> HIDE DEF o
        <3>1. \A i \in DOMAIN outs : outs[i] \in Value
            BY <2>2
        <3> QED BY <3>1 DEF ToSet
    <2> QED BY <1>2, <2>1, <2>3
<1>4. Kept'
    <2>1. IsSequence(log')
        BY <1>2, <1>3, LongerLog DEF Longer
    <2> QED BY <1>1, <1>2, <1>3, <2>1 DEF Kept, IsSequence
<1>5. ASSUME Plain'
      PROVE  InOrder(graph, ToSet(seeded), filled, InFlight, log)'
    <2>1. Plain
        BY <1>1, <1>5, PlainBefore DEF Errors
    <2>2. InOrder(graph, ToSet(seeded), filled, InFlight, log)
        BY <2>1 DEF DetInv, OrderInv
    <2>3. PICK o \in DOMAIN graph.prog : Last(stack) = <<"fire", o>> /\ Flow!Fire(o)
        BY <1>5, FireFlow DEF DetInv, Flow!Fail, Plain
    <2>4. /\ Wired(graph) /\ SingleSource(graph) /\ Fresh(graph, ToSet(seeded))
          /\ graph.prog[o].arity > 0
        BY <1>1, <2>1, <2>3, FiresInputs DEF DetInv, Plain
    <2> DEFINE ins == [i \in 1..graph.prog[o].arity |-> filled[<<o, i - 1>>]]
               from(i) == <<"out", o, i - 1>>
               kept == DOMAIN filled \ InPorts(graph, o)
    <2>5. /\ Flow!InPorts(graph, o) = InPorts(graph, o)
          /\ \A f : Flow!consumers_of(graph, f) = consumers_of(graph, f)
        BY DEF Flow!InPorts, InPorts, Flow!consumers_of, consumers_of
    <2>6. InPorts(graph, o) \subseteq DOMAIN filled
        BY <2>3, <2>5 DEF Flow!Fire, Flow!Ready
    <2>7. PICK outs \in Flow!Outcome(graph.prog, o, ins, values) :
            /\ InFlight' = Flow!(+)(InFlight, Flow!ToBag(outs))
            /\ DOMAIN filled' = (DOMAIN filled \ Flow!InPorts(graph, o))
                    \cup UNION {Flow!consumers_of(graph, from(i)) : i \in DOMAIN outs}
            /\ \A p \in DOMAIN filled \ Flow!InPorts(graph, o) : filled'[p] = filled[p]
            /\ \A p \in (UNION {Flow!consumers_of(graph, from(i)) : i \in DOMAIN outs})
                            \ (DOMAIN filled \ Flow!InPorts(graph, o)) :
                  filled'[p] \in {outs[i] : i \in {k \in DOMAIN outs :
                                        p \in Flow!consumers_of(graph, from(k))}}
            /\ log' = Append(log, [op |-> o, inputs |-> ins, outputs |-> outs])
        BY <2>3 DEF Flow!Fire
    <2> DEFINE fed == UNION {consumers_of(graph, from(i)) : i \in DOMAIN outs}
    <2>8. outs \in Outcome(graph.prog, o, ins, Value)
        <3> HIDE DEF ins
        <3>1. outs \in Outcome(graph.prog, o, ins, values)
            BY <2>7, FlowOutcome
        <3>2. \A q \in DOMAIN graph.prog : IsSequence(graph.prog[q].words)
            BY <1>2, GraphWords
        <3> QED BY <1>2, <3>1, <3>2, OutcomeMonotone
    <2>9. /\ DOMAIN InFlight' = DOMAIN InFlight \cup ToSet(outs)
          /\ \A u \in DOMAIN InFlight \ ToSet(outs) : InFlight'[u] = InFlight[u]
        <3> DEFINE B == Flow!ToBag(outs)
        <3>1. outs \in [1..graph.prog[o].outputs -> Value] /\ graph.prog[o].outputs \in Nat
            BY <1>2, <2>8, OutcomeType, GraphWords
        <3>2. DOMAIN B = ToSet(outs)
            BY DEF Flow!ToBag, Flow!Range, ToSet
        <3>3. \A x \in DOMAIN B : B[x] \in Nat
            <4> SUFFICES ASSUME NEW x \in DOMAIN B
                         PROVE  B[x] \in Nat
                OBVIOUS
            <4>1. B[x] = Flow!Cardinality({i \in DOMAIN outs : outs[i] = x})
                BY DEF Flow!ToBag
            <4>2. \A S : Flow!Cardinality(S) = Cardinality(S)
                BY DEF Flow!Cardinality, Cardinality, Flow!IsFiniteSet, IsFiniteSet
            <4>3. IsFiniteSet(1..graph.prog[o].outputs)
                <5> DEFINE k == graph.prog[o].outputs
                <5>1. k \in Nat
                    BY <3>1
                <5> HIDE DEF k
                <5>2. IsFiniteSet(1..k)
                    BY <5>1, FS_Interval
                <5> QED BY <5>2 DEF k
            <4>4. {i \in DOMAIN outs : outs[i] = x} \subseteq 1..graph.prog[o].outputs
                BY <3>1
            <4>5. IsFiniteSet({i \in DOMAIN outs : outs[i] = x})
                BY <4>3, <4>4, FS_Subset
            <4> QED BY <4>1, <4>2, <4>5, FS_CardinalityType
        <3> HIDE DEF B
        <3>4. InFlight' = Flow!(+)(InFlight, B)
            BY <2>7 DEF B
        <3>5. \A x \in DOMAIN InFlight : InFlight[x] \in Nat
            BY InFlightCounts DEF DetInv
        <3> DEFINE F == InFlight
                   G == InFlight'
        <3>6. G = Flow!(+)(F, B) /\ \A x \in DOMAIN F : F[x] \in Nat
            BY <3>4, <3>5
        <3> HIDE DEF F, G
        <3>7. /\ DOMAIN G = DOMAIN F \cup DOMAIN B
              /\ \A u \in DOMAIN F \ DOMAIN B : G[u] = F[u]
            BY <3>3, <3>6 DEF Flow!(+)
        <3> QED BY <3>2, <3>7 DEF F, G
    <2>11. /\ DOMAIN filled' = kept \cup fed
           /\ \A p \in kept : filled'[p] = filled[p]
        BY <2>5, <2>7
    <2>10. ASSUME NEW p \in fed \ kept
           PROVE  \E i \in DOMAIN outs : filled'[p] = outs[i] /\ p \in consumers_of(graph, from(i))
        <3>1. filled'[p] \in {outs[i] : i \in {k \in DOMAIN outs :
                                    p \in Flow!consumers_of(graph, from(k))}}
            BY <2>5, <2>7
        <3>2. PICK i \in {k \in DOMAIN outs : p \in Flow!consumers_of(graph, from(k))} :
                    filled'[p] = outs[i]
            BY <3>1
        <3> QED BY <2>5, <3>2
    <2>12. InOrder(graph, ToSet(seeded), filled', InFlight', log')
        <3>1. fed = UNION {consumers_of(graph, <<"out", o, i - 1>>) : i \in DOMAIN outs}
            OBVIOUS
        <3>2. \A p \in fed \ kept : \E i \in DOMAIN outs :
                filled'[p] = outs[i] /\ p \in consumers_of(graph, <<"out", o, i - 1>>)
            BY <2>10
        <3>3. ins = [i \in 1..graph.prog[o].arity |-> filled[<<o, i - 1>>]]
            OBVIOUS
        <3>4. kept = DOMAIN filled \ InPorts(graph, o)
            OBVIOUS
        <3>5. log' = Append(log, [op |-> o, inputs |-> ins, outputs |-> outs])
            BY <2>7
        <3>6. FireEffect(graph, o, outs, filled, InFlight, filled', InFlight')
            BY <2>9, <2>11, <3>2 DEF FireEffect
        <3>7. PICK fill2, fly2, lg2 : fill2 = filled' /\ fly2 = InFlight' /\ lg2 = log'
            OBVIOUS
        <3> HIDE DEF fed, kept, ins, from
        <3>8. FireEffect(graph, o, outs, filled, InFlight, fill2, fly2)
            BY <3>6, <3>7
        <3>9. lg2 = Append(log, [op |-> o, inputs |-> ins, outputs |-> outs])
            BY <3>5, <3>7
        <3>10. InOrder(graph, ToSet(seeded), fill2, fly2, lg2)
            BY <1>2, <2>2, <2>4, <2>6, <2>8, <3>3, <3>8, <3>9, FireInOrder
        <3> QED BY <3>7, <3>10
    <2> QED BY <1>1, <2>12
<1> QED
    BY <1>4, <1>5 DEF OrderInv

-----------------------------------------------------------------------------
(* The order does not show.                                                 *)

\* Before the first seed nothing is in flight, held or logged.
LEMMA InitDet == Init => DetInv
<1> SUFFICES ASSUME Init PROVE DetInv
    OBVIOUS
<1>1. /\ graph \in Graphs /\ values = graph.literals /\ stack = <<>> /\ filled = <<>>
      /\ log = <<>> /\ seeded = <<>>
    BY DEF Init
<1>2. values \subseteq Value
    BY <1>1, GraphAssumption
<1>3. seeded \in Seq(Value) /\ log \in Seq({})
    BY <1>1
<1>4. DOMAIN <<>> = {}
    OBVIOUS
<1>5. DOMAIN InFlight = {}
    BY <1>1, <1>4 DEF InFlight
<1>6. ToSet(seeded) = {}
    BY <1>1, <1>4 DEF ToSet
<1>7. DOMAIN filled = {} /\ DOMAIN log = {}
    BY <1>1, <1>4
<1>8. InOrder(graph, ToSet(seeded), filled, InFlight, log)
    BY <1>5, <1>6, <1>7 DEF InOrder, OncePerOp, Derived, HeldPorts, OnTheWay, Arrived
<1> QED
    BY <1>2, <1>3, <1>8, InitInv, InitFlow DEF DetInv, Kept, IsSequence, OrderInv

\* Every step keeps the order invariant.
LEMMA NextDet == DetInv /\ [Next]_vars => DetInv'
<1> SUFFICES ASSUME DetInv, [Next]_vars PROVE DetInv'
    OBVIOUS
<1>1. FlowInv' /\ Inv'
    BY NextFlow, NextInv DEF DetInv
<1>2. CASE \E v \in Seeds : seed_value(v)
    BY <1>1, <1>2, SeedOrder DEF DetInv
<1>3. CASE route_value
    BY <1>1, <1>3, RouteOrder DEF DetInv
<1>4. CASE fire
    BY <1>1, <1>4, FireOrder DEF DetInv
<1>5. CASE FireStarved \/ FireFails
    <2>1. /\ UNCHANGED <<values, log, seeded>>
          /\ status' \in {"InputNotFilled", "EvalError"}
        BY <1>5 DEF FireStarved, FireFails
    <2>2. Kept' /\ OrderInv'
        BY <2>1 DEF DetInv, Kept, OrderInv, Plain, Errors
    <2> QED BY <1>1, <2>2 DEF DetInv
<1>6. CASE Drained \/ StopAtFire \/ (\E m \in graph.fires : run_until(m)) \/ UNCHANGED vars
    <2>1. UNCHANGED <<graph, values, stack, filled, log, seeded>>
        BY <1>6 DEF Drained, StopAtFire, run_until, vars
    <2>2. Kept'
        BY <2>1 DEF DetInv, Kept
    <2>3. ASSUME Plain'
          PROVE  InOrder(graph, ToSet(seeded), filled, InFlight, log)'
        <3>1. status \notin Errors
            <4>1. status \in Stopped \/ status = "running" \/ status' = status
                BY <1>6 DEF Drained, StopAtFire, Popped, run_until, vars
            <4> QED BY <2>3, <4>1 DEF Errors, Stopped, Plain
        <3>2. Plain
            BY <2>1, <2>3, <3>1, PlainBefore
        <3>3. InFlight' = InFlight
            BY <2>1 DEF InFlight
        <3> QED BY <2>1, <3>2, <3>3 DEF DetInv, OrderInv
    <2>4. OrderInv'
        BY <2>3 DEF OrderInv
    <2> QED BY <1>1, <2>2, <2>4 DEF DetInv
<1> QED
    BY <1>2, <1>3, <1>4, <1>5, <1>6 DEF Next, Pop

\* A log that fires every program once lists as many firings as it is long.
LEMMA OnceCounts ==
    ASSUME NEW lg, IsSequence(lg), OncePerOp(lg)
    PROVE  Cardinality(ToSet(lg)) = Len(lg)
<1> DEFINE m == Len(lg)
           f == [i \in 1..m |-> lg[i]]
<1>1. m \in Nat /\ DOMAIN lg = 1..m
    BY DEF IsSequence
<1> HIDE DEF m
<1>2. IsFiniteSet(1..m) /\ Cardinality(1..m) = m
    BY <1>1, FS_Interval
<1>3. f \in Bijection(1..m, ToSet(lg))
    BY <1>1 DEF OncePerOp, ToSet, Bijection, Injection, Surjection, IsInjective
<1>4. ExistsBijection(1..m, ToSet(lg))
    BY <1>3 DEF ExistsBijection
<1> QED
    BY <1>2, <1>4, FS_Bijection DEF m

\* At quiescence the log is the denotation.
LEMMA QuiescentDenotes == DetInv => Determinate
<1> SUFFICES ASSUME DetInv, status = "Quiescence", stack = <<>>, Wired(graph), SingleSource(graph),
                    Cardinality(ToSet(seeded)) = Len(seeded), Fresh(graph, ToSet(seeded))
             PROVE  /\ ToSet(log) = Denotation(graph, ToSet(seeded))
                    /\ Cardinality(ToSet(log)) = Len(log)
    BY DEF Determinate
<1>1. InOrder(graph, ToSet(seeded), filled, InFlight, log)
    BY DEF DetInv, OrderInv, Plain, Errors
<1>2. graph \in Graphs /\ IsSequence(log)
    BY DEF DetInv, FlowInv, Kept
<1>3. DOMAIN stack = {}
    OBVIOUS
<1>4. DOMAIN InFlight = {}
    BY <1>3 DEF InFlight
<1>5. \A o \in DOMAIN graph.prog :
            graph.prog[o].arity > 0 => ~(InPorts(graph, o) \subseteq DOMAIN filled)
    BY <1>3 DEF DetInv, Inv, OneTokenEach
<1>6. OncePerOp(log) /\ Derived(graph, ToSet(seeded), log)
    BY <1>1 DEF InOrder
<1>7. ToSet(log) \subseteq Denotation(graph, ToSet(seeded))
    BY <1>2, <1>6, LogDenoted
<1>8. Denotation(graph, ToSet(seeded)) \subseteq ToSet(log)
    BY <1>1, <1>2, <1>4, <1>5, DenotedLogged
<1> QED
    BY <1>2, <1>6, <1>7, <1>8, OnceCounts

\* The order does not show: on every wired graph with one source per port, with
\* distinct seeds and no output that is again a value with consumers, a dispatch
\* that has drained without an error has logged exactly the firings of the
\* order-free reading, each once, whatever the budgets and predicates that stopped
\* it on the way and wherever between two calls the seeds arrived (dispatch.rs
\* run_until, graph.rs consumers_of).
THEOREM DispatchDeterminate == Spec => []Determinate
<1>1. Init => DetInv
    BY InitDet
<1>2. DetInv /\ [Next]_vars => DetInv'
    BY NextDet
<1>3. DetInv => Determinate
    BY QuiescentDenotes
<1> QED
    BY <1>1, <1>2, <1>3, PTL DEF Spec

=============================================================================
