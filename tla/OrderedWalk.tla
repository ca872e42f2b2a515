---------------------------- MODULE OrderedWalk -----------------------------
(* Ordered restoration (hllset-morphisms/src/api.rs order_tokens, walk and   *)
(* beam_search; grid.rs and tensor.rs hold copies): a depth-first walk over  *)
(* the windows of an ingested collection in which a token may be used as     *)
(* often as it was observed, after a beam search when the caller asks for    *)
(* one.  One step is one call, one return or one choice of the walk, or one  *)
(* round of the beam.                                                        *)
EXTENDS Windows, SequencesExt

CONSTANTS Jobs,      \* what is restored: [ing, gx, codebook, width]
          Budget     \* the calls a walk may make (20_000 in the code)

ASSUME BudgetPositive == Budget \in Nat \ {0}

\* Jobs restore what an ingest made of tokens, of a grid that is full or of a tensor
\* that is full (Grid::new and Tensor::new assert it).
ASSUME JobsAssumption ==
    \A j \in Jobs :
        /\ j.width \in Nat
        /\ j.ing.cells \in Seq(Tokens)
        /\ \/ /\ j.ing.kind = "seq"
              /\ j.ing = ingest(j.ing.hash, j.ing.cells)
           \/ /\ j.ing.kind = "grid" /\ j.ing.shape \in Nat \X Nat
              /\ Len(j.ing.cells) = j.ing.shape[1] * j.ing.shape[2]
              /\ j.ing = ingest_grid(j.ing.hash, j.ing.shape, j.ing.cells)
           \/ /\ j.ing.kind = "tensor" /\ j.ing.shape \in Seq(Nat)
              /\ Len(j.ing.cells) = strides(j.ing.shape)[0]
              /\ j.ing = ingest_tensor(j.ing.hash, j.ing.shape, j.ing.cells)

VARIABLES
    job,        \* the collection to restore and the options, constant
    pc,         \* where the restoration stands
    path,       \* the tokens restored so far
    rem,        \* token -> how often it may still be used
    todo,       \* for every open choice, the set of candidates not tried yet
    budget,     \* the calls left
    beam,       \* the hypotheses kept by the last round
    completed,  \* the hypotheses that reached the end
    answer      \* what is returned, and how it was found

vars == <<job, pc, path, rem, todo, budget, beam, completed, answer>>

ing == job.ing
tokens == unordered_tokens_gated(ing, job.gx, job.codebook)

NoAnswer == [via |-> "none", cells |-> <<>>]

-----------------------------------------------------------------------------
(* Ranking: the more frequent token first, then the bytes.                   *)

Better(t, u) == ing.tf[t] > ing.tf[u] \/ (ing.tf[t] = ing.tf[u] /\ t < u)

Best(t, S) == t \in S /\ \A u \in S \ {t} : Better(t, u)

Candidates(p, r) == {t \in tokens : r[t] > 0 /\ SuccessorOk(ing, p, t)}

\* The cumulative count of a hypothesis.
Score(p) ==
    LET sum[i \in 0..Len(p)] == IF i = 0 THEN 0 ELSE sum[i - 1] + ing.tf[p[i]]
    IN  sum[Len(p)]

PathBefore(p, q) ==
    \E i \in DOMAIN p : p[i] < q[i] /\ \A k \in 1..i-1 : p[k] = q[k]

BetterPath(p, q) == Score(p) > Score(q) \/ (Score(p) = Score(q) /\ PathBefore(p, q))

\* The hypotheses of the width best ranks.
Kept(P) == {p \in P : Cardinality({q \in P : BetterPath(q, p)}) < job.width}

\* What the counts leave after a path.
Left(p) == [t \in tokens |-> ing.tf[t] - Occurrences(p, t)]

-----------------------------------------------------------------------------
Init ==
    /\ job \in Jobs
    /\ pc = "start"
    /\ path = <<>>
    /\ rem = [t \in unordered_tokens_gated(job.ing, job.gx, job.codebook) |-> job.ing.tf[t]]
    /\ todo = <<>>
    /\ budget = Budget
    /\ beam = {}
    /\ completed = {}
    /\ answer = NoAnswer

Return(how, cells) ==
    /\ pc' = "done"
    /\ answer' = [via |-> how, cells |-> cells]
    /\ UNCHANGED <<job, path, rem, todo, budget, beam, completed>>

\* order_tokens, the first lines: nothing to restore, a beam, or a walk.
RestoreNothing ==
    /\ pc = "start"
    /\ tokens = {} \/ Total(ing) = 0
    /\ Return("empty", <<>>)

BeamFrom(first) ==
    /\ pc = "start"
    /\ tokens # {} /\ Total(ing) # 0
    /\ job.width > 1
    /\ beam' = Kept(first)
    /\ pc' = IF first = {} THEN "walk" ELSE "beam"
    /\ UNCHANGED <<job, path, rem, todo, budget, completed, answer>>

\* A sequence starts at its anchors, a grid or a tensor at the empty path.
SeqBeamStart    == ing.kind = "seq" /\ BeamFrom({<<t>> : t \in Candidates(<<>>, rem)})
GridBeamStart   == ing.kind = "grid" /\ BeamFrom({<<>>})
TensorBeamStart == ing.kind = "tensor" /\ BeamFrom({<<>>})

WalkAtOnce ==
    /\ pc = "start"
    /\ tokens # {} /\ Total(ing) # 0
    /\ job.width = 1
    /\ pc' = "walk"
    /\ UNCHANGED <<job, path, rem, todo, budget, beam, completed, answer>>

Full(p) == Len(p) = Total(ing)

\* Hypotheses grown from different ones differ: the code's set of paths seen never
\* rejects one, nor does its bound on the rounds end the search.
Grown(P) == UNION {{Append(p, t) : t \in Candidates(p, Left(p))} : p \in {q \in P : ~Full(q)}}

\* One round: complete hypotheses are judged, the others grow by one token.
Round ==
    /\ pc = "beam"
    /\ completed' = completed \cup {p \in beam : Full(p) /\ EndOk(ing, p)}
    /\ beam' = Kept(Grown(beam))
    /\ pc' = IF Grown(beam) = {} THEN "judge" ELSE "beam"
    /\ UNCHANGED <<job, path, rem, todo, budget, answer>>

\* The end of a sequence reads the last token but one of every full path.
SeqRoundPanics ==
    /\ pc = "beam" /\ ing.kind = "seq"
    /\ \E p \in beam : Full(p) /\ Len(p) < 2
    /\ pc' = "panic"
    /\ UNCHANGED <<job, path, rem, todo, budget, beam, completed, answer>>

SeqRound    == ing.kind = "seq" /\ Round /\ \A p \in beam : Full(p) => Len(p) >= 2
GridRound   == ing.kind = "grid" /\ Round
TensorRound == ing.kind = "tensor" /\ Round

BeamAnswers ==
    /\ pc = "judge"
    /\ \E p \in completed : /\ \A q \in completed \ {p} : BetterPath(p, q)
                           /\ Return("beam", p)

\* Mutation of BeamGivesUp: the fallback restores again with the same options.
BeamStartsOver ==
    /\ pc = "judge" /\ completed = {}
    /\ pc' = "start"
    /\ UNCHANGED <<job, path, rem, todo, budget, beam, completed, answer>>

BeamGivesUp ==
    /\ pc = "judge" /\ completed = {}
    /\ pc' = "walk"
    /\ UNCHANGED <<job, path, rem, todo, budget, beam, completed, answer>>

-----------------------------------------------------------------------------
(* The walk.  A sequence tries its anchors in a loop outside the walk; a     *)
(* grid or a tensor calls it once with the empty path.                       *)

WalkGrid ==
    /\ pc = "walk" /\ ing.kind = "grid"
    /\ pc' = "call"
    /\ UNCHANGED <<job, path, rem, todo, budget, beam, completed, answer>>

WalkTensor ==
    /\ pc = "walk" /\ ing.kind = "tensor"
    /\ pc' = "call"
    /\ UNCHANGED <<job, path, rem, todo, budget, beam, completed, answer>>

\* A sequence of one token is its first anchor, unchecked.
WalkOne ==
    /\ pc = "walk" /\ ing.kind = "seq"
    /\ Total(ing) = 1
    /\ \E t \in tokens : Best(t, Candidates(path, rem)) /\ Return("walk", <<t>>)

WalkSeq ==
    /\ pc = "walk" /\ ing.kind = "seq"
    /\ ~(Total(ing) = 1 /\ Candidates(path, rem) # {})
    /\ todo' = <<Candidates(path, rem)>>
    /\ pc' = "pick"
    /\ UNCHANGED <<job, path, rem, budget, beam, completed, answer>>

CallOutOfBudget ==
    /\ pc = "call" /\ budget = 0
    /\ pc' = "false"
    /\ UNCHANGED <<job, path, rem, todo, budget, beam, completed, answer>>

CallAtEnd ==
    /\ pc = "call" /\ budget > 0
    /\ Full(path)
    /\ budget' = budget - 1
    /\ pc' = IF EndOk(ing, path) THEN "true" ELSE "false"
    /\ UNCHANGED <<job, path, rem, todo, beam, completed, answer>>

CallInside ==
    /\ pc = "call" /\ budget > 0
    /\ ~Full(path)
    /\ budget' = budget - 1
    /\ todo' = Append(todo, Candidates(path, rem))
    /\ pc' = "pick"
    /\ UNCHANGED <<job, path, rem, beam, completed, answer>>

Call == CallOutOfBudget \/ CallAtEnd \/ CallInside

walk        == ing.kind = "seq" /\ Call
grid_walk   == ing.kind = "grid" /\ Call
tensor_walk == ing.kind = "tensor" /\ Call

top == Len(todo)

\* The anchors of a sequence are given up once the budget is spent.
AnchorsAbandoned == path = <<>> /\ ing.kind = "seq" /\ budget = 0

Pick ==
    /\ pc = "pick" /\ ~AnchorsAbandoned
    /\ \E t \in tokens :
          /\ Best(t, todo[top])
          /\ path' = Append(path, t)
          /\ rem' = [rem EXCEPT ![t] = @ - 1]
          /\ todo' = [todo EXCEPT ![top] = @ \ {t}]
    /\ pc' = "call"
    /\ UNCHANGED <<job, budget, beam, completed, answer>>

NoneLeft ==
    /\ pc = "pick" /\ (todo[top] = {} \/ AnchorsAbandoned)
    /\ todo' = SubSeq(todo, 1, top - 1)
    /\ pc' = "false"
    /\ UNCHANGED <<job, path, rem, budget, beam, completed, answer>>

\* A call returned false: its caller takes the token back and goes on.
Backtrack ==
    /\ pc = "false" /\ path # <<>>
    /\ path' = SubSeq(path, 1, Len(path) - 1)
    /\ rem' = [rem EXCEPT ![path[Len(path)]] = @ + 1]
    /\ pc' = "pick"
    /\ UNCHANGED <<job, todo, budget, beam, completed, answer>>

\* Nothing could be followed to the end: the plain set, in the order of the bytes.
Fallback ==
    /\ pc = "false" /\ path = <<>>
    /\ Return("set", SetToSortSeq(tokens, <))

WalkAnswers ==
    /\ pc = "true"
    /\ Return("walk", path)

Next ==
    \/ RestoreNothing \/ WalkAtOnce
    \/ SeqBeamStart \/ GridBeamStart \/ TensorBeamStart
    \/ SeqRound \/ SeqRoundPanics \/ GridRound \/ TensorRound
    \/ BeamAnswers \/ BeamGivesUp
    \/ WalkGrid \/ WalkTensor \/ WalkOne \/ WalkSeq
    \/ walk \/ grid_walk \/ tensor_walk
    \/ Pick \/ NoneLeft \/ Backtrack \/ Fallback \/ WalkAnswers

Spec == Init /\ [][Next]_vars /\ WF_vars(Next)

-----------------------------------------------------------------------------
(* Properties.                                                               *)

AllTokens == {ing.cells[i] : i \in DOMAIN ing.cells}

\* What is restored in order has every token as often as it was observed, and every
\* window of two of them, pads included, was set by the ingest; without collisions, and if no
\* token is the pad, this
\* holds for all orders (ingest_with_pad against the checks of walk and beam_search).
OrderedAnswerFits ==
    answer.via \in {"walk", "beam"} =>
        /\ Tf(answer.cells) = ing.tf
        /\ ing.kind = "seq" /\ Total(ing) >= 2 =>
            \A n \in 1..4 : n <= 2 \/ (ing.hash = "exact" /\ Pad \notin AllTokens) =>
                ingest(ing.hash, answer.cells).ch[n] \subseteq ing.ch[n]

\* The plain set is returned only when the budget ran out or the gate took a token away:
\* the ingested order itself passes every check, so a walk that tries everything finds a
\* path.  Behind a gate that takes away a token nothing is ever restored in order
\* (api.rs order_tokens, materialize_gated).
FallbackOnlyWhenCut ==
    /\ answer.via = "set" => budget = 0 \/ ~(AllTokens \subseteq tokens)
    /\ answer.via \in {"walk", "beam"} => AllTokens \subseteq tokens

\* Without collisions, a collection without repeated tokens is restored as it was
\* (the documented round trip of api.rs, grid.rs and tensor.rs).
RestoresOriginal ==
    /\ pc = "done" /\ ing.hash = "exact" /\ AllTokens \subseteq tokens
    /\ \A t \in tokens : ing.tf[t] = 1 /\ t # Pad
    /\ budget > 0
    => answer.cells = ing.cells

\* A grid is a tensor of two axes: both modules set the same bits and judge every
\* candidate and every complete path alike (grid.rs against tensor.rs).
GridIsTensor ==
    ing.kind = "grid" =>
        /\ pc = "start" => ing.ch = ingest_tensor(ing.hash, ing.shape, ing.cells).ch
        /\ pc = "pick" => \A t \in tokens :
            grid_successor_ok(ing, path, t) = tensor_successor_ok(ing, path, t)
        /\ Full(path) => grid_termination_ok(ing, path) = tensor_termination_ok(ing, path)

\* Every restoration comes to an end: the budget bounds the calls, the length of a path
\* the rounds of the beam (order_tokens).
Answered == <>(pc \in {"done", "panic"})

\* A restoration with a beam always returns (api.rs:368: it "falls back to the greedy
\* walk, then to the unordered set, if no beam hypothesis completes").
BeamNeverPanics == pc # "panic"
=============================================================================
