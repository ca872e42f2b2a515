# EWM state machine: TLA+ models and proofs

`ewm-state-machine` keeps the history of a growing set of sketches (HLLSets) in
a small content-addressed Git (`ewm-git`), drives it with a disposable turn loop
(`ewm-app`), runs programs over it with a content-addressed dataflow graph
(`ewm-ops`), and restores token collections from sketches (`hllset-morphisms`). This directory holds TLA+ modules for its stateful parts, TLC
configurations, and TLAPS proofs. `PROJECT.json` indexes all of it: which
source lines every definition models, what every run checks, and for every
checked property a mutation of the code's model that breaks it.

## The system

| part | state it keeps | operations | what is hard | what makes it correct |
|---|---|---|---|---|
| `ewm-git` `Repository` + `LooseStore` | object files and `HEAD` on disk; `head`, `tops`, `branches`, HLLSet-LUT in memory | ingest, commit_interaction, merge, merge_commit, set_branch, project, gc, gc_to, open | a commit is five file writes and a ref write; each can fail or be cut short; gc trusts what it can read | the persisted history is readable and only grows; `tops` is exact; gc spares what references need; gc_to archives first |
| `ewm-git` `log` | a queue and a visited set | breadth-first walk from HEAD, reversed | commits reachable along paths of different length | each ancestor once, all of them, parents before children |
| `ewm-app` `App` / `StateCache` | working union, ring window and births, turn records, context tree, `tip` | run_turn, restore | a turn mutates memory and rewrites shared tables before it commits; either may fail or be cut short; the cache dies with the process | what restore rebuilds is what the committed turns made; a table that can be read has all of them |
| `ewm-boolring` | GF(2) basis, window of the last W states, birth table | insert, reduce, push (evict and rebuild), covers | rows are never back-reduced; the basis is rebuilt on eviction | the span is that of the inserted sets; coordinates denote the set |
| `ewm-ops` `Dispatcher` | value store, port bindings, stack of tokens | seed, run_until, fill_port, fire | firing order, cycles, ports filled twice, failing expressions | an operation fires once per complete set of inputs |
| `ewm-ops` boot store | boot files, `latest` pointer, append-only log, per-boot state | boot, rollback, prev | three files per boot, each written separately | the pointer names a stored boot; rollback lands on a logged one |
| `ewm-cache` | tables, objects, manifest of one cache directory; touch registry | write_table, merge_lut, seal, open_manifest, validate, snapshot, materialize_lut | files change under a sealed manifest; read-modify-write without a lock; a table file cut short | a snapshot that validates is the sealed one; what was merged is restored |
| `hllset-storage` | key-value map, LRU/TTL cache over it | put, get, has, delete, list, pin, gc | the cache answers in the place of the backend | a hit is what the backend held within the TTL; queue and map agree |
| `context-tree` | persistent Merkle tree of leaves and views | insert, remove, merge, intersection, difference, diff | views of one leaf differ between trees | the root is the identity of the collection; diff replays |
| `hllset-morphisms` | sketches of windows by size, token tables by bit, TF; path, counts and budget of a walk | ingest (sequence, grid, tensor), materialize, gate, ordered walk, beam | several tokens per bit; undo on backtracking; a shared budget; three copies of one algorithm | everything comes back, and what comes back in order has the ingested counts and windows |
| `hllset-lut` | fibres and atom tree | insert, fiber, rows, materialize, build | the join of tables | `M(H, L1 ∪ L2) = M(H, L1) ∪ M(H, L2)` |
| `hllset-core`, `hllset-contracts`, `hllset-cid` | none (values) | hash to bit, bit-set algebra, content keys, frequency vectors, identifiers | the rule from hash to bit is written twice; floating-point estimators | both rules agree and stay in range; keys identify collections |
| `ewm-scene`, `ewm-flux-host` | the ring's window, a key per frame, a history of bases | series of frames, D/R/N, similarities, averages, projections, subframes | keys are read later in the basis their generation names | every reading of a step agrees with every other |
| `ewm-sm-explore`, `trainer` | per-run reports | offline pipelines, printing JSON | numeric code | not modelled |

How they interact: `App::run_turn` (crate `ewm-app`) calls the ingestor, merges
the pass's tables into the shared cache, then calls `Repository::commit`, then
updates its own `StateCache`; `restore` replays `Repository::log`. `ewm-ops boot`
compiles a script, runs the dispatcher and commits the fire log through
`Repository::commit`. Every program is one process with one thread, and a method
takes `&mut self`: what interleaves is the environment, that is crashes, failing
and half-done file operations, the order of calls, and a later process that finds
what an earlier one left. Only the directory of `ewm-cache` is meant to be shared:
it has no lock, so there two handles really overlap.

## Modules

| module | models | state and actions |
|---|---|---|
| `Repository` | `ewm-git` `repo.rs`, `store.rs`, `object.rs`, `hllset_lut.rs` | Files (`objects`, `torn`, `headFile`, `archive`) and the fields of `Repository` (`head`, `tops`, `branches`, `lut`). `op` holds the locals of the call in progress: `commit` is one action per `store.put` (`PutTree` per channel, `PutTf`, `PutCommit`) and `WriteHead`; `gc_to` is mark, archive one by one, delete one by one. `PutErr`, `WriteHeadErr`, `ArchiveErr`, `DeleteErr`, `Crash` and `Open` happen between any two of them. |
| `Gf2Ring`, `BoolRing` | `ewm-boolring` | `Gf2Ring` has the basis and window as operators (`Insert`, `Reduction`, `Pushed`), which `StateMachine` uses too; with the coordinates, projections, changes of basis and statistics that are read from it; `BoolRing` adds the birth table, `membership`, `signature` and `minimal_cover`. One action, `push_recorded`. |
| `StateMachine`, `TurnMemory` | `ewm-app` `app.rs`, `state.rs`, `main.rs` | `run_turn` as one action per way it can end (`LutFails`, `PutFails`, `RefFails`, `Turn`, `SkipTurn`), each with all it has changed by then, and `Recover`. A table whose rewriting failed or died is in `cut`: its rows are gone and later merges refuse it. Whether the host goes on after an `Err` or leaves (`retries`) is chosen at the start. `TurnMemory` is what the host is promised. |
| `OpExpr`, `Dispatcher`, `Dataflow` | `ewm-ops` `expr.rs`, `graph.rs`, `dispatch.rs` | `OpExpr` evaluates programs (stack words, calls, counted quantifiers). `Dispatcher` pops one token per step and has seeding and the stops of `run_until`. `Dataflow` is the order-free reading: no stack, no Fire token. |
| `BootScript`, `Boot` | `ewm-ops` `dsl.rs`, `boot.rs`, `main.rs`, `commit.rs` | `BootScript` compiles scripts. `Boot` runs one process after another over the boot store's files and HEAD, one action per file write, with `Dispatcher` (an instance) as the middle of a boot. |
| `TokenLut`, `Windows`, `OrderedWalk` | `hllset-lut`, `hllset-morphisms` (`api.rs`, `grid.rs`, `tensor.rs`, `conv.rs`) | `TokenLut` is tables and unordered restoration. `Windows` has ingestion, successor and termination checks for sequences, grids and tensors, each translated from its own file. `OrderedWalk` is `order_tokens`: one action per choice of the depth-first walk (`Pick`, `Backtrack`, `CallOutOfBudget`, ...) and per round of the beam. |
| `ExtendedCache` | `ewm-cache`, `Ingest` and `HllsetLut` of `hllset-morphisms` | Files as whole or cut short; a `call` per worker. A write is `Truncate` and `Fill`; `merge_lut` reads first; `validate` and `snapshot` read one file per step; `Crash` anywhere. |
| `Sidecar` | `ewm-scene`, `ewm-flux-host` | The trajectory of a series of frames with its freeze, one action per frame; the analyses are operators on it. |
| `CacheStorage` | `hllset-storage` | `backend`, `entries`, `lru`; every operation through the cache, another holder of the backend, and `Tick`. |
| `ContextTree` | `context-tree`, the atom tree of `hllset-lut` | two trees changed by every operation |
| `Sketch` | `hllset-core`, `hllset-contracts` | a sketch fed token by token, its frequency vector and that of a peer it is sent to |
| `Libraries` | | composes `BoolRing` and the last four, which share no state: a behaviour exercises one |
| `MC*` | | the instances TLC checks |
| `Gf2RingProofs` | | what elimination and the folds of the models compute, for every table; used by the next three |
| `StateMachineProofs`, `LibraryProofs` (`BoolRing`, `Sidecar`, `CacheStorage`, `ContextTree`, `Sketch`), `OrderedWalkProofs` | | the theorems about the component of that name |
| `RepositoryProofs`, `DispatcherProofs`, `BootProofs`, `ExtendedCacheProofs` | | the same; `BootProofs` takes what programs compute from `DispatcherProofs`, as an instance without graphs |

What is abstracted. An HLLSet is the set of its bits; SHA-1 and CIDs are injective
names, so an object *is* its id, and a commit is the value of all its ancestry (in
`StateMachine` and `Boot`, where histories are linear, the sequence of its
entries). Of a touch count only zero and non-zero are kept in `Repository`, while
`StateMachine` keeps the TF as numbers. In the turn loop a token list is an element of
`Turns` and what it hashes to a constant, `Sketch`; the context tree is the set of turns
that are its leaves. The hash of a window of tokens to its bit is a constant of `Windows`
(`Pos`), with collisions chosen by the instance; `Sketch` has the rule from a 64-bit hash
to its bit, with the hash a constant. A quotient is a pair of counts. Time stamps,
printing and the views are left out. `commit` is split at its writes in `Repository` only:
`StateMachine` takes it as one step that succeeds or fails in one of the two ways the
turn can tell apart (before or after `head` has moved).

Not every step of the code is one that can be seen in between. `ingest` touches the
HLLSet-LUT, tests and begins its commit without a call into the store, so that
is one action; the loops of `route_value` fill all ports of a token in one; and
`DispatchDone` and `Committed` of `Boot` only move the program counter.

## Runs

Every passing run is exhaustive within the bounds named in its `.cfg`.

| run | question | bounds |
|---|---|---|
| `RepoCrash` | Do the persisted history stay readable and growing, and `tops` and the LUT exact, through faults? Does `gc_to` archive before it deletes? | 3 commits, 2 faults, whole-file writes; 2 channels; two passes that share a blob, inside one commit and between two; a branch. |
| `RepoTorn` | With writes cut short, is a repeated commit repaired, and does gc spare history behind an unreadable file? | as above with `TornWrites` |
| `Turns` | Does a process that leaves on `Err` implement `TurnMemory`, and does `restore` rebuild the live cache? For either kind of host: does the history grow, with its states, TFs and births, and is a shared table whole or unreadable? | 3 calls, 5 turns whose G1s are dependent, ring capacity 2; both kinds of host |
| `TurnReprocess` (violated) | Is a turn answered `Ok` durable when the host runs a failed turn again? | the same |
| `Dispatch` | Do Fire tokens stand for exactly the ready programs, is the result that of the order-free reading, does every call return? | every graph of up to 3 edges over a join and a duplication, budgets 1 to 3 or none, and six hand-made ones (calls, quantifiers, call depth, stack underflow, values not stored, edges to nowhere); 3 seeds |
| `Boots` | Do the files of the boot store stay consistent with each other, and do the commits follow the fire log? | 3 boots of 4 scripts, 1 rollback or prev, 1 crash, between two writes or inside any of the four files |
| `BootCutBlob` (violated) | Does a boot whose text is stored whole pick up a stack that this text produced? | the same |
| `BootHistory` (violated) | Does HEAD only move to descendants from boot to boot? | the same |
| `Walk` | Does what is restored in order fit what was ingested, is the plain set returned only when the budget or a gate cuts, do grid and tensor agree, does every restoration end? | sequences up to 9 tokens, grids up to 4 cells, tensors of 0 to 3 axes; exact and two kinds of colliding hashes; beams of 1 to 3; budget 14 |
| `BeamOne` (violated) | Does a beam always return? | one token, beam of two |
| `Cache` | Is what was merged restored, does a sealed table stay valid until it grows, is a snapshot the sealed one? | 2 workers, 4 calls, 1 crash, 2 tokens that collide under one of 2 seeds |
| `Libraries` | Does a basis that is never back-reduced decide span, coordinates and births, monotone and windowed, and do vectors measured in one generation keep their meaning in the next? Do keys measured in old bases keep theirs and all readings of a transition agree? Does the cache tell the truth? Is a root an identity? Do both hash rules agree, and what does a content key tell? | 4 pushes of 9 dependent sets over 4 bits, window 2, all 16 vectors looked up; 4 of 7 frames with colliding tokens, 3 freezes; 3 keys in a cache of 2 with TTL 2; trees over 3 leaves and 3 views; sketches of 3 of 5 tokens, one of them with a zero byte |

Why the bounds are enough. Two faults reach a failure followed by a crash, or a
crash inside the recovery from the first, and three commits let a merge have two
different parents and gc a commit nobody names. Three turns let one be skipped,
one fail and one follow; the capacity of two makes the third push evict. Four
pushes over a window of two evict twice and rebuild a basis that had been rotated.
Three edges make fan-in, fan-out, feedback and two sources for one port; the
budgets stop a run between any two firings. Three boots are needed for a state to
be saved, to be resumed, and to be resumed again after another boot file or a
crash. `LogCap` (16 records) bounds `Fire` by its guard; it is above the longest log of
a run with a budget or one that drains, so it cuts no behaviour of `Dispatch`. Walks look back three tokens and the
largest window has four, so sequences of six over two tokens repeat every context, and
the ones of nine (`aaabaaaa` and its neighbours) share all their windows with
another order; the budget of 14 is spent by some of them and not by others.
Two workers with four calls overlap a merge with a merge, and a write with either pass of
a snapshot, with one call before to have something to seal. Four frames let a basis grow,
rotate and be frozen and still leave a frame to read it from; three keys overflow a
cache of two; the hashes of `MCLibraries` include 0 and one with more zeros than a
register counts.

What the violated runs show (the lines are in `PROJECT.json`, "findings"):

- `TurnReprocess`: `commit` moves `tops` and `head` before `write_head`. When that
  fails and the host runs the turn again, the turn looks like one without news and is
  answered `Ok`, while HEAD never got it.
- `BootCutBlob`: `put_boot` rewrites a blob in place. Cut short, the empty file boots under
  the CID of the full text and saves its empty stack there; when the boot file
  is stored again, its text picks up that stack and starts from nothing for ever, although the
  state is meant to be used only if it belongs to this boot file (main.rs:143-144).
- `BootHistory`: `cmd_boot` opens the repository with `Repository::new`, which does not read
  HEAD. The first commit of a second boot is a root and HEAD leaves the trajectory of the first,
  although the parent is said to be the repository HEAD and the trajectory durable
  (commit.rs:5-7). What HEAD reaches within one boot is `OneTrajectory` of `Boots`.
- `BeamOne`: with a beam wider than one, `beam_search` reads the last token but one of a
  complete hypothesis before it asks whether there is one: a collection of one token
  panics. `MCJobs` of `Walk` has the case too, where a panic ends the restoration.

Limits that the passing runs show in their premises, or that other instances show:

- With `AnyMerge` TRUE, `RepoCrash` finds `TopsExact` violated: `merge_commit` of older commits
  moves `head` off what `tops` holds. And `RepoTorn` finds `GcPrunesOnlyUnreachable` violated: a repeated
  `merge_commit` of older commits can rewrite the file HEAD names; cut short, it makes
  `reachable_mark` take HEAD for a commit without parents, and gc deletes its history. A
  merge that includes HEAD always makes a new object.
- A commit that fails leaves a ring direction that never gets its birth, because the ring
  is pushed first (app.rs:221): `BirthsLinked` asks only that the births there are name
  commits of the history.
- Without a budget an acyclic graph can fire for ever: values are content-addressed, so
  an output can be a value that has consumers. `Stops` asks for a budget or for no such value.
- `merge_lut` rewrites a shared table in place (ewm-cache storage.rs:132, 151-159). When the write
  fails or the process dies in it, the table has lost the fibers of all earlier
  persisted turns, although the cache calls itself append-only (storage.rs:146), and no later merge
  repairs it. `LutCoversHistory` speaks of the tables that were not cut, and says that a
  cut one is never begun again with later turns only.
- `NeverStartsEmpty` excuses a script whose own blob was cut (`emptied`), whatever else was
  cut, and `BootCutBlob` shows why.
- The second boot with `--repo` orphans the trajectory of the first, as `BootHistory` shows;
  `OneTrajectory` speaks of the boot in progress.
- `RestoreFaithful` compares the birth table without `push_index`: the live ring counts
  pushes of turns that were not committed, a restored one cannot.
- `RestoresMerged` and `SealedUntilGrown` exclude overlapping writers (`raced`): of two
  overlapping merges one loses the other's rows. A table cut short by a crash
  is never repaired: `merge_lut` reads before it writes and refuses the file. A sealed table that
  gained rows has no copy left.
- A sequence that repeats one token is restored with the ingested counts and windows but
  not always in the ingested order: `RestoresOriginal` asks for tokens that occur once.
  Under colliding hashes only the windows of one and two tokens are promised
  (`OrderedAnswerFits`); those of three and four can be let through by a collision. So
  can they when a token equals the pad: a window of three at the beginning reads like one
  of tokens and is then checked against them, so the property asks for `Pad \notin AllTokens`.
- `spill_oldest` of `ewm-flux-host` is zero for frames a, b, a although its doc
  (sidecar.rs:112) calls it non-zero once the basis grew: `FinalProjection` states what it is,
  the bits of the last frame that the first lacks.
- `minimal_cover` keeps the harmonic bound in the most bits one row shares with the set,
  not in the dimension (lib.rs:215-216).
- A context tree keeps the first of two leaves with one key: a merge commutes only if the
  shared leaves have the same views, and diff does not tell a change of views.
- A content key tells a collection only up to the zero bytes in its tokens, which
  `content_key_with_prefix` joins with and does not escape (content_addr.rs:80-86): a token
  `a 0 b` alone has the key of `a` with `b`. `SketchFaithful` says that equal keys have equal
  pieces (`Pieces`: the parts of the tokens between zero bytes), and equal sets when no token holds
  a zero byte. The key of the empty collection is that of the empty token.
- `leaf_hash` of a context tree puts no separator between the LUT name and the key of a view
  (context-tree lib.rs:43-46): `ab, c` and `a, bc` hash alike. The model takes the list of views as
  told by its hash, which is so when the names or the keys have one length; the callers in the
  repository write no views at all (app.rs:249, state.rs:105).

Deadlock checking is off in every run: the bounds stop every model, and the
programs themselves end.

Fairness. `Dispatcher` states `WF_vars(Pop)`, because `run_until` is a loop in the
only thread of the process, and `OrderedWalk` states `WF_vars(Next)`, because
`order_tokens` is one call that nothing interrupts. `Stops` and `Answered` are the only
liveness properties; the other components are libraries whose calls return, and
nothing obliges a host to call them again.

## Theorems

`tlapm` checks every proof to its leaves, for every value of the constants that the
modules' own assumptions admit. "Assumes" names what a theorem needs beyond those.

| theorem | statement | assumes |
|---|---|---|
| `RepositoryTyped` | `TypeOK`: every file is a well-formed object, none readable and torn at once, a call in progress works on a whole commit | |
| `Inductive`, `HeadFileStaysIntact`, `RefsStayIntact`, `HeadFileStaysReached`, `HistoryIsKept` | the persisted history and all references stay readable, HEAD only moves to descendants | `~TornWrites`, `~AnyMerge` |
| `TopsStayExact` | `TopsExact`: `tops` is the union of what `head` reaches | `~TornWrites`, `~AnyMerge` |
| `GcSparesTheNeeded` | `GcPrunesOnlyUnreachable`: gc deletes nothing that `head` or a branch needs | not both `TornWrites` and `AnyMerge` |
| `CommitsHeal` | `CommitHeals`: a commit about to become HEAD can be read with all it names | |
| `NothingForgotten` | `gc_to` archives every readable object before it deletes it | |
| `InsertSpan` | an insert into an echelon table, reduced or not, adds the coset of what is inserted to its span | finite positions |
| `RingInductive`, `RingSpanExact`, `RingFlagExact`, `RingBasisChange` | `SpanExact`, `FlagExact`, `BasisChange`: the ring decides span, coordinates, births and changes of basis exactly | |
| `RingCoverBounded` | `CoverWithinBound`: the greedy cover misses nothing that can be covered and is at most H(n) times as large as any other | |
| `TurnHistoryGrows` | HEAD only moves to descendants, for either kind of host | |
| `TurnLutCoversHistory`, `TurnHistoryMonotone`, `TurnBirthsLinked` | a table that was not cut has every persisted turn, the states and TFs grow along the history, a birth names the first commit with its direction; for either kind of host and any failures and deaths | |
| `TurnImplementsMemory` | `StateMachine` implements `TurnMemory`, for a host that leaves on errors | |
| `TurnRestoreFaithful` | the replay of the history is the live cache, for such a host | |
| `TurnAckedDurable` | what was answered `Ok` to such a host stays in the persisted state | |
| `FireTokensExact`, `RouteKeepsOneToken` | one Fire token per ready program, no `InputNotFilled` | per graph: `Wired`, inside the property |
| `DispatcherImplementsDataflow` | `Dispatcher` implements `Dataflow` | |
| `DispatchDeterminate` | `Determinate`: a graph with one source per port that has drained has logged the order-free reading, each firing once, however it was stopped and fed | |
| `QuantifiersDual`, `QuantifiersAdjoint` | `forall_c` and `exists_c` are dual and adjoint | |
| `BootLogLoss` | the readable log misses at most one finished boot for each death inside `log_boot` | |
| `BootOneTrajectory` | HEAD reaches the firings of one boot alone, in order, and all of them when its commits are made | |
| `BootNeverStartsEmpty` | a script with seeds never starts from an empty stack, unless its own blob was cut | |
| `BootProgramsGrounded` | a running program meets no missing literal, no missing callee and not itself | `OpIdsDistinct`: no two operations have one id |
| `BootStateBelongs` | a state file holds only values its own boot's programs make | a finite plane |
| `CacheSnapshotIsSealed`, `CacheRestoresMerged`, `CacheSealedUntilGrown` | the three properties of the run `Cache`, for any number of workers, tables, calls and crashes | |
| `WalkInvariant`, `OpenInvariant` | what is on the path, in a beam or answered was a candidate when taken; while there is budget the ingested order has not been given up | |
| `FallbackTheorem` | `FallbackOnlyWhenCut`: the plain set is answered only when the budget or the gate cuts | |
| `AnswerTheorem`, `RestoreTheorem` | `OrderedAnswerFits` and `RestoresOriginal`: an ordered answer has the ingested counts and windows, and without repetitions is what was ingested | `ExactHash`: the hash that the instance calls exact has no collisions (nothing is assumed of the others) |
| `GridTheorem` | `GridIsTensor`: a grid is a tensor of two axes, for every shape | |
| `CacheStaysFaithful` | `CacheFaithful`: the cache answers for its backend, within the TTL | |
| `TravelStaysExact` | `TravelExact`: keys of old generations read exactly in the recorded bases | |
| `TransitionsAlwaysAgree` | `TransitionsAgree`: all readings of a step between two frames agree, under any hash collisions | |
| `TreesIdentify` | `TreeIdentity`: the root of a context tree is the identity of its collection, and the operations obey their laws | |
| `SketchesStayFaithful` | `SketchFaithful`: all paths to the bits of a sketch agree, the key of a collection tells what its tokens are between zero bytes, counts and wire forms lose nothing | |

The `Ring` theorems and the last five are about the components on their own
(`RingInit`, `[][RingNext]`, and so on), which `Libraries` sets side by side. `ScriptsAssumption`, `GraphAssumption`,
`SceneAssumption`, `GridAssumption`, `JobsAssumption`, `ContextTreeAssumption` and `SketchAssumption` say that constants are what the parsers and constructors of the code
let through (ports that exist, grids whose cells fill the shape, hashes of one width), and TLC evaluates each
on a run.

The arguments.

- References (`IInv` in `Repository`). That HEAD is readable is not inductive: a gc in
  progress deletes files without looking at HEAD again. `CallSound` says what each
  stage of a commit has already put, so that the commit is readable when `head`
  takes it; `HeadDescends` says that whoever can read `head`'s history finds the HEAD
  file's commit in it, so that a mark that starts from `head` also protects HEAD;
  `GcSpares` says that what is doomed is outside a readable history of each root.
  `Intact` is stated with a set of commits closed under parents, so no induction over
  the length of a history is needed. `~TornWrites` is where the code's assumption
  lies: `store.put` is `fs::write`, and `RepoTorn` with `AnyMerge` shows what is lost without it.
- gc with torn writes. A torn tree or TF can then make a referenced commit unreadable as a
  whole, so `Intact` is not available. What gc's walk needs is weaker: no *commit object* that a
  reference reaches is torn (`TornUnneeded`). It holds because a commit is written before it
  is referenced and never again after: a rank that grows from parents to children
  (`Ranked`) makes the commit in progress younger than every reference.
- `tops`. It is the union over what `head` reaches, and a commit in progress goes on top
  of commits that are reached already, `head` among them (`CallLogged`).
- The ring. `Gf2RingProofs` has the algebra without a state: symmetric difference, spans
  as sets of sums, echelon tables. Elimination is a fold over the rows; that it reduces to
  zero exactly on the span is shown by a least counterexample, in place of induction. The
  invariant of `BoolRing` is that rows are echelon and span the generators, and that each
  prefix of births spans the history up to the next birth, which is what makes the
  lineage a flag.
- The greedy cover. The classical argument with prices needs real numbers; here a weight
  takes their place: n! times the harmonic sum of what each row of the other cover still
  has uncovered. A choice of `minimal_cover` takes at least n! off it, because no row had
  more uncovered bits than the one that was chosen (`ChoiceDrop`), so the number of choices
  is at most the weight at the start (`CoverPaid`). The recursion is on the set of rows not taken
  yet, and so is the induction.
- Turns. A turn that commits has merged every table first, and a merge stops at a table
  that was cut: so the tables that were not have every turn that was ever committed (`Merged`). With a host that leaves on errors, `Synced` (cache, `tops` and `head` are
  what the disk has while the process is up) with `Growing` (states grow along the
  history) makes each step an `Absorb`, an `Answer` or a stutter of `TurnMemory`.
  `HistoryGrows` needs less: HEAD is a prefix of both the cache's `tip` and `head`
  (`Ahead`), also for a host that goes on. `RestoreFaithful` follows the replay commit by
  commit: the ring after a replay of a history and one turn is the replayed ring, pushed.
- Fire tokens. A routing loop over a finite set of deliveries in a fixed order makes a
  program full at exactly one delivery, its trigger (`TriggerFacts`), and pushes one
  token for it (`RouteKeepsOneToken`); popping a Fire token empties the ports of that
  program and no other. The refinement to `Dataflow` needs `FlowInv`: the tokens are typed,
  and every ready program has one.
- Determinacy (`DetInv`). There is no need to compare two runs: the state is put in relation to
  the order-free reading itself. Every program is logged once; each record takes what the
  seeds and the records before it offer its ports (`Derived`), so by its place k it is
  among the firings of round k; ports hold what was offered; a value with consumers is in
  flight once and none of its consumers has it; what left flight has arrived. When
  nothing is in flight and no program is ready, a program that a round fires was fired,
  on the one value its one source per port can give, with the one outcome a program has. A cycle
  of edges does no harm: with one source per port nothing starts it.
- Boots. `LogAccount` balances the boots that finished against the records that can be
  read and the deaths; `CommitsFollow` says how far HEAD has followed the fire log at each program
  counter; `StacksKept` follows which blobs were ever cut, because what was saved under a cut one
  stays on file after the blob is repaired; `RunsGrounded` that the graph is compiled from a text in which a name resolves only
  to what stands above it. For `StateBelongs` what a script can make is a fixed point over the finite
  plane, and a program's outcome grows with the values it is given, so
  what a rebooted script starts from reaches nothing new.
- The shared cache. `CacheInv` has one half that always holds (files are typed, a reader
  has seen what the files were, a snapshot is the sealed one) and one that holds until a
  writer overwrites what it has not read (one writer of a file at a time, everything merged
  is in its file or in the hand of its writer, or a death left the file cut short). Equal row sets have equal
  bytes because a sorted sequence without repetitions is determined by its elements, shown
  by counting those below each.
- The storage cache. The queue lists the map's keys once each, and a key that is cached
  has been missing from the backend no longer than it has been cached: that is all a TTL
  can promise, and a hit must not renew it.
- Frames. The window's rows span the frames pushed so far; consecutive generations differ
  by one row appended, each is recorded when it appears, so what `RowsOf` finds for a
  generation never changes and keys written under it keep their reading.
- Transitions. The counts are set algebra. The subframes rest on one fact about grids:
  the 1x1 channel of a grid is the hashes of its cells and of the pad, whatever the shape.
- Context trees. Every operation ends in `build`, so that a tree is always what `build` makes
  of its leaves (`TreesInv`), that is, a function of a set of keys and their sorted views
  (`TreeOf`): the laws become laws of such functions, and replaying a diff is
  an induction over the keys, in whatever order. That the root tells the tree is shown on levels of
  the Merkle tree: a level without repetitions is told by the next one, an odd end included,
  and the tag of a leaf says after how many levels the leaves are reached, so two
  sequences of leaves with one root have the same height and then the same entries.
- Sketches. The invariant is that the bits are those of the tokens fed (`SketchInv`). Each
  further path is followed on its own. The mask of a register sums powers of two
  in an order nobody chose; in the order of the positions the partial sums are the
  binary number whose digits are the register's bits, so that `from_dense` reads
  them back and the largest power below the mask is a bit. The registers and the counts by position
  partition the bits. For content keys the lexicographic order is total, so the listing that
  is hashed has every token once, and joining one more token with a zero adds the parts
  of that token to the parts of the text (`PartsMore`): a text tells the pieces of its tokens. A
  token without a zero byte is its only piece. A text without tokens and the
  text of the empty token are the same, which is the exception the property makes.
- The ordered walk. `WalkInv` ties the parts of the state to the job and the path: the
  candidates left at a depth are candidates of the path up to there, what is left of the counts is
  what the path has not used, and everything answered is `Complete`. `OpenInv` says that the
  ingested order is never given up: at every depth where the path still follows it, its next
  token is on the path or among the candidates left. It is inductive because the
  ingested order passes every check made along it (`OriginalOk`): every window that a check
  reads is one that the ingest set, for sequences, grids and tensors, each by its own index
  arithmetic. That `grid.rs` and `tensor.rs` agree is the same arithmetic on a flat index.
  For `RestoresOriginal` each accepted token has a window that only one position of the
  original gives when tokens are distinct.

Only model-checked are liveness and `ENABLED`, which are outside what the prover handles:
`Stops` and `Answered`; and, because they are violated, the properties of the two runs that
expect it.

## Not modelled

Component by component in `PROJECT.json`. In short:

- Floating point: step lengths, thresholds, cardinality estimates and what is built on
  them, encoders and code books, the quantizer, the synthetic host.
- Text: splitting, parsing and printing of programs, scripts, identifiers and reports; names and
  keys of channels.
- Reads that change nothing and feed nothing that is modelled: `log`'s order over merges,
  the commit views, lists, exploration reports.
- The temporal keys of `hllset-storage` (`put_tmp`, `get_tmp`, `cas_tmp`): a map of their
  own, which the cache does not pass through: there they are the trait's defaults, like
  `pin` and `gc`.
- Refusals that no state of the model reaches: other schema versions and unknown object
  names in a manifest.
- `trainer`: Python experiments around an external model.

## What is left

The liveness properties hold on the instances; a proof would need a measure that each fair step
of the dispatcher and of the walk decreases, and a prover for fairness.
