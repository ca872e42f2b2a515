---------------------------- MODULE StateMachine ----------------------------
(***************************************************************************)
(* The turn loop of ewm-app: StateMachine::run_turn (app.rs) over a        *)
(* StateCache (state.rs), a Repository and the shared LUT tables, with     *)
(* StateCache::restore after a crash.  A commit is content-addressed and   *)
(* has the cache's tip as its one parent, so it is the path of its         *)
(* entries from the root: its parent is Front, its log is the path itself. *)
(* Object files are written whole here; Repository has the torn ones.      *)
(***************************************************************************)
EXTENDS Integers, Sequences, FiniteSets, SequencesExt

CONSTANTS
    Turns,        \* the token-id lists that are run
    Bits,         \* bit positions
    Channels,     \* the seeded channels, numbered from 1, which is G1
    Sketch,       \* Sketch[t][c]: turn t ingested at seed c
    Capacity,     \* RING_CAPACITY
    SharedLut,    \* attach_shared_lut was called
    MaxCalls      \* bound: calls of run_turn

ASSUME TurnAssumption ==
    /\ IsFiniteSet(Channels) /\ 1 \in Channels
    /\ Channels = 1..Cardinality(Channels)
    /\ Bits \subseteq Nat /\ IsFiniteSet(Bits)
    /\ Sketch \in [Turns -> [Channels -> SUBSET Bits]]
    /\ \A t \in Turns : Sketch[t][1] # {}
    /\ Capacity \in Nat \ {0} /\ MaxCalls \in Nat
    /\ SharedLut \in BOOLEAN

VARIABLES
    HEAD,    \* disk: the commit that HEAD names, <<>> for none
    lut,     \* disk: lut[c], the turns whose rows table ns:Gc holds
    cut,     \* disk: the tables whose file was truncated and not filled
    head,    \* Repository::head
    tops,    \* Repository::tops
    cache,   \* the StateCache
    up,      \* the process runs
    retries, \* the host goes on after an Err (main.rs exits)
    calls,   \* calls of run_turn so far
    acked    \* the turns for which run_turn has returned Ok

vars == <<HEAD, lut, cut, head, tops, cache, up, retries, calls, acked>>

-----------------------------------------------------------------------------
(* Commits and the ring.                                                   *)

NoCommit   == <<>>
EmptyState == [c \in Channels |-> {}]
NoTouches  == [b \in Bits |-> 0]

Join(s, u) == [c \in Channels |-> s[c] \union u[c]]
Plus(f, g) == [b \in Bits |-> f[b] + g[b]]

G1(t) == Sketch[t][1]

\* One pass touches a position once for every channel that sets it.
Touches(t) == [b \in Bits |-> Cardinality({c \in Channels : b \in Sketch[t][c]})]

\* states, state_tf: what a commit holds; restore reads nothing as empty.
StateOf(commit) == IF commit = NoCommit THEN EmptyState ELSE Last(commit).state
TfOf(commit)    == IF commit = NoCommit THEN NoTouches  ELSE Last(commit).tf

\* rebuild_tops: the union of the states of the log.
TopsOf(commit) ==
    [c \in Channels |-> UNION {commit[i].state[c] : i \in DOMAIN commit}]

\* The monotone ring of the cache.
Ring == INSTANCE Gf2Ring WITH MaxLen <- Capacity

\* BirthTable::record: push_with_birth's birth with its provenance.
BirthRecord(birth, commit, original) ==
    [commit |-> commit, original |-> original, vec |-> birth.vec, pivot |-> birth.pivot,
     generation |-> birth.generation, push_index |-> birth.push_index]

Recorded(births, w, x, commit) ==
    IF Ring!IsBirth(w, x)
    THEN Append(births, BirthRecord(Ring!BirthOf(w, x), commit, x))
    ELSE births

\* push_recorded for the committed turns, in order: window and birth table.
PushRecorded(replay, i, commit) ==
    LET x == G1(commit[i].turn) IN
    [ring   |-> Ring!Pushed(replay.ring, x),
     births |-> Recorded(replay.births, replay.ring, x, SubSeq(commit, 1, i))]

Replayed(commit) ==
    FoldLeft(LAMBDA replay, i : PushRecorded(replay, i, commit),
             [ring |-> Ring!EmptyWindow(FALSE), births |-> <<>>],
             [i \in DOMAIN commit |-> i])

\* StateCache::restore: the ring and the births are replayed from the log.
Restored(commit) ==
    [working |-> StateOf(commit),
     tfBase  |-> TfOf(commit),
     touched |-> NoTouches,
     turns   |-> [i \in DOMAIN commit |->
                    [turn |-> commit[i].turn, commit |-> SubSeq(commit, 1, i)]],
     tip     |-> commit,
     ring    |-> Replayed(commit).ring,
     births  |-> Replayed(commit).births]

Init ==
    /\ HEAD = NoCommit /\ lut = [c \in Channels |-> {}] /\ cut = {}
    /\ head = NoCommit /\ tops = EmptyState
    /\ cache = Restored(NoCommit)
    /\ up = TRUE /\ retries \in BOOLEAN /\ calls = 0 /\ acked = {}

-----------------------------------------------------------------------------
(* run_turn, cut where it can return an error.                             *)

CurrentTf == Plus(cache.tfBase, cache.touched)

\* Steps 1 to 3: what run_turn has done to the cache when it gets to step 4.
Absorbed(t) ==
    [cache EXCEPT !.touched = Plus(@, Touches(t)),
                  !.working = Join(@, Sketch[t]),
                  !.ring    = Ring!Pushed(@, G1(t))]

NewBits(t)      == \E c \in Channels : ~(Absorbed(t).working[c] \subseteq tops[c])
BasisChanged(t) == Absorbed(t).ring.generation # cache.ring.generation

\* Mutation of Commits: only new bits are committed.
OnlyNewBits(t) == NewBits(t)

Commits(t) == NewBits(t) \/ BasisChanged(t)

\* Mutation of Entry: the state is the pass, not the working set.
PassOnly(t) ==
    [turn |-> t, structural |-> ~NewBits(t), state |-> Sketch[t],
     tf |-> Plus(CurrentTf, Touches(t))]

\* Mutation of Entry: the TF is the ingestor's, without the restored base.
TfSinceRestore(t) ==
    [turn |-> t, structural |-> ~NewBits(t), state |-> Absorbed(t).working,
     tf |-> Absorbed(t).touched]

\* The LatticeState and the message of the commit.
Entry(t) ==
    [turn       |-> t,
     structural |-> ~NewBits(t),
     state      |-> Absorbed(t).working,
     tf         |-> Plus(CurrentTf, Touches(t))]

\* Mutation of NewCommit: every commit is a root.
RootCommit(t) == <<Entry(t)>>

\* The parent is the cache's tip, not the repository's head.
NewCommit(t) == Append(cache.tip, Entry(t))

\* Mutation of Finished: a birth is linked to the commit before it.
LinkedToParent(t, commit, tip) ==
    [Absorbed(t) EXCEPT
        !.births = Recorded(@, cache.ring, G1(t), cache.tip),
        !.turns  = Append(@, [turn |-> t, commit |-> commit]),
        !.tip    = tip]

\* Steps 4b and 5.
Finished(t, commit, tip) ==
    [Absorbed(t) EXCEPT
        !.births = Recorded(@, cache.ring, G1(t), commit),
        !.turns  = Append(@, [turn |-> t, commit |-> commit]),
        !.tip    = tip]

Call(t) == up /\ calls < MaxCalls /\ calls' = calls + 1 /\ UNCHANGED retries

\* main.rs leaves the process on an error.
ReturnErr == up' = retries /\ UNCHANGED acked
ReturnOk(t) == acked' = acked \union {t} /\ UNCHANGED up

\* The tables after merge_lut of those below upTo.
MergedLuts(t, upTo) ==
    [c \in Channels |-> IF c < upTo THEN lut[c] \union {t} ELSE lut[c]]

\* merge_lut gets to table c in order, so none before c was cut: it cannot
\* read c, or it fails or dies before it opens c for writing, or in between the
\* truncation and the last byte, which takes the rows of all earlier turns.
MergeBreaksAt(t, c) ==
    /\ \A d \in cut : c <= d
    /\ \/ lut' = MergedLuts(t, c) /\ UNCHANGED cut
       \/ lut' = [MergedLuts(t, c) EXCEPT ![c] = {}] /\ cut' = cut \union {c}

\* Mutation of MergeLuts: a table that cannot be read is begun again.
MergesOverCut(t) ==
    /\ lut' = IF SharedLut THEN MergedLuts(t, Cardinality(Channels) + 1) ELSE lut
    /\ cut' = {}

\* Step 1b: all tables, each of which must still be readable.
MergeLuts(t) ==
    /\ lut' = IF SharedLut THEN MergedLuts(t, Cardinality(Channels) + 1) ELSE lut
    /\ cut = {} /\ UNCHANGED cut

\* merge_lut fails at a table: the pass is in the ingestor already.
LutFails(t) ==
    /\ SharedLut /\ Call(t)
    /\ \E c \in Channels : MergeBreaksAt(t, c)
    /\ cache' = [cache EXCEPT !.touched = Plus(@, Touches(t))]
    /\ ReturnErr
    /\ UNCHANGED <<HEAD, head, tops>>

\* A put of Repository::commit fails.
PutFails(t) ==
    /\ Call(t) /\ Commits(t)
    /\ MergeLuts(t)
    /\ cache' = Absorbed(t)
    /\ ReturnErr
    /\ UNCHANGED <<HEAD, head, tops>>

\* Repository::commit up to write_head: tops and head have moved.
Committed(t) ==
    /\ Call(t) /\ Commits(t)
    /\ MergeLuts(t)
    /\ tops' = Join(tops, Entry(t).state)
    /\ head' = NewCommit(t)

\* write_head fails.
RefFails(t) ==
    /\ Committed(t)
    /\ cache' = Absorbed(t)
    /\ ReturnErr
    /\ UNCHANGED HEAD

\* The turn commits; reading the view back may still fail.
Turn(t) ==
    /\ Committed(t)
    /\ HEAD' = head'
    /\ cache' = Finished(t, NewCommit(t), head')
    /\ ReturnOk(t) \/ ReturnErr

\* Neither new bits nor a new direction: the turn is recorded, not committed.
SkipTurn(t) ==
    /\ Call(t) /\ ~Commits(t)
    /\ MergeLuts(t)
    /\ cache' = Finished(t, NoCommit, head)
    /\ ReturnOk(t) \/ (head # NoCommit /\ ReturnErr)
    /\ UNCHANGED <<HEAD, head, tops>>

\* The process dies (between two calls, or within one: every prefix of
\* run_turn's effects on the disk is one of the failures above) and
\* StateMachine::open and StateCache::restore start from the disk.
Recover ==
    /\ up' = TRUE
    /\ head' = HEAD
    /\ tops' = TopsOf(HEAD)
    /\ cache' = Restored(HEAD)
    /\ UNCHANGED <<HEAD, lut, cut, retries, calls, acked>>

Next ==
    \/ \E t \in Turns :
          LutFails(t) \/ PutFails(t) \/ RefFails(t) \/ Turn(t) \/ SkipTurn(t)
    \/ Recover

Spec == Init /\ [][Next]_vars

-----------------------------------------------------------------------------
(* Properties.                                                             *)

Dominates(f, g) == \A b \in Bits : g[b] <= f[b]
Covers(s, u)    == \A c \in Channels : u[c] \subseteq s[c]

\* Lineage without the push order, which skipped turns shift.
Lineage(births) == [g \in DOMAIN births |-> [births[g] EXCEPT !.push_index = 0]]

\* A crash now would lose nothing: what restore would build from the disk has
\* the working set, the ring basis and the lineage of the live cache, however
\* many skips, failures and restarts came before, with a host that leaves on an
\* error.
RestoreFaithful ==
    up /\ ~retries =>
          LET r == Restored(HEAD) IN
          /\ r.working = cache.working
          /\ r.tip = cache.tip /\ head = HEAD
          /\ r.ring.rows = cache.ring.rows
          /\ r.ring.generation = cache.ring.generation
          /\ Lineage(r.births) = Lineage(cache.births)

\* A turn that was answered with Ok is in the persisted state, and its G1 in
\* the span of the ring that a restart would rebuild.
AckedDurable ==
    \A t \in acked :
        /\ Covers(StateOf(HEAD), Sketch[t])
        /\ Ring!InSpan(Replayed(HEAD).ring.rows, G1(t))

\* Every birth names a commit of the persisted history, the one whose turn
\* brought the direction in.
BirthsLinked ==
    up => \A g \in DOMAIN cache.births :
            LET birth == cache.births[g] IN
            /\ birth.commit # NoCommit /\ IsPrefix(birth.commit, HEAD)
            /\ birth.original = G1(Last(birth.commit).turn)
            /\ \A k \in 1..Len(birth.commit) - 1 :
                  G1(birth.commit[k].turn) # birth.original

\* Along the persisted history states and TF only grow, and TF counts at
\* least the passes that were committed.
HistoryMonotone ==
    \A j \in DOMAIN HEAD :
        LET before == SubSeq(HEAD, 1, j - 1) IN
        /\ Covers(HEAD[j].state, Join(StateOf(before), Sketch[HEAD[j].turn]))
        /\ Dominates(HEAD[j].tf, Plus(TfOf(before), Touches(HEAD[j].turn)))

\* A shared table that can be read has the fibers of every persisted turn:
\* they are merged before the commit, and a table that was cut stays unreadable
\* and is never begun again with later turns only.  So materialize_lut of a
\* persisted state gives all its fibers or an error, never a part of them.  It
\* may come to the error: merge_lut rewrites the table in place, and a write
\* that fails or dies takes the rows of all earlier turns with it.
LutCoversHistory ==
    SharedLut => \A c \in Channels \ cut :
                    \A i \in DOMAIN HEAD : HEAD[i].turn \in lut[c]

\* HEAD only moves to descendants, whatever fails and whatever the host does.
HistoryGrows == [][IsPrefix(HEAD, HEAD')]_vars

\* When the process leaves on errors, as main.rs does, the turn loop is the
\* memory that TurnMemory describes; of a host that retries nothing is claimed
\* (the memory rests).
Remembered == IF retries THEN EmptyState ELSE StateOf(HEAD)
Answered   == IF retries THEN {} ELSE acked

Memory == INSTANCE TurnMemory WITH remembered <- Remembered, answered <- Answered

ImplementsMemory == Memory!Spec

=============================================================================
