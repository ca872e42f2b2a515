------------------------- MODULE StateMachineProofs -------------------------
(***************************************************************************)
(* Theorems of StateMachine.  Whatever fails and whatever the host does    *)
(* about it: HEAD only moves to descendants, a shared table that can be    *)
(* read holds the history, states and TF only grow along it, and every     *)
(* birth names the commit that brought its direction in.  With a host that *)
(* leaves on an error the turn loop implements TurnMemory, a restart       *)
(* rebuilds the live cache, and an answered turn is never lost.            *)
(***************************************************************************)
EXTENDS StateMachine, FiniteSetTheorems, SequenceTheorems, TLAPS

States  == [Channels -> SUBSET Bits]
Counts  == [Bits -> Nat]
Entries == [turn : Turns, structural : BOOLEAN, state : States, tf : Counts]
CacheFields ==
    {"working", "tfBase", "touched", "turns", "tip", "ring", "births"}

\* The parts of the state that commits are made of.
Typed ==
    /\ HEAD \in Seq(Entries) /\ head \in Seq(Entries)
    /\ DOMAIN cache = CacheFields
    /\ cache.tip \in Seq(Entries)
    /\ cache.working \in States
    /\ cache.tfBase \in Counts /\ cache.touched \in Counts
    /\ tops \in States

-----------------------------------------------------------------------------
(* Commits and caches.                                                     *)

\* A commit holds a state and a TF.
LEMMA CommitHolds ==
    ASSUME NEW commit \in Seq(Entries)
    PROVE  /\ StateOf(commit) \in States
           /\ TfOf(commit) \in Counts
<1>1. CASE commit = NoCommit
    BY <1>1 DEF StateOf, TfOf, EmptyState, NoTouches, States, Counts
<1>2. CASE commit # NoCommit
    <2>1. Len(commit) \in DOMAIN commit
        BY <1>2 DEF NoCommit
    <2>2. Last(commit) \in Entries
        BY <2>1 DEF Last
    <2> QED
        BY <1>2, <2>2 DEF StateOf, TfOf, Entries
<1> QED
    BY <1>1, <1>2

\* One pass touches a position as often as there are channels that set it.
LEMMA TouchesType ==
    ASSUME NEW t \in Turns
    PROVE  Touches(t) \in Counts
<1>1. ASSUME NEW b \in Bits
      PROVE  Cardinality({c \in Channels : b \in Sketch[t][c]}) \in Nat
    <2>1. IsFiniteSet({c \in Channels : b \in Sketch[t][c]})
        BY TurnAssumption, FS_Subset
    <2> QED
        BY <2>1, FS_CardinalityType
<1> QED
    BY <1>1 DEF Touches, Counts

\* Adding touch counts gives touch counts.
LEMMA PlusType ==
    ASSUME NEW f \in Counts, NEW g \in Counts
    PROVE  Plus(f, g) \in Counts
BY DEF Plus, Counts

\* Absorbing a turn gives a state.
LEMMA JoinType ==
    ASSUME NEW s \in States, NEW t \in Turns
    PROVE  Join(s, Sketch[t]) \in States
BY TurnAssumption DEF Join, States

\* What the part of run_turn before the commit does to the cache.
LEMMA AbsorbedCache ==
    ASSUME NEW t \in Turns, Typed
    PROVE  /\ DOMAIN Absorbed(t) = CacheFields
           /\ Absorbed(t).working = Join(cache.working, Sketch[t])
           /\ Absorbed(t).working \in States
           /\ Absorbed(t).touched \in Counts
           /\ Absorbed(t).tfBase = cache.tfBase
           /\ Absorbed(t).tip = cache.tip
<1>1. /\ DOMAIN Absorbed(t) = CacheFields
      /\ Absorbed(t).working = Join(cache.working, Sketch[t])
      /\ Absorbed(t).touched = Plus(cache.touched, Touches(t))
      /\ Absorbed(t).tfBase = cache.tfBase
      /\ Absorbed(t).tip = cache.tip
    BY DEF Absorbed, Typed, CacheFields
<1> QED
    BY <1>1, JoinType, PlusType, TouchesType DEF Typed

\* What run_turn leaves in the cache's fields.
LEMMA FinishedCache ==
    ASSUME NEW t \in Turns, Typed, NEW commit, NEW tip
    PROVE  /\ DOMAIN Finished(t, commit, tip) = CacheFields
           /\ Finished(t, commit, tip).working = Absorbed(t).working
           /\ Finished(t, commit, tip).touched = Absorbed(t).touched
           /\ Finished(t, commit, tip).tfBase = cache.tfBase
           /\ Finished(t, commit, tip).tip = tip
BY AbsorbedCache DEF Finished, CacheFields

\* What restore puts in the cache's fields.
LEMMA RestoredCache ==
    ASSUME NEW commit
    PROVE  /\ DOMAIN Restored(commit) = CacheFields
           /\ Restored(commit).working = StateOf(commit)
           /\ Restored(commit).touched = NoTouches
           /\ Restored(commit).tfBase = TfOf(commit)
           /\ Restored(commit).tip = commit
BY DEF Restored, CacheFields

\* The commit that a turn makes: one entry more than the cache's tip.
LEMMA NewCommitHolds ==
    ASSUME NEW t \in Turns, Typed
    PROVE  /\ NewCommit(t) \in Seq(Entries)
           /\ StateOf(NewCommit(t)) = Join(cache.working, Sketch[t])
           /\ Len(NewCommit(t)) = Len(cache.tip) + 1
           /\ NewCommit(t)[Len(cache.tip) + 1].state = Join(cache.working, Sketch[t])
           /\ \A i \in DOMAIN cache.tip : NewCommit(t)[i] = cache.tip[i]
<1>1. Entry(t) \in Entries
    <2>1. Plus(CurrentTf, Touches(t)) \in Counts
        BY PlusType, TouchesType DEF CurrentTf, Typed
    <2> QED
        BY <2>1, AbsorbedCache DEF Entry, Entries
<1>2. Entry(t).state = Join(cache.working, Sketch[t])
    BY AbsorbedCache DEF Entry
<1>3. cache.tip \in Seq(Entries)
    BY DEF Typed
<1> QED
    BY <1>1, <1>2, <1>3 DEF NewCommit, StateOf, Last, NoCommit
-----------------------------------------------------------------------------
(* HEAD only moves to descendants.                                         *)

\* What the process takes for the history extends the persisted one.
Ahead == IsPrefix(HEAD, cache.tip) /\ IsPrefix(HEAD, head)

\* A history is a prefix of itself.
LEMMA PrefixOfItself ==
    ASSUME NEW s \in Seq(Entries)
    PROVE  IsPrefix(s, s)
BY DEF IsPrefix

\* A commit of the cache's tip descends from all that the tip descends from.
LEMMA PrefixOfNewCommit ==
    ASSUME NEW t \in Turns, Typed, NEW s \in Seq(Entries), IsPrefix(s, cache.tip)
    PROVE  IsPrefix(s, NewCommit(t))
<1>1. Len(s) <= Len(NewCommit(t))
    BY NewCommitHolds DEF IsPrefix, Typed
<1>2. SubSeq(cache.tip, 1, Len(s)) = SubSeq(NewCommit(t), 1, Len(s))
    <2>1. /\ cache.tip \in Seq(Entries) /\ NewCommit(t) \in Seq(Entries)
          /\ Len(s) \in Nat /\ Len(s) <= Len(cache.tip)
          /\ \A i \in 1..Len(cache.tip) : NewCommit(t)[i] = cache.tip[i]
        BY NewCommitHolds DEF IsPrefix, Typed
    <2> QED
        BY <2>1
<1> QED
    BY <1>1, <1>2 DEF IsPrefix

\* The memory starts at the persisted history.
LEMMA InitAhead == Init => Typed /\ Ahead
<1>1. NoCommit \in Seq(Entries) /\ NoTouches \in Counts /\ EmptyState \in States
    BY DEF NoCommit, NoTouches, EmptyState, Counts, States
<1>2. StateOf(NoCommit) \in States /\ TfOf(NoCommit) \in Counts
    BY <1>1, CommitHolds
<1> QED
    BY <1>1, <1>2, RestoredCache, PrefixOfItself DEF Init, Typed, Ahead

\* The union of the states of a log.
LEMMA TopsType ==
    ASSUME NEW commit \in Seq(Entries)
    PROVE  TopsOf(commit) \in States
<1>1. \A i \in DOMAIN commit : commit[i] \in Entries
    OBVIOUS
<1>2. \A i \in DOMAIN commit : \A c \in Channels : commit[i].state[c] \subseteq Bits
    BY <1>1 DEF Entries, States
<1> QED
    BY <1>2 DEF TopsOf, States

\* A step keeps the history in memory an extension of the persisted one, which
\* only grows.
LEMMA NextAhead ==
    ASSUME Typed, Ahead, [Next]_vars
    PROVE  /\ Typed' /\ Ahead'
           /\ IsPrefix(HEAD, HEAD')
<1>1. CASE UNCHANGED vars
    BY <1>1, PrefixOfItself DEF vars, Typed, Ahead
<1>2. ASSUME NEW t \in Turns, LutFails(t)
      PROVE  Typed' /\ Ahead' /\ IsPrefix(HEAD, HEAD')
    <2>1. cache' = [cache EXCEPT !.touched = Plus(@, Touches(t))]
        BY <1>2 DEF LutFails
    <2>2. /\ DOMAIN cache' = CacheFields
          /\ cache'.touched \in Counts
          /\ cache'.tip = cache.tip /\ cache'.working = cache.working
          /\ cache'.tfBase = cache.tfBase
        BY <2>1, PlusType, TouchesType DEF Typed, CacheFields
    <2> QED
        BY <1>2, <2>2, PrefixOfItself DEF LutFails, Typed, Ahead
<1>3. ASSUME NEW t \in Turns, PutFails(t)
      PROVE  Typed' /\ Ahead' /\ IsPrefix(HEAD, HEAD')
    BY <1>3, AbsorbedCache, PrefixOfItself DEF PutFails, Typed, Ahead
<1>4. ASSUME NEW t \in Turns, Committed(t)
      PROVE  /\ head' \in Seq(Entries) /\ tops' \in States
             /\ IsPrefix(HEAD, head')
    <2>1. Entry(t).state \in States
        BY AbsorbedCache DEF Entry
    <2>2. tops' \in States
        BY <1>4, <2>1 DEF Committed, Join, States, Typed
    <2> QED
        BY <1>4, <2>2, NewCommitHolds, PrefixOfNewCommit DEF Committed, Typed, Ahead
<1>5. ASSUME NEW t \in Turns, RefFails(t)
      PROVE  Typed' /\ Ahead' /\ IsPrefix(HEAD, HEAD')
    BY <1>4, <1>5, AbsorbedCache, PrefixOfItself DEF RefFails, Typed, Ahead
<1>6. ASSUME NEW t \in Turns, Turn(t)
      PROVE  Typed' /\ Ahead' /\ IsPrefix(HEAD, HEAD')
    BY <1>4, <1>6, AbsorbedCache, FinishedCache, PrefixOfItself DEF Turn, Typed, Ahead
<1>7. ASSUME NEW t \in Turns, SkipTurn(t)
      PROVE  Typed' /\ Ahead' /\ IsPrefix(HEAD, HEAD')
    BY <1>7, AbsorbedCache, FinishedCache, PrefixOfItself DEF SkipTurn, Typed, Ahead
<1>8. ASSUME Recover
      PROVE  Typed' /\ Ahead' /\ IsPrefix(HEAD, HEAD')
    <2>1. NoTouches \in Counts
        BY DEF NoTouches, Counts
    <2> QED
        BY <1>8, <2>1, RestoredCache, CommitHolds, TopsType, PrefixOfItself
        DEF Recover, Typed, Ahead
<1> QED
    BY <1>1, <1>2, <1>3, <1>5, <1>6, <1>7, <1>8 DEF Next

\* HistoryGrows, for any turns, any failures and either kind of host: no
\* step of the turn loop replaces the persisted history.
THEOREM TurnHistoryGrows == Spec => HistoryGrows
<1>1. Typed /\ Ahead /\ [Next]_vars => [IsPrefix(HEAD, HEAD')]_vars
    BY NextAhead
<1>2. Typed /\ Ahead /\ [Next]_vars => (Typed /\ Ahead)'
    BY NextAhead
<1> QED
    BY InitAhead, <1>1, <1>2, PTL DEF Spec, HistoryGrows

-----------------------------------------------------------------------------
(* With a host that leaves on an error: the memory of TurnMemory.          *)

\* The states of the history grow, so the last one is the lattice top.
Growing ==
    \A i \in DOMAIN HEAD : \A c \in Channels :
        HEAD[i].state[c] \subseteq StateOf(HEAD)[c]

\* While the process runs, its cache and its repository are what the disk has.
Synced ==
    up => /\ cache.working = StateOf(HEAD) /\ tops = StateOf(HEAD)
          /\ cache.tip = HEAD /\ head = HEAD

IInv == Typed /\ Growing /\ Synced

Leaves == ~retries => IInv

\* rebuild_tops over a growing history.
LEMMA TopsAreLast ==
    ASSUME Typed, Growing
    PROVE  TopsOf(HEAD) = StateOf(HEAD)
<1>1. ASSUME NEW c \in Channels
      PROVE  UNION {HEAD[i].state[c] : i \in DOMAIN HEAD} = StateOf(HEAD)[c]
    <2>1. CASE HEAD = NoCommit
        BY <2>1 DEF StateOf, EmptyState, NoCommit
    <2>2. CASE HEAD # NoCommit
        <3>1. Len(HEAD) \in DOMAIN HEAD /\ StateOf(HEAD) = HEAD[Len(HEAD)].state
            BY <2>2 DEF Typed, StateOf, NoCommit, Last
        <3> QED
            BY <3>1 DEF Growing
    <2> QED
        BY <2>1, <2>2
<1>2. StateOf(HEAD) \in States
    BY CommitHolds DEF Typed
<1> QED
    BY <1>1, <1>2 DEF TopsOf, States

\* Committing the cache's tip with one turn more keeps the history growing.
LEMMA CommitGrows ==
    ASSUME IInv, up, NEW t \in Turns
    PROVE  /\ StateOf(NewCommit(t)) = Join(StateOf(HEAD), Sketch[t])
           /\ \A i \in DOMAIN NewCommit(t) : \A c \in Channels :
                 NewCommit(t)[i].state[c] \subseteq StateOf(NewCommit(t))[c]
<1>1. cache.working = StateOf(HEAD) /\ cache.tip = HEAD /\ HEAD \in Seq(Entries)
    BY DEF IInv, Synced, Typed
<1>2. /\ NewCommit(t) \in Seq(Entries) /\ Len(NewCommit(t)) = Len(HEAD) + 1
      /\ \A i \in DOMAIN HEAD : NewCommit(t)[i] = HEAD[i]
      /\ NewCommit(t)[Len(HEAD) + 1].state = Join(StateOf(HEAD), Sketch[t])
      /\ StateOf(NewCommit(t)) = Join(StateOf(HEAD), Sketch[t])
    BY <1>1, NewCommitHolds DEF IInv
<1>3. ASSUME NEW i \in DOMAIN NewCommit(t), NEW c \in Channels
      PROVE  NewCommit(t)[i].state[c] \subseteq StateOf(NewCommit(t))[c]
    <2>1. CASE i \in DOMAIN HEAD
        <3>1. HEAD[i].state[c] \subseteq StateOf(HEAD)[c]
            BY <2>1 DEF IInv, Growing
        <3> QED
            BY <1>2, <2>1, <3>1 DEF Join
    <2>2. CASE i = Len(HEAD) + 1
        BY <1>2, <2>2
    <2>3. i \in DOMAIN HEAD \/ i = Len(HEAD) + 1
        BY <1>1, <1>2
    <2> QED
        BY <2>1, <2>2, <2>3
<1> QED
    BY <1>2, <1>3

\* The first invariant at the start.
LEMMA InitSynced == Init => IInv
<1>1. Init => StateOf(HEAD) = EmptyState
    BY DEF Init, StateOf
<1> QED
    BY <1>1, InitAhead, RestoredCache DEF Init, IInv, Growing, Synced, NoCommit

\* The host is what it was at the start.
LEMMA HostStays ==
    ASSUME [Next]_vars
    PROVE  UNCHANGED retries
BY DEF Next, vars, LutFails, PutFails, RefFails, Turn, SkipTurn, Committed, Call, Recover

\* Every step keeps IInv and is a step of TurnMemory, or one it stutters on.
LEMMA NextImplements ==
    ASSUME ~retries, IInv, Ahead, [Next]_vars
    PROVE  IInv' /\ [Memory!Next]_<<Remembered, Answered>>
<1> USE DEF IInv
<1>0. Typed'
    BY NextAhead
<1>h. /\ ~retries'
      /\ Remembered = StateOf(HEAD) /\ Remembered' = StateOf(HEAD)'
      /\ Answered = acked /\ Answered' = acked'
    BY HostStays DEF Remembered, Answered
<1>1. ASSUME HEAD' = HEAD, acked' = acked, ~up' \/ UNCHANGED vars
      PROVE  IInv' /\ [Memory!Next]_<<Remembered, Answered>>
    BY <1>0, <1>h, <1>1 DEF Growing, Synced, StateOf, vars
<1>2. ASSUME NEW t \in Turns, LutFails(t) \/ PutFails(t) \/ RefFails(t)
      PROVE  IInv' /\ [Memory!Next]_<<Remembered, Answered>>
    BY <1>1, <1>2 DEF LutFails, PutFails, RefFails, ReturnErr
<1>3. ASSUME NEW t \in Turns, Turn(t)
      PROVE  IInv' /\ [Memory!Next]_<<Remembered, Answered>>
    <2>1. /\ up /\ HEAD' = NewCommit(t) /\ head' = NewCommit(t)
          /\ tops' = Join(tops, Entry(t).state)
          /\ cache' = Finished(t, NewCommit(t), NewCommit(t))
        BY <1>3 DEF Turn, Committed, Call
    <2>2. StateOf(HEAD)' = Join(StateOf(HEAD), Sketch[t])
        BY <2>1, CommitGrows DEF StateOf
    <2>3. Growing'
        BY <2>1, CommitGrows DEF Growing, StateOf
    <2>4. cache'.working = StateOf(HEAD)' /\ cache'.tip = HEAD'
        BY <2>1, <2>2, AbsorbedCache, FinishedCache DEF Synced
    <2>5. tops' = StateOf(HEAD)'
        <3>1. Entry(t).state = Join(StateOf(HEAD), Sketch[t]) /\ tops = StateOf(HEAD)
            BY <2>1, AbsorbedCache DEF Entry, Synced
        <3> QED
            BY <2>1, <2>2, <3>1 DEF Join
    <2>6. Memory!Absorb(t)
        BY <1>3, <1>h, <2>2 DEF Memory!Absorb, Turn, ReturnOk, ReturnErr, Join
    <2> QED
        BY <1>0, <2>1, <2>3, <2>4, <2>5, <2>6 DEF Synced, Memory!Next
<1>4. ASSUME NEW t \in Turns, SkipTurn(t)
      PROVE  IInv' /\ [Memory!Next]_<<Remembered, Answered>>
    <2>1. /\ up /\ ~NewBits(t)
          /\ UNCHANGED <<HEAD, head, tops>>
          /\ cache' = Finished(t, NoCommit, head)
        BY <1>4 DEF SkipTurn, Call, Commits
    <2>2. \A c \in Channels : Sketch[t][c] \subseteq StateOf(HEAD)[c]
        <3>1. Absorbed(t).working = Join(StateOf(HEAD), Sketch[t]) /\ tops = StateOf(HEAD)
            <4>1. cache.working = StateOf(HEAD) /\ tops = StateOf(HEAD)
                BY <2>1 DEF Synced
            <4> QED
                BY <4>1, AbsorbedCache
        <3>2. \A c \in Channels : Absorbed(t).working[c] \subseteq tops[c]
            BY <2>1 DEF NewBits
        <3> QED
            BY <3>1, <3>2 DEF Join
    <2>3. Absorbed(t).working = StateOf(HEAD)
        <3>1. Absorbed(t).working = Join(StateOf(HEAD), Sketch[t])
            <4>1. cache.working = StateOf(HEAD)
                BY <2>1 DEF Synced
            <4> QED
                BY <4>1, AbsorbedCache
        <3>2. StateOf(HEAD) \in States
            BY <2>1 DEF Synced, Typed
        <3> QED
            BY <2>2, <3>1, <3>2 DEF Join, States
    <2>4. cache'.working = StateOf(HEAD) /\ cache'.tip = HEAD
        BY <2>1, <2>3, FinishedCache DEF Synced
    <2>5. UNCHANGED StateOf(HEAD)
        BY <2>1 DEF StateOf
    <2>6. IInv'
        BY <1>0, <2>1, <2>4, <2>5 DEF Growing, Synced
    <2>7. Memory!Answer(t) \/ UNCHANGED <<Remembered, Answered>>
        BY <1>4, <1>h, <2>2, <2>5 DEF SkipTurn, ReturnOk, ReturnErr, Memory!Answer
    <2> QED
        BY <2>6, <2>7 DEF Memory!Next
<1>5. ASSUME Recover
      PROVE  IInv' /\ [Memory!Next]_<<Remembered, Answered>>
    BY <1>0, <1>h, <1>5, RestoredCache, TopsAreLast DEF Recover, Growing, Synced, StateOf
<1> QED
    BY <1>1, <1>2, <1>3, <1>4, <1>5 DEF Next, vars

\* ImplementsMemory, for any turns: every durable step absorbs one whole turn,
\* a turn is answered once it is absorbed, and no failure, crash or restart
\* takes anything back.  A host that retries leaves the memory at rest.
THEOREM TurnImplementsMemory == Spec => ImplementsMemory
<1>1. Init => Memory!Init
    BY DEF Init, Memory!Init, Remembered, Answered, StateOf, EmptyState
<1>2. Init => Leaves /\ Typed /\ Ahead
    BY InitSynced, InitAhead DEF Leaves
<1>3. Leaves /\ Typed /\ Ahead /\ [Next]_vars => (Leaves /\ Typed /\ Ahead)'
    BY NextImplements, NextAhead, HostStays DEF Leaves
<1>4. Leaves /\ Ahead /\ [Next]_vars => [Memory!Next]_<<Remembered, Answered>>
    <2> SUFFICES ASSUME Leaves, Ahead, [Next]_vars
                 PROVE  [Memory!Next]_<<Remembered, Answered>>
        OBVIOUS
    <2>1. CASE retries
        BY <2>1, HostStays DEF Remembered, Answered
    <2>2. CASE ~retries
        BY <2>2, NextImplements DEF Leaves
    <2> QED
        BY <2>1, <2>2
<1> QED
    BY <1>1, <1>2, <1>3, <1>4, PTL DEF Spec, ImplementsMemory, Memory!Spec

-----------------------------------------------------------------------------
(* The shared tables hold what the histories hold.                         *)

Merged(h) == \A i \in DOMAIN h : \A c \in Channels \ cut : h[i].turn \in lut[c]

\* The process's own idea of the history is covered too: what RefFails leaves
\* in head, and what a turn after it commits on top of.
LutCovers == SharedLut => Merged(HEAD) /\ Merged(head) /\ Merged(cache.tip)

\* A table that can be read after a step could be read before it, and nothing
\* has been taken out of it.
TablesGrow == \A c \in Channels \ cut' : c \notin cut /\ lut[c] \subseteq lut'[c]

\* A call that gets past step 1b has merged its turn into every table, and all
\* of them can be read.
LEMMA MergesAll ==
    ASSUME SharedLut, NEW t \in Turns, MergeLuts(t)
    PROVE  TablesGrow /\ \A c \in Channels : t \in lut'[c]
<1>1. Channels = 1..Cardinality(Channels) /\ Cardinality(Channels) \in Nat
    BY TurnAssumption, FS_CardinalityType
<1>2. /\ lut' = [c \in Channels |-> IF c < Cardinality(Channels) + 1
                                    THEN lut[c] \union {t} ELSE lut[c]]
      /\ cut = {} /\ cut' = cut
    BY DEF MergeLuts, MergedLuts
<1>3. \A c \in Channels : c < Cardinality(Channels) + 1
    BY <1>1
<1> QED
    BY <1>2, <1>3 DEF TablesGrow

\* A merge that breaks takes rows out of the table that it cuts, and of no other.
LEMMA BreaksOne ==
    ASSUME NEW t \in Turns, NEW c \in Channels, MergeBreaksAt(t, c)
    PROVE  TablesGrow
<1>1. \A d \in Channels : lut[d] \subseteq MergedLuts(t, c)[d]
    BY DEF MergedLuts
<1>2. CASE lut' = MergedLuts(t, c) /\ cut' = cut
    BY <1>1, <1>2 DEF TablesGrow
<1>3. CASE lut' = [MergedLuts(t, c) EXCEPT ![c] = {}] /\ cut' = cut \union {c}
    <2>1. \A d \in Channels \ {c} : lut'[d] = MergedLuts(t, c)[d]
        BY <1>3 DEF MergedLuts
    <2> QED
        BY <1>1, <1>3, <2>1 DEF TablesGrow
<1> QED
    BY <1>2, <1>3 DEF MergeBreaksAt

\* Turns that are in the tables that can be read stay there.
LEMMA MergedStays ==
    ASSUME NEW h, Merged(h), TablesGrow
    PROVE  \A i \in DOMAIN h : \A c \in Channels \ cut' : h[i].turn \in lut'[c]
BY DEF Merged, TablesGrow

\* A turn is merged into the LUTs before it is committed.
LEMMA NextLutCovers ==
    ASSUME Typed, LutCovers, [Next]_vars
    PROVE  LutCovers'
<1> SUFFICES ASSUME SharedLut
             PROVE  Merged(HEAD)' /\ Merged(head)' /\ Merged(cache.tip)'
    BY DEF LutCovers
<1>0. Merged(HEAD) /\ Merged(head) /\ Merged(cache.tip)
    BY DEF LutCovers
<1>1. CASE UNCHANGED vars
    BY <1>0, <1>1 DEF vars, Merged
<1>2. ASSUME NEW t \in Turns, LutFails(t)
      PROVE  Merged(HEAD)' /\ Merged(head)' /\ Merged(cache.tip)'
    <2>1. PICK c \in Channels : MergeBreaksAt(t, c)
        BY <1>2 DEF LutFails
    <2>2. TablesGrow
        BY <2>1, BreaksOne
    <2>3. cache'.tip = cache.tip
        BY <1>2 DEF LutFails, Typed, CacheFields
    <2> QED
        BY <1>0, <1>2, <2>2, <2>3, MergedStays DEF LutFails, Merged
<1>3. ASSUME NEW t \in Turns, MergeLuts(t)
      PROVE  /\ \A c \in Channels : t \in lut'[c]
             /\ \A i \in DOMAIN HEAD : \A c \in Channels \ cut' : HEAD[i].turn \in lut'[c]
             /\ \A i \in DOMAIN head : \A c \in Channels \ cut' : head[i].turn \in lut'[c]
             /\ \A i \in DOMAIN cache.tip : \A c \in Channels \ cut' : cache.tip[i].turn \in lut'[c]
    BY <1>0, <1>3, MergesAll, MergedStays
<1>4. ASSUME NEW t \in Turns, MergeLuts(t)
      PROVE  \A i \in DOMAIN NewCommit(t) : \A c \in Channels \ cut' : NewCommit(t)[i].turn \in lut'[c]
    <2>1. /\ NewCommit(t) = Append(cache.tip, Entry(t)) /\ cache.tip \in Seq(Entries)
          /\ Entry(t).turn = t
        BY DEF NewCommit, Typed, Entry
    <2>2. ASSUME NEW i \in DOMAIN NewCommit(t)
          PROVE  NewCommit(t)[i] = Entry(t) \/ (i \in DOMAIN cache.tip /\ NewCommit(t)[i] = cache.tip[i])
        BY <2>1, <2>2
    <2> QED
        BY <1>3, <1>4, <2>1, <2>2
<1>5. ASSUME NEW t \in Turns, PutFails(t)
      PROVE  Merged(HEAD)' /\ Merged(head)' /\ Merged(cache.tip)'
    BY <1>3, <1>5, AbsorbedCache DEF PutFails, Merged
<1>6. ASSUME NEW t \in Turns, RefFails(t)
      PROVE  Merged(HEAD)' /\ Merged(head)' /\ Merged(cache.tip)'
    BY <1>3, <1>4, <1>6, AbsorbedCache DEF RefFails, Committed, Merged
<1>7. ASSUME NEW t \in Turns, Turn(t)
      PROVE  Merged(HEAD)' /\ Merged(head)' /\ Merged(cache.tip)'
    BY <1>4, <1>7, FinishedCache DEF Turn, Committed, Merged
<1>8. ASSUME NEW t \in Turns, SkipTurn(t)
      PROVE  Merged(HEAD)' /\ Merged(head)' /\ Merged(cache.tip)'
    BY <1>3, <1>8, FinishedCache DEF SkipTurn, Merged
<1>9. ASSUME Recover
      PROVE  Merged(HEAD)' /\ Merged(head)' /\ Merged(cache.tip)'
    BY <1>0, <1>9, RestoredCache DEF Recover, Merged
<1> QED
    BY <1>1, <1>2, <1>5, <1>6, <1>7, <1>8, <1>9 DEF Next

\* LutCoversHistory, for any turns, any number of channels, any failures, cut
\* tables included, and either kind of host: a shared table that can be read is
\* never behind the history.
THEOREM TurnLutCoversHistory == Spec => []LutCoversHistory
<1>1. Init => LutCovers
    BY RestoredCache DEF Init, LutCovers, Merged, NoCommit
<1>2. LutCovers => LutCoversHistory
    BY DEF LutCovers, Merged, LutCoversHistory
<1>3. Typed /\ Ahead /\ LutCovers /\ [Next]_vars => (Typed /\ Ahead /\ LutCovers)'
    BY NextAhead, NextLutCovers
<1> QED
    BY InitAhead, <1>1, <1>2, <1>3, PTL DEF Spec

-----------------------------------------------------------------------------
(* Along a history states and TF only grow.                                *)

Monotone(h) ==
    \A j \in DOMAIN h :
        LET before == SubSeq(h, 1, j - 1) IN
        /\ Covers(h[j].state, Join(StateOf(before), Sketch[h[j].turn]))
        /\ Dominates(h[j].tf, Plus(TfOf(before), Touches(h[j].turn)))

\* What the next commit takes over covers what h ends with.  That holds of the
\* cache's tip and of the repository's head, which a retrying host lets drift
\* apart: the next commit has the one as its parent, a skipped turn makes the
\* other the tip.
Under(h) == Covers(cache.working, StateOf(h)) /\ Dominates(CurrentTf, TfOf(h))

Mono ==
    /\ Monotone(HEAD) /\ Monotone(head) /\ Monotone(cache.tip)
    /\ Under(head) /\ Under(cache.tip)

\* A history stays monotone under an entry that covers its predecessor and the
\* turn.
LEMMA MonotoneAppend ==
    ASSUME NEW s \in Seq(Entries), NEW e \in Entries, Monotone(s),
           Covers(e.state, Join(StateOf(s), Sketch[e.turn])),
           Dominates(e.tf, Plus(TfOf(s), Touches(e.turn)))
    PROVE  Monotone(Append(s, e))
<1> DEFINE n == Append(s, e)
<1>1. ASSUME NEW j \in DOMAIN n
      PROVE  /\ Covers(n[j].state, Join(StateOf(SubSeq(n, 1, j - 1)), Sketch[n[j].turn]))
             /\ Dominates(n[j].tf, Plus(TfOf(SubSeq(n, 1, j - 1)), Touches(n[j].turn)))
    <2>1. SubSeq(n, 1, j - 1) = SubSeq(s, 1, j - 1)
        BY SMTT(30)
    <2>2. CASE j \in DOMAIN s
        <3>1. n[j] = s[j]
            BY <2>2
        <3> QED
            BY <2>1, <2>2, <3>1 DEF Monotone
    <2>3. CASE j = Len(s) + 1
        <3>1. n[j] = e
            BY <2>3
        <3>2. SubSeq(s, 1, j - 1) = s
            BY <2>3
        <3> QED
            BY <2>1, <3>1, <3>2
    <2>4. j \in DOMAIN s \/ j = Len(s) + 1
        OBVIOUS
    <2> QED
        BY <2>2, <2>3, <2>4
<1> QED
    BY <1>1 DEF Monotone

\* The orders on states and on counts.
LEMMA CoversJoin ==
    ASSUME NEW s \in States, NEW u \in States, NEW t \in Turns, Covers(s, u)
    PROVE  /\ Covers(Join(s, Sketch[t]), Join(u, Sketch[t]))
           /\ Covers(Join(s, Sketch[t]), u)
           /\ Covers(Join(s, Sketch[t]), Join(s, Sketch[t]))
BY DEF Covers, Join

\* Adding counts keeps domination.
LEMMA DominatesPlus ==
    ASSUME NEW f \in Counts, NEW g \in Counts, NEW k \in Counts, Dominates(f, g)
    PROVE  /\ Dominates(Plus(f, k), Plus(g, k))
           /\ Dominates(Plus(f, k), g)
           /\ Dominates(Plus(f, k), Plus(f, k))
<1>1. ASSUME NEW b \in Bits
      PROVE  g[b] + k[b] <= f[b] + k[b] /\ g[b] <= f[b] + k[b] /\ f[b] + k[b] <= f[b] + k[b]
    <2>1. f[b] \in Nat /\ g[b] \in Nat /\ k[b] \in Nat /\ g[b] <= f[b]
        BY DEF Counts, Dominates
    <2> QED
        BY <2>1
<1> QED
    BY <1>1 DEF Dominates, Plus

\* Adding counts is associative.
LEMMA PlusShift ==
    ASSUME NEW f \in Counts, NEW g \in Counts, NEW k \in Counts
    PROVE  Plus(f, Plus(g, k)) = Plus(Plus(f, g), k)
<1>1. ASSUME NEW b \in Bits
      PROVE  f[b] + (g[b] + k[b]) = (f[b] + g[b]) + k[b]
    BY DEF Counts
<1> QED
    BY <1>1 DEF Plus

\* A turn only adds to what the cache holds.
LEMMA AbsorbedUnder ==
    ASSUME Typed, NEW t \in Turns, NEW h \in Seq(Entries), Under(h)
    PROVE  /\ Covers(Absorbed(t).working, StateOf(h))
           /\ Covers(Absorbed(t).working, Join(StateOf(h), Sketch[t]))
           /\ Plus(cache.tfBase, Absorbed(t).touched) = Plus(CurrentTf, Touches(t))
           /\ Dominates(Plus(CurrentTf, Touches(t)), TfOf(h))
           /\ Dominates(Plus(CurrentTf, Touches(t)), Plus(TfOf(h), Touches(t)))
<1>1. /\ StateOf(h) \in States /\ TfOf(h) \in Counts
      /\ CurrentTf \in Counts /\ Touches(t) \in Counts
    BY CommitHolds, PlusType, TouchesType DEF CurrentTf, Typed
<1>2. Plus(cache.tfBase, Absorbed(t).touched) = Plus(CurrentTf, Touches(t))
    <2>1. Absorbed(t).touched = Plus(cache.touched, Touches(t))
        BY DEF Absorbed, Typed, CacheFields
    <2> QED
        BY <1>1, <2>1, PlusShift DEF CurrentTf, Typed
<1> QED
    BY <1>1, <1>2, CoversJoin, DominatesPlus, AbsorbedCache DEF Under, Typed

\* So the commit that a turn makes is a monotone history again, and the cache
\* covers it.
LEMMA NewCommitMonotone ==
    ASSUME Typed, Mono, NEW t \in Turns
    PROVE  /\ Monotone(NewCommit(t))
           /\ Covers(Absorbed(t).working, StateOf(NewCommit(t)))
           /\ Dominates(Plus(CurrentTf, Touches(t)), TfOf(NewCommit(t)))
<1>1. /\ cache.tip \in Seq(Entries) /\ Entry(t).turn = t
      /\ Entry(t).state = Absorbed(t).working
      /\ Entry(t).tf = Plus(CurrentTf, Touches(t))
    BY DEF Entry, Typed
<1>2. Entry(t) \in Entries
    BY <1>1, AbsorbedCache, PlusType, TouchesType DEF Entry, Entries, CurrentTf, Typed
<1>3. Monotone(NewCommit(t))
    BY <1>1, <1>2, MonotoneAppend, AbsorbedUnder DEF NewCommit, Mono
<1>4. StateOf(NewCommit(t)) = Entry(t).state /\ TfOf(NewCommit(t)) = Entry(t).tf
    BY <1>1, <1>2 DEF NewCommit, StateOf, TfOf, Last, NoCommit
<1>5. Covers(Absorbed(t).working, Absorbed(t).working)
    BY DEF Covers
<1>6. Plus(CurrentTf, Touches(t)) \in Counts
    BY PlusType, TouchesType DEF CurrentTf, Typed
<1>7. Dominates(Plus(CurrentTf, Touches(t)), Plus(CurrentTf, Touches(t)))
    BY <1>6 DEF Dominates, Counts
<1> QED
    BY <1>1, <1>3, <1>4, <1>5, <1>7

\* Monotony at the start.
LEMMA InitMono == Init => Mono
<1> SUFFICES ASSUME Init PROVE Mono
    OBVIOUS
<1>1. HEAD = NoCommit /\ head = NoCommit /\ cache = Restored(NoCommit)
    BY DEF Init
<1>2. Monotone(NoCommit)
    BY DEF Monotone, NoCommit
<1>3. cache.working = EmptyState /\ CurrentTf = Plus(NoTouches, NoTouches)
    BY <1>1, RestoredCache DEF CurrentTf, StateOf, TfOf
<1>4. Under(NoCommit)
    BY <1>3 DEF Under, Covers, Dominates, StateOf, TfOf, EmptyState, NoTouches, Plus
<1> QED
    BY <1>1, <1>2, <1>4, RestoredCache DEF Mono

\* Monotony at every step.
LEMMA NextMono ==
    ASSUME Typed, Mono, [Next]_vars
    PROVE  Mono'
<1>1. CASE UNCHANGED vars
    BY <1>1 DEF vars, Mono, Monotone, Under, CurrentTf
<1>2. ASSUME NEW t \in Turns, LutFails(t)
      PROVE  Mono'
    <2>1. /\ cache'.tip = cache.tip /\ cache'.working = cache.working
          /\ cache'.tfBase = cache.tfBase
          /\ cache'.touched = Plus(cache.touched, Touches(t))
        BY <1>2 DEF LutFails, Typed, CacheFields
    <2>2. CurrentTf' = Plus(CurrentTf, Touches(t))
        BY <2>1, PlusShift, TouchesType DEF CurrentTf, Typed
    <2>3. /\ Dominates(CurrentTf', TfOf(head)) /\ Dominates(CurrentTf', TfOf(cache.tip))
        BY <2>2, AbsorbedUnder DEF Mono, Typed
    <2> QED
        BY <1>2, <2>1, <2>3 DEF LutFails, Mono, Under
<1>3. ASSUME NEW t \in Turns, cache' = Absorbed(t) \/ (\E c, p : cache' = Finished(t, c, p))
      PROVE  /\ cache'.working = Absorbed(t).working
             /\ CurrentTf' = Plus(CurrentTf, Touches(t))
    <2>1. /\ cache'.working = Absorbed(t).working /\ cache'.tfBase = cache.tfBase
          /\ cache'.touched = Absorbed(t).touched
        BY <1>3, AbsorbedCache, FinishedCache
    <2> QED
        BY <2>1, AbsorbedUnder DEF CurrentTf, Mono, Typed
<1>4. ASSUME NEW t \in Turns, PutFails(t)
      PROVE  Mono'
    BY <1>3, <1>4, AbsorbedCache, AbsorbedUnder DEF PutFails, Mono, Under, Typed
<1>5. ASSUME NEW t \in Turns, RefFails(t)
      PROVE  Mono'
    BY <1>3, <1>5, AbsorbedCache, AbsorbedUnder, NewCommitMonotone
    DEF RefFails, Committed, Mono, Under, Typed
<1>6. ASSUME NEW t \in Turns, Turn(t)
      PROVE  Mono'
    BY <1>3, <1>6, FinishedCache, NewCommitMonotone DEF Turn, Committed, Mono, Under
<1>7. ASSUME NEW t \in Turns, SkipTurn(t)
      PROVE  Mono'
    BY <1>3, <1>7, FinishedCache, AbsorbedUnder DEF SkipTurn, Mono, Under, Typed
<1>8. ASSUME Recover
      PROVE  Mono'
    <2>1. CurrentTf' = Plus(TfOf(HEAD), NoTouches) /\ cache'.working = StateOf(HEAD)
        BY <1>8, RestoredCache DEF Recover, CurrentTf
    <2>2. TfOf(HEAD) \in Counts /\ NoTouches \in Counts
        BY CommitHolds DEF Typed, NoTouches, Counts
    <2>3. Dominates(Plus(TfOf(HEAD), NoTouches), TfOf(HEAD))
        BY <2>2 DEF Dominates, Plus, Counts
    <2>4. Under(HEAD)'
        BY <1>8, <2>1, <2>3 DEF Recover, Under, Covers
    <2> QED
        BY <1>8, <2>4, RestoredCache DEF Recover, Mono
<1> QED
    BY <1>1, <1>2, <1>4, <1>5, <1>6, <1>7, <1>8 DEF Next

\* HistoryMonotone, for any turns, any failures and either kind of host: every
\* commit's state covers its parent's and its own turn, and its TF counts the
\* parent's touches and its own, also on a history that a retrying host bent.
THEOREM TurnHistoryMonotone == Spec => []HistoryMonotone
<1>1. Mono => HistoryMonotone
    BY DEF Mono, Monotone, HistoryMonotone
<1>2. Typed /\ Ahead /\ Mono /\ [Next]_vars => (Typed /\ Ahead /\ Mono)'
    BY NextAhead, NextMono
<1> QED
    BY InitAhead, InitMono, <1>1, <1>2, PTL DEF Spec

-----------------------------------------------------------------------------
(* The ring of the cache, by the algebra of Gf2RingProofs.                 *)

RingFacts == INSTANCE Gf2RingProofs WITH MaxLen <- Capacity

\* The two instances of Gf2Ring define the same operators.
LEMMA SameElimination ==
    /\ \A s : RingFacts!LowestBit(s) = Ring!LowestBit(s)
    /\ \A s, u : RingFacts!SymmetricDifference(s, u) = Ring!SymmetricDifference(s, u)
    /\ \A rows : RingFacts!Reduction(rows) = Ring!Reduction(rows)
<1>1. ASSUME NEW s PROVE RingFacts!LowestBit(s) = Ring!LowestBit(s)
    BY DEF RingFacts!LowestBit, Ring!LowestBit, RingFacts!Min, Ring!Min
<1>2. ASSUME NEW s, NEW u
      PROVE  RingFacts!SymmetricDifference(s, u) = Ring!SymmetricDifference(s, u)
    BY DEF RingFacts!SymmetricDifference, Ring!SymmetricDifference
<1>3. ASSUME NEW rows PROVE RingFacts!Reduction(rows) = Ring!Reduction(rows)
    BY DEF RingFacts!Reduction, Ring!Reduction, RingFacts!RowsAt, Ring!RowsAt,
           RingFacts!LowestBit, Ring!LowestBit, RingFacts!Min, Ring!Min,
           RingFacts!SymmetricDifference, Ring!SymmetricDifference
<1> QED
    BY <1>1, <1>2, <1>3

\* The ring of the machine and the ring of the lemmas reduce alike.
LEMMA SameResidual ==
    /\ \A rows, x : RingFacts!Residual(rows, x) = Ring!Residual(rows, x)
    /\ \A rows, x : RingFacts!InSpan(rows, x) = Ring!InSpan(rows, x)
BY SameElimination
DEF RingFacts!Residual, Ring!Residual, RingFacts!InSpan, Ring!InSpan

\* And insert alike.
LEMMA SameInsert ==
    ASSUME NEW rows, NEW x
    PROVE  RingFacts!Insert(rows, x) = Ring!Insert(rows, x)
<1>1. ASSUME NEW r
      PROVE  RingFacts!Rotated(rows, r) = Ring!Rotated(rows, r)
    BY SameElimination DEF RingFacts!Rotated, Ring!Rotated
<1>2. ASSUME NEW r
      PROVE  RingFacts!Cleared(rows, r) = Ring!Cleared(rows, r)
    BY <1>1, SameElimination DEF RingFacts!Cleared, Ring!Cleared
<1> QED
    BY <1>2, SameElimination, SameResidual DEF RingFacts!Insert, Ring!Insert

WindowFields == {"rows", "originals", "generation", "total", "evict"}

\* A monotone window.
Window(w) ==
    /\ DOMAIN w = WindowFields /\ w.evict = FALSE
    /\ w.rows \in Seq(RingFacts!Row) /\ RingFacts!Echelon(w.rows)
    /\ w.generation \in Nat /\ w.total \in Nat

\* The empty window is a window.
LEMMA EmptyIsWindow == Window(Ring!EmptyWindow(FALSE))
BY DEF Window, WindowFields, Ring!EmptyWindow, RingFacts!Echelon

\* What a push does to a monotone window, and to what its ring spans.
LEMMA PushedWindow ==
    ASSUME NEW w, Window(w), NEW x \in SUBSET Bits
    PROVE  /\ Window(Ring!Pushed(w, x))
           /\ Ring!Pushed(w, x).rows = Ring!Insert(w.rows, x)
           /\ Ring!Pushed(w, x).generation
                = IF Ring!InSpan(w.rows, x) THEN w.generation ELSE w.generation + 1
           /\ Ring!InSpan(w.rows, x) => Ring!Pushed(w, x).rows = w.rows
           /\ Ring!InSpan(Ring!Pushed(w, x).rows, x)
           /\ \A y \in SUBSET Bits :
                 Ring!InSpan(w.rows, y) => Ring!InSpan(Ring!Pushed(w, x).rows, y)
<1> DEFINE p == Ring!Pushed(w, x)
<1>1. ~Ring!Rebuilds(w)
    BY DEF Window, Ring!Rebuilds
<1>2. Ring!NextRows(w, x) = Ring!Insert(w.rows, x)
    BY <1>1 DEF Ring!NextRows
<1>3. Ring!Bumps(w, x) = IF Ring!InSpan(w.rows, x) THEN 0 ELSE 1
    BY <1>1 DEF Ring!Bumps
<1>4. /\ DOMAIN p = WindowFields /\ p.evict = FALSE
      /\ p.rows = Ring!Insert(w.rows, x)
      /\ p.generation = w.generation + Ring!Bumps(w, x) /\ p.total = w.total + 1
    BY <1>2 DEF Window, WindowFields, Ring!Pushed
<1> HIDE DEF p
<1>5. RingFacts!Positions
    BY TurnAssumption DEF RingFacts!Positions, RingFacts!IsFiniteSet, IsFiniteSet
<1>6. /\ RingFacts!Insert(w.rows, x) \in Seq(RingFacts!Row)
      /\ RingFacts!Echelon(RingFacts!Insert(w.rows, x))
      /\ RingFacts!InSpan(w.rows, x) => RingFacts!Insert(w.rows, x) = w.rows
      /\ RingFacts!InSpan(RingFacts!Insert(w.rows, x), x)
      /\ \A y \in SUBSET Bits :
            RingFacts!InSpan(w.rows, y) => RingFacts!InSpan(RingFacts!Insert(w.rows, x), y)
    BY <1>5, RingFacts!InsertEchelon, RingFacts!InsertKeeps DEF Window
<1>7. /\ Ring!Insert(w.rows, x) \in Seq(RingFacts!Row)
      /\ RingFacts!Echelon(Ring!Insert(w.rows, x))
      /\ Ring!InSpan(w.rows, x) => Ring!Insert(w.rows, x) = w.rows
      /\ Ring!InSpan(Ring!Insert(w.rows, x), x)
      /\ \A y \in SUBSET Bits :
            Ring!InSpan(w.rows, y) => Ring!InSpan(Ring!Insert(w.rows, x), y)
    BY <1>6, SameInsert, SameResidual
<1>8. p.generation = IF Ring!InSpan(w.rows, x) THEN w.generation ELSE w.generation + 1
    BY <1>3, <1>4 DEF Window
<1>9. Window(p)
    <2>1. p.generation \in Nat /\ p.total \in Nat
        BY <1>4, <1>8 DEF Window
    <2> QED BY <1>4, <1>7, <2>1 DEF Window
<1> QED
    BY <1>4, <1>7, <1>8, <1>9 DEF p

-----------------------------------------------------------------------------
(* Replaying a history: a fold over its indices, one step per commit.      *)

Blank == [ring |-> Ring!EmptyWindow(FALSE), births |-> <<>>]
Indices(commit) == [i \in DOMAIN commit |-> i]

ReplayStep(commit, g, S) ==
    IF S = {} THEN Blank
    ELSE LET m == Max(S) IN PushRecorded(g[S \ {m}], Indices(commit)[m], commit)

ReplayOn(commit, g, D) == g = [S \in SUBSET D |-> ReplayStep(commit, g, S)]

\* Replaying a history, as the choice of a function over its prefixes.
LEMMA ReplayedChosen ==
    ASSUME NEW commit
    PROVE  Replayed(commit) =
             (CHOOSE g : ReplayOn(commit, g, DOMAIN Indices(commit)))[DOMAIN Indices(commit)]
BY DEF Replayed, FoldLeft, MapThenFoldSet, ReplayStep, ReplayOn, Blank, Indices

\* The highest index of a set within 1..n + 1.
LEMMA HighestIndex ==
    ASSUME NEW n \in Nat, NEW S \in SUBSET (1..(n + 1)), n + 1 \in S
    PROVE  Max(S) = n + 1
<1>1. n + 1 \in S /\ \A i \in S : i \in Nat /\ n + 1 >= i
    OBVIOUS
<1>2. \A i \in S : (\A k \in S : i >= k) => i = n + 1
    BY <1>1
<1> QED
    BY <1>1, <1>2 DEF Max

\* The fold's function exists on every initial segment.
LEMMA ReplayExists ==
    ASSUME NEW commit, NEW n \in Nat
    PROVE  \E g : ReplayOn(commit, g, 1..n)
<1> DEFINE T == {k \in Nat : ~ \E g : ReplayOn(commit, g, 1..k)}
<1>1. \E g : ReplayOn(commit, g, 1..0)
    <2> DEFINE z == [S \in SUBSET (1..0) |-> Blank]
    <2>1. \A S \in SUBSET (1..0) : S = {}
        OBVIOUS
    <2>2. z = [S \in SUBSET (1..0) |-> ReplayStep(commit, z, S)]
        BY <2>1 DEF ReplayStep
    <2> QED BY <2>2 DEF ReplayOn
<1>2. ASSUME NEW k \in Nat, NEW g, ReplayOn(commit, g, 1..k)
      PROVE  \E h : ReplayOn(commit, h, 1..(k + 1))
    <2> DEFINE h == [S \in SUBSET (1..(k + 1)) |->
                        IF S \in SUBSET (1..k) THEN g[S] ELSE ReplayStep(commit, g, S)]
    <2>1. ASSUME NEW S \in SUBSET (1..(k + 1))
          PROVE  h[S] = ReplayStep(commit, h, S)
        <3>1. CASE S = {}
            <4>1. h[S] = g[S] /\ g[S] = ReplayStep(commit, g, S)
                BY <1>2, <3>1 DEF ReplayOn
            <4> QED BY <3>1, <4>1 DEF ReplayStep
        <3>2. CASE S # {} /\ S \in SUBSET (1..k)
            <4>1. h[S] = g[S] /\ g[S] = ReplayStep(commit, g, S)
                BY <1>2, <3>2 DEF ReplayOn
            <4>2. S \ {Max(S)} \in SUBSET (1..k)
                BY <3>2
            <4>3. h[S \ {Max(S)}] = g[S \ {Max(S)}]
                BY <4>2
            <4> HIDE DEF h
            <4> QED BY <3>2, <4>1, <4>3 DEF ReplayStep
        <3>3. CASE S # {} /\ S \notin SUBSET (1..k)
            <4>1. k + 1 \in S
                BY <3>3
            <4>2. Max(S) = k + 1
                BY <4>1, HighestIndex
            <4>3. S \ {Max(S)} \in SUBSET (1..k)
                BY <4>2
            <4>4. h[S \ {Max(S)}] = g[S \ {Max(S)}] /\ h[S] = ReplayStep(commit, g, S)
                BY <3>3, <4>3
            <4> HIDE DEF h
            <4> QED BY <3>3, <4>4 DEF ReplayStep
        <3> QED BY <3>1, <3>2, <3>3
    <2>2. h = [S \in SUBSET (1..(k + 1)) |-> ReplayStep(commit, h, S)]
        <3>1. h = [S \in SUBSET (1..(k + 1)) |-> h[S]]
            OBVIOUS
        <3> HIDE DEF h
        <3> QED BY <2>1, <3>1
    <2> QED BY <2>2 DEF ReplayOn
<1>3. T = {}
    <2> SUFFICES ASSUME T # {} PROVE FALSE
        OBVIOUS
    <2>1. PICK k \in T : \A i \in T : k <= i
        <3> HIDE DEF T
        <3>1. T \subseteq Nat
            BY DEF T
        <3> QED BY <3>1, RingFacts!LeastNatural
    <2>2. k \in Nat /\ k # 0
        BY <1>1
    <2>3. k - 1 \in Nat /\ k - 1 \notin T
        <3> HIDE DEF T
        <3> QED BY <2>1, <2>2
    <2>4. \E h : ReplayOn(commit, h, 1..((k - 1) + 1))
        BY <1>2, <2>3
    <2>5. (k - 1) + 1 = k
        BY <2>2
    <2> QED BY <2>4, <2>5
<1> QED
    BY <1>3

Replay(commit, k) == (CHOOSE g : ReplayOn(commit, g, 1..Len(commit)))[1..k]

\* The state of the replay after the first k commits.
LEMMA ReplaySteps ==
    ASSUME NEW commit \in Seq(Entries)
    PROVE  /\ Replayed(commit) = Replay(commit, Len(commit))
           /\ Replay(commit, 0) = Blank
           /\ \A k \in 1..Len(commit) :
                 Replay(commit, k) = PushRecorded(Replay(commit, k - 1), k, commit)
<1> DEFINE g == CHOOSE f : ReplayOn(commit, f, 1..Len(commit))
<1>1. DOMAIN Indices(commit) = 1..Len(commit)
    BY DEF Indices
<1>2. g = [S \in SUBSET (1..Len(commit)) |-> ReplayStep(commit, g, S)]
    <2>1. \E f : ReplayOn(commit, f, 1..Len(commit))
        <3>1. Len(commit) \in Nat
            OBVIOUS
        <3> QED BY <3>1, ReplayExists
    <2>2. ReplayOn(commit, g, 1..Len(commit))
        BY <2>1
    <2> HIDE DEF g
    <2> QED BY <2>2 DEF ReplayOn
<1>3. \A k : Replay(commit, k) = g[1..k]
    BY DEF Replay
<1>4. Replayed(commit) = g[1..Len(commit)]
    BY <1>1, ReplayedChosen
<1> HIDE DEF g
<1>5. g[1..0] = Blank
    <2>1. 1..0 = {} /\ 1..0 \in SUBSET (1..Len(commit))
        OBVIOUS
    <2>2. g[1..0] = ReplayStep(commit, g, 1..0)
        BY <1>2, <2>1
    <2> QED BY <2>1, <2>2 DEF ReplayStep
<1>6. ASSUME NEW k \in 1..Len(commit)
      PROVE  g[1..k] = PushRecorded(g[1..(k - 1)], k, commit)
    <2>1. 1..k \in SUBSET (1..Len(commit)) /\ 1..k # {} /\ k \in 1..k
        OBVIOUS
    <2>2. g[1..k] = ReplayStep(commit, g, 1..k)
        BY <1>2, <2>1
    <2>3. Max(1..k) = k
        <3>1. k - 1 \in Nat /\ (k - 1) + 1 = k
            OBVIOUS
        <3> QED BY <2>1, <3>1, HighestIndex
    <2>4. (1..k) \ {k} = 1..(k - 1)
        OBVIOUS
    <2>5. Indices(commit)[k] = k
        BY <1>1 DEF Indices
    <2> QED BY <2>1, <2>2, <2>3, <2>4, <2>5 DEF ReplayStep
<1> QED
    BY <1>3, <1>4, <1>5, <1>6

\* restore of a history with one commit more: one push more.
LEMMA ReplayedAppend ==
    ASSUME NEW s \in Seq(Entries), NEW e \in Entries
    PROVE  Replayed(Append(s, e)) = PushRecorded(Replayed(s), Len(s) + 1, Append(s, e))
<1> DEFINE n == Append(s, e)
           T == {k \in 0..Len(s) : Replay(n, k) # Replay(s, k)}
<1>1. n \in Seq(Entries) /\ Len(n) = Len(s) + 1 /\ Len(s) \in Nat
    OBVIOUS
<1>2. ASSUME NEW k \in 1..Len(s), NEW r
      PROVE  PushRecorded(r, k, n) = PushRecorded(r, k, s)
    <2>1. n[k] = s[k] /\ SubSeq(n, 1, k) = SubSeq(s, 1, k)
        OBVIOUS
    <2> HIDE DEF n
    <2> QED BY <2>1 DEF PushRecorded
<1> HIDE DEF n
<1>3. T = {}
    <2> SUFFICES ASSUME T # {} PROVE FALSE
        OBVIOUS
    <2>1. PICK k \in T : \A i \in T : k <= i
        <3> HIDE DEF T
        <3>1. T \subseteq Nat
            BY <1>1 DEF T
        <3> QED BY <3>1, RingFacts!LeastNatural
    <2>2. k # 0
        BY <1>1, ReplaySteps
    <2>3. k \in 1..Len(s) /\ k \in 1..Len(n) /\ k - 1 \in 0..Len(s)
        BY <1>1, <2>2
    <2>4. Replay(n, k - 1) = Replay(s, k - 1)
        BY <2>1, <2>3
    <2>5. Replay(n, k) = Replay(s, k)
        BY <1>1, <1>2, <2>3, <2>4, ReplaySteps
    <2> QED BY <2>5
<1>4. Replay(n, Len(s)) = Replayed(s)
    <2>1. Len(s) \in 0..Len(s)
        BY <1>1
    <2>2. Replay(n, Len(s)) = Replay(s, Len(s))
        BY <1>3, <2>1
    <2> QED BY <2>2, ReplaySteps
<1>5. Replayed(n) = PushRecorded(Replay(n, Len(s)), Len(s) + 1, n)
    <2>1. Len(n) \in 1..Len(n) /\ Len(n) - 1 = Len(s)
        BY <1>1
    <2>2. Replayed(n) = Replay(n, Len(n))
        BY <1>1, ReplaySteps
    <2>3. Replay(n, Len(n)) = PushRecorded(Replay(n, Len(n) - 1), Len(n), n)
        BY <1>1, <2>1, ReplaySteps
    <2> QED BY <1>1, <2>1, <2>2, <2>3
<1> QED
    BY <1>4, <1>5 DEF n

\* Replaying no commit gives the blank cache.
LEMMA ReplayedNothing == Replayed(NoCommit) = Blank
<1>1. NoCommit \in Seq(Entries) /\ Len(NoCommit) = 0
    BY DEF NoCommit
<1> QED
    BY <1>1, ReplaySteps

-----------------------------------------------------------------------------
(* What a replay gives.                                                    *)

Birth ==
    [commit : Seq(Entries), original : SUBSET Bits, vec : SUBSET Bits, pivot : Nat,
     generation : Nat, push_index : Nat]

\* The ring has absorbed the first channel of every turn of h.
Absorbs(w, h) == \A i \in DOMAIN h : Ring!InSpan(w.rows, G1(h[i].turn))

\* birth names a commit of h, the first whose turn brought its original in.
Linked(birth, h) ==
    /\ birth.commit # NoCommit /\ IsPrefix(birth.commit, h)
    /\ birth.original = G1(Last(birth.commit).turn)
    /\ \A k \in 1..Len(birth.commit) - 1 : G1(birth.commit[k].turn) # birth.original

AllLinked(births, h) == births \in Seq(Birth) /\ \A g \in DOMAIN births : Linked(births[g], h)

\* The first channel of a turn is an HLLSet.
LEMMA G1Type ==
    ASSUME NEW t \in Turns
    PROVE  G1(t) \in SUBSET Bits
BY TurnAssumption DEF G1

\* The record of a birth is one.
LEMMA BirthType ==
    ASSUME NEW w, Window(w), NEW x \in SUBSET Bits, ~Ring!InSpan(w.rows, x),
           NEW c \in Seq(Entries)
    PROVE  BirthRecord(Ring!BirthOf(w, x), c, x) \in Birth
<1>1. RingFacts!Positions
    BY TurnAssumption DEF RingFacts!Positions, RingFacts!IsFiniteSet, IsFiniteSet
<1>2. RingFacts!Residual(w.rows, x) \in SUBSET Bits
    BY <1>1, RingFacts!ResidualCases DEF Window
<1>3. Ring!Residual(w.rows, x) \in SUBSET Bits /\ Ring!Residual(w.rows, x) # {}
    BY <1>2, SameResidual DEF Ring!InSpan
<1>4. RingFacts!LowestBit(Ring!Residual(w.rows, x)) \in Bits
    BY <1>1, <1>3, RingFacts!LowestIsLeast
<1>5. Ring!LowestBit(Ring!Residual(w.rows, x)) \in Nat
    BY <1>4, SameElimination, TurnAssumption
<1>6. /\ Ring!BirthOf(w, x).vec = Ring!Residual(w.rows, x)
      /\ Ring!BirthOf(w, x).pivot = Ring!LowestBit(Ring!Residual(w.rows, x))
      /\ Ring!BirthOf(w, x).generation = w.generation
      /\ Ring!BirthOf(w, x).push_index = w.total
    BY DEF Ring!BirthOf
<1> QED
    BY <1>3, <1>5, <1>6 DEF BirthRecord, Birth, Window

\* The commit that brings a direction in is the first with that turn's G1:
\* the G1 of all before it are in the span, the new one is not.
LEMMA RecordedLinked ==
    ASSUME NEW w, Window(w), NEW s \in Seq(Entries), NEW e \in Entries, Absorbs(w, s),
           NEW births, NEW h \in Seq(Entries), AllLinked(births, h),
           IsPrefix(h, Append(s, e))
    PROVE  AllLinked(Recorded(births, w, G1(e.turn), Append(s, e)), Append(s, e))
<1> DEFINE n == Append(s, e)
           x == G1(e.turn)
<1>1. /\ n \in Seq(Entries) /\ Len(n) = Len(s) + 1 /\ n # NoCommit /\ Last(n) = e
      /\ \A k \in 1..Len(s) : n[k] = s[k]
    BY DEF NoCommit, Last
<1>2. x \in SUBSET Bits
    BY G1Type DEF Entries
<1>3. ASSUME NEW b \in Birth, Linked(b, h)
      PROVE  Linked(b, n)
    <2>1. IsPrefix(b.commit, h) /\ b.commit \in Seq(Entries)
        BY <1>3 DEF Linked, Birth
    <2>2. IsPrefix(b.commit, n)
        <3> DEFINE c == b.commit
        <3>1. c \in Seq(Entries)
            BY <2>1
        <3>2. IsPrefix(c, h) /\ IsPrefix(h, n)
            BY <2>1
        <3> HIDE DEF c, n
        <3>3. Len(c) <= Len(h) /\ Len(h) <= Len(n) /\ c = SubSeq(h, 1, Len(c)) /\ h = SubSeq(n, 1, Len(h))
            BY <1>1, <3>1, <3>2 DEF IsPrefix
        <3>4. Len(c) <= Len(n) /\ c = SubSeq(n, 1, Len(c))
            BY <1>1, <3>1, <3>3
        <3>5. IsPrefix(c, n)
            BY <1>1, <3>1, <3>4 DEF IsPrefix
        <3> QED BY <3>5 DEF c
    <2> QED
        BY <1>3, <2>2 DEF Linked
<1>4. births \in Seq(Birth) /\ \A g \in DOMAIN births : births[g] \in Birth /\ Linked(births[g], n)
    BY <1>3 DEF AllLinked
<1>5. CASE ~Ring!IsBirth(w, x)
    BY <1>4, <1>5 DEF Recorded, AllLinked
<1>6. CASE Ring!IsBirth(w, x)
    <2> DEFINE b == BirthRecord(Ring!BirthOf(w, x), n, x)
    <2>1. ~Ring!InSpan(w.rows, x)
        BY <1>6 DEF Ring!IsBirth
    <2>2. b \in Birth
        BY <1>1, <1>2, <2>1, BirthType
    <2>3. Recorded(births, w, x, n) = Append(births, b)
        BY <1>6 DEF Recorded
    <2>4. Linked(b, n)
        <3>1. b.commit = n /\ b.original = x
            BY DEF BirthRecord
        <3>2. IsPrefix(n, n)
            BY <1>1, PrefixOfItself
        <3>3. \A k \in 1..Len(n) - 1 : G1(n[k].turn) # x
            BY <1>1, <2>1 DEF Absorbs
        <3> HIDE DEF b, n
        <3> QED BY <1>1, <3>1, <3>2, <3>3 DEF Linked
    <2> HIDE DEF b, n
    <2>5. Append(births, b) \in Seq(Birth)
        BY <1>4, <2>2
    <2>6. \A g \in DOMAIN Append(births, b) : Linked(Append(births, b)[g], n)
        BY <1>4, <2>2, <2>4
    <2> QED
        BY <2>3, <2>5, <2>6 DEF AllLinked, n
<1> QED
    BY <1>5, <1>6

ReplayGood(h) ==
    /\ Window(Replayed(h).ring) /\ Absorbs(Replayed(h).ring, h)
    /\ AllLinked(Replayed(h).births, h)

\* Replaying one more entry pushes that entry's turn and records its birth.
LEMMA ReplayAppendGood ==
    ASSUME NEW s \in Seq(Entries), NEW e \in Entries, ReplayGood(s)
    PROVE  /\ ReplayGood(Append(s, e))
           /\ Replayed(Append(s, e)).ring = Ring!Pushed(Replayed(s).ring, G1(e.turn))
           /\ Replayed(Append(s, e)).births =
                 Recorded(Replayed(s).births, Replayed(s).ring, G1(e.turn), Append(s, e))
<1> DEFINE n == Append(s, e)
           w == Replayed(s).ring
<1>1. /\ n \in Seq(Entries) /\ Len(n) = Len(s) + 1 /\ n[Len(s) + 1] = e
      /\ \A k \in 1..Len(s) : n[k] = s[k]
      /\ SubSeq(n, 1, Len(s) + 1) = n
      /\ IsPrefix(s, n)
    <2>1. SubSeq(n, 1, Len(s)) = s
        OBVIOUS
    <2> QED BY <2>1 DEF IsPrefix
<1>2. Replayed(n) = PushRecorded(Replayed(s), Len(s) + 1, n)
    BY ReplayedAppend
<1>3. G1(e.turn) \in SUBSET Bits
    BY G1Type DEF Entries
<1> HIDE DEF n
<1>4. /\ Replayed(n).ring = Ring!Pushed(w, G1(e.turn))
      /\ Replayed(n).births = Recorded(Replayed(s).births, w, G1(e.turn), n)
    <2>1. G1(n[Len(s) + 1].turn) = G1(e.turn) /\ SubSeq(n, 1, Len(s) + 1) = n
        BY <1>1
    <2>2. PushRecorded(Replayed(s), Len(s) + 1, n)
            = [ring   |-> Ring!Pushed(w, G1(e.turn)),
               births |-> Recorded(Replayed(s).births, w, G1(e.turn), n)]
        BY <2>1 DEF PushRecorded
    <2> QED BY <1>2, <2>2
<1>5. Window(Replayed(n).ring)
    BY <1>3, <1>4, PushedWindow DEF ReplayGood
<1>6. Absorbs(Replayed(n).ring, n)
    <2>1. ASSUME NEW i \in DOMAIN n
          PROVE  Ring!InSpan(Replayed(n).ring.rows, G1(n[i].turn))
        <3>1. CASE i = Len(s) + 1
            BY <1>1, <1>3, <1>4, <3>1, PushedWindow DEF ReplayGood
        <3>2. CASE i \in 1..Len(s)
            <4>1. n[i] = s[i] /\ s[i] \in Entries
                BY <1>1, <3>2
            <4>2. Ring!InSpan(w.rows, G1(s[i].turn))
                BY <3>2 DEF ReplayGood, Absorbs
            <4>3. G1(s[i].turn) \in SUBSET Bits
                BY <4>1, G1Type DEF Entries
            <4> QED
                BY <1>3, <1>4, <4>1, <4>2, <4>3, PushedWindow DEF ReplayGood
        <3> QED BY <1>1, <3>1, <3>2
    <2> QED BY <2>1 DEF Absorbs
<1>7. AllLinked(Replayed(n).births, n)
    BY <1>1, <1>4, RecordedLinked DEF ReplayGood, n
<1> QED
    BY <1>4, <1>5, <1>6, <1>7 DEF ReplayGood, n

\* Whatever history restore replays.
LEMMA ReplayIsGood ==
    ASSUME NEW h \in Seq(Entries)
    PROVE  ReplayGood(h)
<1> DEFINE T == {Len(s) : s \in {s \in Seq(Entries) : ~ReplayGood(s)}}
<1> SUFFICES ASSUME T # {} PROVE FALSE
    OBVIOUS
<1>1. PICK k \in T : \A i \in T : k <= i
    <2>1. T \subseteq Nat
        OBVIOUS
    <2> HIDE DEF T
    <2> QED BY <2>1, RingFacts!LeastNatural
<1>2. PICK s \in Seq(Entries) : ~ReplayGood(s) /\ k = Len(s)
    OBVIOUS
<1>3. s # NoCommit
    <2>1. ReplayGood(NoCommit)
        <3>1. Window(Replayed(NoCommit).ring) /\ Replayed(NoCommit).births = <<>>
            <4>1. Blank.ring = Ring!EmptyWindow(FALSE) /\ Blank.births = <<>>
                BY DEF Blank
            <4> QED BY <4>1, ReplayedNothing, EmptyIsWindow
        <3>2. <<>> \in Seq(Birth) /\ DOMAIN <<>> = {} /\ DOMAIN NoCommit = {}
            BY DEF NoCommit
        <3>3. AllLinked(Replayed(NoCommit).births, NoCommit)
            BY <3>1, <3>2 DEF AllLinked
        <3> QED BY <3>1, <3>2, <3>3 DEF ReplayGood, Absorbs
    <2> QED BY <1>2, <2>1
<1>4. PICK t \in Seq(Entries), e \in Entries : s = Append(t, e)
    BY <1>3, SequenceEmptyOrAppend DEF NoCommit
<1>5. ~ReplayGood(t) /\ Len(t) < Len(s) /\ Len(t) \in Nat
    BY <1>2, <1>4, ReplayAppendGood
<1>6. Len(t) \in T
    BY <1>5
<1>7. Len(s) <= Len(t) /\ Len(s) \in Nat
    BY <1>1, <1>2, <1>6
<1> QED
    BY <1>5, <1>7

-----------------------------------------------------------------------------
(* Births are linked to the persisted history.                             *)

\* The live ring has absorbed what a commit may be made on top of, and the
\* live births are of the persisted history.
Lineal ==
    /\ Window(cache.ring)
    /\ Absorbs(cache.ring, cache.tip) /\ Absorbs(cache.ring, head)
    /\ AllLinked(cache.births, HEAD)

\* A window that spans a history spans it after a push.
LEMMA AbsorbsPushed ==
    ASSUME NEW w, Window(w), NEW t \in Turns, NEW h \in Seq(Entries), Absorbs(w, h)
    PROVE  Absorbs(Ring!Pushed(w, G1(t)), h)
<1>1. ASSUME NEW i \in DOMAIN h
      PROVE  Ring!InSpan(Ring!Pushed(w, G1(t)).rows, G1(h[i].turn))
    <2>1. h[i] \in Entries
        OBVIOUS
    <2>2. G1(h[i].turn) \in SUBSET Bits /\ G1(t) \in SUBSET Bits
        BY <2>1, G1Type DEF Entries
    <2> QED
        BY <2>2, PushedWindow, Z3 DEF Absorbs
<1> QED
    BY <1>1 DEF Absorbs

\* What the ring and the births of the cache become.
LEMMA AbsorbedRing ==
    ASSUME NEW t \in Turns, Typed
    PROVE  /\ Absorbed(t).ring = Ring!Pushed(cache.ring, G1(t))
           /\ Absorbed(t).births = cache.births
           /\ \A commit, tip :
                 /\ Finished(t, commit, tip).ring = Ring!Pushed(cache.ring, G1(t))
                 /\ Finished(t, commit, tip).births =
                       Recorded(cache.births, cache.ring, G1(t), commit)
<1>1. /\ Absorbed(t).ring = Ring!Pushed(cache.ring, G1(t))
      /\ Absorbed(t).births = cache.births /\ DOMAIN Absorbed(t) = CacheFields
    BY DEF Absorbed, Typed, CacheFields
<1> QED
    BY <1>1 DEF Finished, CacheFields

\* The pushed window spans the new commit too.
LEMMA NewCommitAbsorbed ==
    ASSUME NEW t \in Turns, Typed, Lineal
    PROVE  Absorbs(Ring!Pushed(cache.ring, G1(t)), NewCommit(t))
<1>1. /\ NewCommit(t) \in Seq(Entries) /\ Len(NewCommit(t)) = Len(cache.tip) + 1
      /\ \A i \in DOMAIN cache.tip : NewCommit(t)[i] = cache.tip[i]
      /\ cache.tip \in Seq(Entries)
    BY NewCommitHolds DEF Typed
<1>2. NewCommit(t)[Len(cache.tip) + 1].turn = t
    BY DEF NewCommit, Entry, Typed
<1>3. Absorbs(Ring!Pushed(cache.ring, G1(t)), cache.tip)
    BY <1>1, AbsorbsPushed DEF Lineal
<1>4. Ring!InSpan(Ring!Pushed(cache.ring, G1(t)).rows, G1(t))
    BY G1Type, PushedWindow DEF Lineal
<1>5. ASSUME NEW i \in DOMAIN NewCommit(t)
      PROVE  Ring!InSpan(Ring!Pushed(cache.ring, G1(t)).rows, G1(NewCommit(t)[i].turn))
    <2>1. i \in DOMAIN cache.tip \/ i = Len(cache.tip) + 1
        BY <1>1
    <2> QED BY <1>1, <1>2, <1>3, <1>4, <2>1 DEF Absorbs
<1> QED
    BY <1>5 DEF Absorbs

\* A turn that is not committed brings no direction in.
LEMMA SkippedRing ==
    ASSUME NEW t \in Turns, Typed, Window(cache.ring), ~Commits(t)
    PROVE  /\ Ring!InSpan(cache.ring.rows, G1(t))
           /\ Ring!Pushed(cache.ring, G1(t)).rows = cache.ring.rows
           /\ Ring!Pushed(cache.ring, G1(t)).generation = cache.ring.generation
           /\ \A commit : Recorded(cache.births, cache.ring, G1(t), commit) = cache.births
<1>1. Absorbed(t).ring.generation = cache.ring.generation
    BY DEF Commits, BasisChanged
<1>2. Ring!Pushed(cache.ring, G1(t)).generation = cache.ring.generation
    BY <1>1, AbsorbedRing
<1>3. Ring!InSpan(cache.ring.rows, G1(t))
    <2>1. Ring!Pushed(cache.ring, G1(t)).generation =
            IF Ring!InSpan(cache.ring.rows, G1(t)) THEN cache.ring.generation
            ELSE cache.ring.generation + 1
        BY G1Type, PushedWindow
    <2> QED BY <1>2, <2>1 DEF Window
<1>4. Ring!Pushed(cache.ring, G1(t)).rows = cache.ring.rows
    BY <1>3, G1Type, PushedWindow
<1> QED
    BY <1>2, <1>3, <1>4 DEF Recorded, Ring!IsBirth

\* The lineage part at the start.
LEMMA InitLineal == Init => Lineal
<1> SUFFICES ASSUME Init PROVE Lineal
    OBVIOUS
<1>1. HEAD = NoCommit /\ head = NoCommit /\ cache = Restored(NoCommit) /\ NoCommit \in Seq(Entries)
    BY DEF Init, NoCommit
<1>2. cache.tip = NoCommit /\ cache.ring = Replayed(NoCommit).ring
      /\ cache.births = Replayed(NoCommit).births
    BY <1>1 DEF Restored
<1>3. ReplayGood(NoCommit)
    BY <1>1, ReplayIsGood
<1> QED
    BY <1>1, <1>2, <1>3 DEF Lineal, ReplayGood

\* The lineage part at every step.
LEMMA NextLineal ==
    ASSUME Typed, Ahead, Lineal, [Next]_vars
    PROVE  Lineal'
<1>1. CASE UNCHANGED vars
    BY <1>1 DEF vars, Lineal, Window, Absorbs, AllLinked, Linked
<1>0. cache.tip \in Seq(Entries) /\ head \in Seq(Entries) /\ HEAD \in Seq(Entries)
    BY DEF Typed
<1>2. ASSUME NEW t \in Turns, LutFails(t)
      PROVE  Lineal'
    <2>1. cache'.ring = cache.ring /\ cache'.births = cache.births /\ cache'.tip = cache.tip
        BY <1>2 DEF LutFails, Typed, CacheFields
    <2>2. HEAD' = HEAD /\ head' = head
        BY <1>2 DEF LutFails
    <2> QED BY <2>1, <2>2 DEF Lineal
<1>3. ASSUME NEW t \in Turns
      PROVE  /\ Window(Ring!Pushed(cache.ring, G1(t)))
             /\ Absorbs(Ring!Pushed(cache.ring, G1(t)), cache.tip)
             /\ Absorbs(Ring!Pushed(cache.ring, G1(t)), head)
    BY <1>0, G1Type, PushedWindow, AbsorbsPushed DEF Lineal
<1>4. ASSUME NEW t \in Turns, PutFails(t)
      PROVE  Lineal'
    <2>1. /\ cache'.ring = Ring!Pushed(cache.ring, G1(t)) /\ cache'.births = cache.births
          /\ cache'.tip = cache.tip
        BY <1>4, AbsorbedCache, AbsorbedRing DEF PutFails
    <2>2. HEAD' = HEAD /\ head' = head
        BY <1>4 DEF PutFails
    <2> QED BY <1>3, <2>1, <2>2 DEF Lineal
<1>5. ASSUME NEW t \in Turns, RefFails(t)
      PROVE  Lineal'
    <2>1. /\ cache'.ring = Ring!Pushed(cache.ring, G1(t)) /\ cache'.births = cache.births
          /\ cache'.tip = cache.tip
        BY <1>5, AbsorbedCache, AbsorbedRing DEF RefFails
    <2>2. HEAD' = HEAD /\ head' = NewCommit(t)
        BY <1>5 DEF RefFails, Committed
    <2> QED BY <1>3, <2>1, <2>2, NewCommitAbsorbed DEF Lineal
<1>6. ASSUME NEW t \in Turns, Turn(t)
      PROVE  Lineal'
    <2>1. HEAD' = NewCommit(t) /\ head' = NewCommit(t)
          /\ cache' = Finished(t, NewCommit(t), NewCommit(t))
        BY <1>6 DEF Turn, Committed
    <2>2. /\ cache'.ring = Ring!Pushed(cache.ring, G1(t)) /\ cache'.tip = NewCommit(t)
          /\ cache'.births = Recorded(cache.births, cache.ring, G1(t), NewCommit(t))
        BY <2>1, FinishedCache, AbsorbedRing
    <2>3. AllLinked(Recorded(cache.births, cache.ring, G1(t), NewCommit(t)), NewCommit(t))
        <3>1. NewCommit(t) = Append(cache.tip, Entry(t)) /\ Entry(t).turn = t
            BY DEF NewCommit, Entry
        <3>2. Entry(t) \in Entries
            BY AbsorbedCache, PlusType, TouchesType DEF Entry, Entries, CurrentTf, Typed
        <3>3. IsPrefix(HEAD, NewCommit(t))
            BY <1>0, PrefixOfNewCommit DEF Ahead
        <3> QED
            BY <1>0, <3>1, <3>2, <3>3, RecordedLinked DEF Lineal
    <2> QED BY <1>3, <2>1, <2>2, <2>3, NewCommitAbsorbed DEF Lineal
<1>7. ASSUME NEW t \in Turns, SkipTurn(t)
      PROVE  Lineal'
    <2>1. HEAD' = HEAD /\ head' = head /\ cache' = Finished(t, NoCommit, head) /\ ~Commits(t)
        BY <1>7 DEF SkipTurn
    <2>2. /\ cache'.ring = Ring!Pushed(cache.ring, G1(t)) /\ cache'.tip = head
          /\ cache'.births = cache.births
        BY <2>1, FinishedCache, AbsorbedRing, SkippedRing DEF Lineal
    <2> QED BY <1>3, <2>1, <2>2 DEF Lineal
<1>8. ASSUME Recover
      PROVE  Lineal'
    <2>1. HEAD' = HEAD /\ head' = HEAD /\ cache' = Restored(HEAD)
        BY <1>8 DEF Recover
    <2>2. /\ cache'.ring = Replayed(HEAD).ring /\ cache'.tip = HEAD
          /\ cache'.births = Replayed(HEAD).births
        BY <2>1 DEF Restored
    <2>3. ReplayGood(HEAD)
        BY <1>0, ReplayIsGood
    <2> QED BY <2>1, <2>2, <2>3 DEF Lineal, ReplayGood
<1> QED
    BY <1>1, <1>2, <1>4, <1>5, <1>6, <1>7, <1>8 DEF Next

\* BirthsLinked, for any turns, any failures and either kind of host: every
\* row of the birth table names the commit of the persisted history whose turn
\* was the first to bring that direction in.
THEOREM TurnBirthsLinked == Spec => []BirthsLinked
<1>1. Lineal => BirthsLinked
    BY DEF Lineal, AllLinked, Linked, BirthsLinked
<1>2. Typed /\ Ahead /\ Lineal /\ [Next]_vars => (Typed /\ Ahead /\ Lineal)'
    BY NextAhead, NextLineal
<1> QED
    BY InitAhead, InitLineal, <1>1, <1>2, PTL DEF Spec

-----------------------------------------------------------------------------
(* With a host that leaves on an error: a restart rebuilds the live cache. *)

\* Two windows that differ in the push count at most.
SameBasis(w, v) == w.rows = v.rows /\ w.generation = v.generation

Faithful ==
    up => /\ SameBasis(Replayed(HEAD).ring, cache.ring)
          /\ Lineage(Replayed(HEAD).births) = Lineage(cache.births)

\* The lineage of the births, one birth more.
LEMMA LineageAppend ==
    ASSUME NEW births \in Seq(Birth), NEW b \in Birth
    PROVE  Lineage(Append(births, b)) = Append(Lineage(births), [b EXCEPT !.push_index = 0])
<1> DEFINE Unordered(x) == [x EXCEPT !.push_index = 0]
           l == Lineage(births)
           a == Append(births, b)
<1>1. /\ a \in Seq(Birth) /\ Len(a) = Len(births) + 1 /\ Len(births) \in Nat
      /\ a[Len(births) + 1] = b
      /\ \A g \in 1..Len(births) : a[g] = births[g]
    OBVIOUS
<1>2. /\ l = [g \in 1..Len(births) |-> Unordered(births[g])]
      /\ Lineage(a) = [g \in 1..Len(a) |-> Unordered(a[g])]
    BY <1>1 DEF Lineage
<1>3. \A x \in Birth : Unordered(x) \in Birth
    BY DEF Birth
<1> HIDE DEF Unordered, l, a
<1>4. /\ l \in Seq(Birth) /\ Len(l) = Len(births) /\ Unordered(b) \in Birth
      /\ \A g \in 1..Len(births) : l[g] = Unordered(births[g])
    BY <1>2, <1>3
<1>5. /\ Append(l, Unordered(b)) \in Seq(Birth)
      /\ Len(Append(l, Unordered(b))) = Len(a)
      /\ \A g \in 1..Len(a) : Append(l, Unordered(b))[g] = Unordered(a[g])
    BY <1>1, <1>4
<1>6. Append(l, Unordered(b)) = [g \in 1..Len(a) |-> Append(l, Unordered(b))[g]]
    <2> DEFINE s == Append(l, Unordered(b))
    <2>1. s \in Seq(Birth) /\ Len(s) = Len(a)
        BY <1>5
    <2> HIDE DEF s
    <2>2. s = [g \in 1..Len(a) |-> s[g]]
        BY <2>1
    <2> QED BY <2>2 DEF s
<1>7. Append(l, Unordered(b)) = Lineage(a)
    BY <1>2, <1>5, <1>6
<1> QED
    BY <1>7 DEF l, a, Unordered

\* A push onto windows of the same basis: the bases stay the same, and one is
\* a birth when the other is, up to its push index.
LEMMA SamePushed ==
    ASSUME NEW w, Window(w), NEW v, Window(v), SameBasis(w, v), NEW x \in SUBSET Bits
    PROVE  /\ SameBasis(Ring!Pushed(w, x), Ring!Pushed(v, x))
           /\ Ring!IsBirth(w, x) <=> Ring!IsBirth(v, x)
           /\ \A c : [BirthRecord(Ring!BirthOf(w, x), c, x) EXCEPT !.push_index = 0]
                       = [BirthRecord(Ring!BirthOf(v, x), c, x) EXCEPT !.push_index = 0]
<1>1. w.rows = v.rows /\ w.generation = v.generation
    BY DEF SameBasis
<1>2. SameBasis(Ring!Pushed(w, x), Ring!Pushed(v, x))
    BY <1>1, PushedWindow DEF SameBasis
<1>3. Ring!IsBirth(w, x) <=> Ring!IsBirth(v, x)
    BY <1>1 DEF Ring!IsBirth, Window
<1>4. ASSUME NEW c
      PROVE  [BirthRecord(Ring!BirthOf(w, x), c, x) EXCEPT !.push_index = 0]
               = [BirthRecord(Ring!BirthOf(v, x), c, x) EXCEPT !.push_index = 0]
    <2> DEFINE a == Ring!BirthOf(w, x)
               b == Ring!BirthOf(v, x)
    <2>1. a.vec = b.vec /\ a.pivot = b.pivot /\ a.generation = b.generation
        BY <1>1 DEF Ring!BirthOf
    <2> HIDE DEF a, b
    <2>2. [BirthRecord(a, c, x) EXCEPT !.push_index = 0]
            = [BirthRecord(b, c, x) EXCEPT !.push_index = 0]
        BY <2>1 DEF BirthRecord
    <2> QED BY <2>2 DEF a, b
<1> QED
    BY <1>2, <1>3, <1>4

\* Windows with the same basis record the same births.
LEMMA SameRecorded ==
    ASSUME NEW w, Window(w), NEW v, Window(v), SameBasis(w, v), NEW x \in SUBSET Bits,
           NEW c \in Seq(Entries),
           NEW p \in Seq(Birth), NEW q \in Seq(Birth), Lineage(p) = Lineage(q)
    PROVE  Lineage(Recorded(p, w, x, c)) = Lineage(Recorded(q, v, x, c))
<1>1. CASE ~Ring!IsBirth(w, x)
    BY <1>1, SamePushed DEF Recorded
<1>2. CASE Ring!IsBirth(w, x)
    <2> DEFINE a == BirthRecord(Ring!BirthOf(w, x), c, x)
               b == BirthRecord(Ring!BirthOf(v, x), c, x)
    <2>1. Recorded(p, w, x, c) = Append(p, a) /\ Recorded(q, v, x, c) = Append(q, b)
        BY <1>2, SamePushed DEF Recorded
    <2>2. a \in Birth /\ b \in Birth
        BY <1>2, SamePushed, BirthType DEF Ring!IsBirth
    <2>3. [a EXCEPT !.push_index = 0] = [b EXCEPT !.push_index = 0]
        BY SamePushed
    <2> HIDE DEF a, b
    <2> QED BY <2>1, <2>2, <2>3, LineageAppend, ZenonT(60)
<1> QED
    BY <1>1, <1>2

\* Birth sequences of a cache are typed by Lineal, those of a replay always.
LEMMA ReplayedBirths ==
    ASSUME Typed, Lineal
    PROVE  /\ Window(Replayed(HEAD).ring) /\ Replayed(HEAD).births \in Seq(Birth)
           /\ Window(cache.ring) /\ cache.births \in Seq(Birth)
BY ReplayIsGood DEF Typed, Lineal, AllLinked, ReplayGood

\* The replay part at the start.
LEMMA InitFaithful == Init => Faithful
<1> SUFFICES ASSUME Init PROVE Faithful
    OBVIOUS
<1>1. /\ cache.ring = Replayed(HEAD).ring /\ cache.births = Replayed(HEAD).births
    BY DEF Init, Restored
<1> QED BY <1>1 DEF Faithful, SameBasis

\* While the host does not retry, the live ring stays what a replay would give.
LEMMA NextFaithful ==
    ASSUME ~retries, IInv, Ahead, Lineal, Faithful, [Next]_vars
    PROVE  Faithful'
<1> USE DEF IInv
<1>1. CASE UNCHANGED vars
    <2>1. HEAD' = HEAD /\ cache' = cache /\ up' = up
        BY <1>1 DEF vars
    <2>2. Replayed(HEAD)' = Replayed(HEAD)
        BY <2>1
    <2>3. Lineage(cache.births)' = Lineage(cache.births)
        BY <2>1
    <2> QED BY <2>1, <2>2, <2>3 DEF Faithful, SameBasis
<1>2. CASE ~up'
    BY <1>2 DEF Faithful
<1>3. ASSUME NEW t \in Turns, LutFails(t) \/ PutFails(t) \/ RefFails(t)
      PROVE  Faithful'
    BY <1>2, <1>3 DEF LutFails, PutFails, RefFails, ReturnErr
<1>4. ASSUME NEW t \in Turns, Turn(t)
      PROVE  Faithful'
    <2>1. /\ up /\ HEAD' = NewCommit(t) /\ NewCommit(t) = Append(HEAD, Entry(t))
          /\ cache' = Finished(t, NewCommit(t), NewCommit(t))
        BY <1>4 DEF Turn, Committed, Call, Synced, NewCommit
    <2>2. /\ cache'.ring = Ring!Pushed(cache.ring, G1(t))
          /\ cache'.births = Recorded(cache.births, cache.ring, G1(t), NewCommit(t))
        BY <2>1, AbsorbedRing
    <2>3. Entry(t).turn = t /\ Entry(t) \in Entries
        BY AbsorbedCache, PlusType, TouchesType DEF Entry, Entries, CurrentTf, Typed
    <2>4. /\ Replayed(NewCommit(t)).ring = Ring!Pushed(Replayed(HEAD).ring, G1(t))
          /\ Replayed(NewCommit(t)).births =
               Recorded(Replayed(HEAD).births, Replayed(HEAD).ring, G1(t), NewCommit(t))
        BY <2>1, <2>3, ReplayIsGood, ReplayAppendGood DEF Typed
    <2>5. NewCommit(t) \in Seq(Entries) /\ G1(t) \in SUBSET Bits
        BY NewCommitHolds, G1Type
    <2>6. SameBasis(Replayed(HEAD).ring, cache.ring)
          /\ Lineage(Replayed(HEAD).births) = Lineage(cache.births)
        BY <2>1 DEF Faithful
    <2>7. SameBasis(Replayed(NewCommit(t)).ring, cache'.ring)
        BY <2>2, <2>4, <2>5, <2>6, ReplayedBirths, SamePushed
    <2>8. Lineage(Replayed(NewCommit(t)).births) = Lineage(cache'.births)
        BY <2>2, <2>4, <2>5, <2>6, ReplayedBirths, SameRecorded
    <2>9. Replayed(NewCommit(t)) = Replayed(HEAD)'
        BY <2>1
    <2> QED BY <2>7, <2>8, <2>9 DEF Faithful
<1>5. ASSUME NEW t \in Turns, SkipTurn(t)
      PROVE  Faithful'
    <2>1. /\ up /\ ~Commits(t) /\ HEAD' = HEAD
          /\ cache' = Finished(t, NoCommit, head)
        BY <1>5 DEF SkipTurn, Call
    <2>2. /\ cache'.ring = Ring!Pushed(cache.ring, G1(t))
          /\ cache'.births = cache.births
        BY <2>1, AbsorbedRing, SkippedRing DEF Lineal
    <2>3. SameBasis(cache.ring, cache'.ring)
        BY <2>1, <2>2, SkippedRing DEF SameBasis, Lineal
    <2>4. Replayed(HEAD)' = Replayed(HEAD)
        BY <2>1
    <2> QED BY <2>1, <2>2, <2>3, <2>4 DEF Faithful, SameBasis
<1>6. ASSUME Recover
      PROVE  Faithful'
    <2>1. HEAD' = HEAD /\ cache' = Restored(HEAD)
        BY <1>6 DEF Recover
    <2>2. cache'.ring = Replayed(HEAD).ring /\ cache'.births = Replayed(HEAD).births
        BY <2>1 DEF Restored
    <2>3. Replayed(HEAD)' = Replayed(HEAD)
        BY <2>1
    <2> QED BY <2>2, <2>3 DEF Faithful, SameBasis
<1> QED
    BY <1>1, <1>3, <1>4, <1>5, <1>6 DEF Next

\* What holds of a process whose host leaves on an error.
LeavesFaithful == ~retries => IInv /\ Faithful

\* Every step keeps that.
LEMMA NextLeaves ==
    ASSUME LeavesFaithful, Typed, Ahead, Lineal, [Next]_vars
    PROVE  (LeavesFaithful /\ Typed /\ Ahead /\ Lineal)'
BY NextImplements, NextAhead, NextLineal, NextFaithful, HostStays DEF LeavesFaithful

\* RestoreFaithful, for any turns and any failures, with a host that leaves on
\* an error as main.rs does: a crash between two calls loses nothing of the
\* cache but the order in which directions were pushed.
THEOREM TurnRestoreFaithful == Spec => []RestoreFaithful
<1>1. LeavesFaithful => RestoreFaithful
    <2> SUFFICES ASSUME IInv, Faithful, up
                 PROVE  LET r == Restored(HEAD) IN
                        /\ r.working = cache.working
                        /\ r.tip = cache.tip /\ head = HEAD
                        /\ r.ring.rows = cache.ring.rows
                        /\ r.ring.generation = cache.ring.generation
                        /\ Lineage(r.births) = Lineage(cache.births)
        BY DEF RestoreFaithful, LeavesFaithful
    <2>1. /\ Restored(HEAD).working = StateOf(HEAD) /\ Restored(HEAD).tip = HEAD
          /\ Restored(HEAD).ring = Replayed(HEAD).ring
          /\ Restored(HEAD).births = Replayed(HEAD).births
        BY DEF Restored
    <2> QED BY <2>1 DEF IInv, Synced, Faithful, SameBasis
<1>2. Init => LeavesFaithful /\ Typed /\ Ahead /\ Lineal
    BY InitSynced, InitAhead, InitLineal, InitFaithful DEF LeavesFaithful
<1>3. LeavesFaithful /\ Typed /\ Ahead /\ Lineal /\ [Next]_vars
        => (LeavesFaithful /\ Typed /\ Ahead /\ Lineal)'
    BY NextLeaves
<1> QED
    BY <1>1, <1>2, <1>3, PTL DEF Spec

-----------------------------------------------------------------------------
\* The turns that were answered with Ok are in what a restart would rebuild.
Durable == acked \subseteq Turns /\ AckedDurable

\* While the host does not retry, what was acknowledged stays committed.
LEMMA NextDurable ==
    ASSUME ~retries, IInv, Ahead, Lineal, Faithful, Durable, [Next]_vars
    PROVE  Durable'
<1> USE DEF IInv
<1>0. /\ Window(Replayed(HEAD).ring) /\ StateOf(HEAD) \in States
      /\ \A t \in Turns : G1(t) \in SUBSET Bits
    BY ReplayedBirths, CommitHolds, G1Type DEF Typed
<1>1. ASSUME HEAD' = HEAD, acked' = acked
      PROVE  Durable'
    <2>1. Replayed(HEAD)' = Replayed(HEAD) /\ StateOf(HEAD)' = StateOf(HEAD)
        BY <1>1
    <2> QED BY <1>1, <2>1 DEF Durable, AckedDurable, Covers
<1>2. ASSUME NEW t \in Turns, LutFails(t) \/ PutFails(t) \/ RefFails(t) \/ Recover
      PROVE  Durable'
    BY <1>1, <1>2 DEF LutFails, PutFails, RefFails, ReturnErr, Recover
<1>3. ASSUME NEW t \in Turns, Turn(t)
      PROVE  Durable'
    <2>1. /\ up /\ HEAD' = NewCommit(t) /\ NewCommit(t) = Append(HEAD, Entry(t))
          /\ acked' \subseteq acked \union {t}
        BY <1>3 DEF Turn, Committed, Call, Synced, NewCommit, ReturnOk, ReturnErr
    <2>2. StateOf(NewCommit(t)) = Join(StateOf(HEAD), Sketch[t])
        BY <2>1, CommitGrows
    <2>3. Entry(t).turn = t /\ Entry(t) \in Entries
        BY AbsorbedCache, PlusType, TouchesType DEF Entry, Entries, CurrentTf, Typed
    <2>4. Replayed(NewCommit(t)).ring = Ring!Pushed(Replayed(HEAD).ring, G1(t))
        BY <2>1, <2>3, ReplayIsGood, ReplayAppendGood DEF Typed
    <2>5. ASSUME NEW u \in acked'
          PROVE  /\ u \in Turns
                 /\ Covers(StateOf(NewCommit(t)), Sketch[u])
                 /\ Ring!InSpan(Replayed(NewCommit(t)).ring.rows, G1(u))
        <3>1. CASE u = t
            BY <1>0, <2>2, <2>4, <3>1, PushedWindow DEF Covers, Join
        <3>2. CASE u \in acked
            <4>1. /\ u \in Turns /\ Covers(StateOf(HEAD), Sketch[u])
                  /\ Ring!InSpan(Replayed(HEAD).ring.rows, G1(u))
                BY <3>2 DEF Durable, AckedDurable
            <4>2. Covers(StateOf(NewCommit(t)), Sketch[u])
                BY <2>2, <4>1 DEF Covers, Join
            <4>3. Ring!InSpan(Replayed(NewCommit(t)).ring.rows, G1(u))
                BY <1>0, <2>4, <4>1, PushedWindow
            <4> QED BY <4>1, <4>2, <4>3
        <3> QED BY <2>1, <3>1, <3>2
    <2>6. StateOf(HEAD)' = StateOf(NewCommit(t)) /\ Replayed(HEAD)' = Replayed(NewCommit(t))
        BY <2>1
    <2> QED BY <2>5, <2>6 DEF Durable, AckedDurable, Covers
<1>4. ASSUME NEW t \in Turns, SkipTurn(t)
      PROVE  Durable'
    <2>1. /\ up /\ ~Commits(t) /\ HEAD' = HEAD /\ acked' \subseteq acked \union {t}
        BY <1>4 DEF SkipTurn, Call, ReturnOk, ReturnErr
    <2>2. Ring!InSpan(Replayed(HEAD).ring.rows, G1(t))
        BY <2>1, SkippedRing DEF Lineal, Faithful, SameBasis
    <2>3. Covers(StateOf(HEAD), Sketch[t])
        <3>1. cache.working = StateOf(HEAD) /\ tops = StateOf(HEAD)
            BY <2>1 DEF Synced
        <3>2. Absorbed(t).working = Join(StateOf(HEAD), Sketch[t])
            BY <3>1, AbsorbedCache
        <3>3. \A c \in Channels : Absorbed(t).working[c] \subseteq StateOf(HEAD)[c]
            BY <2>1, <3>1 DEF Commits, NewBits
        <3> QED BY <3>2, <3>3 DEF Join, Covers
    <2>4. StateOf(HEAD)' = StateOf(HEAD) /\ Replayed(HEAD)' = Replayed(HEAD)
        BY <2>1
    <2> QED BY <2>1, <2>2, <2>3, <2>4 DEF Durable, AckedDurable, Covers
<1>5. CASE UNCHANGED vars
    BY <1>1, <1>5 DEF vars
<1>6. CASE Recover
    BY <1>1, <1>6 DEF Recover
<1> QED
    BY <1>2, <1>3, <1>4, <1>5, <1>6 DEF Next

\* AckedDurable, for any turns and any failures, with a host that leaves on an
\* error: whatever fails later, a turn that was answered with Ok stays in the
\* state and in the ring that a restart rebuilds.  (A host that retries loses
\* it: the run TurnReprocess.)
THEOREM TurnAckedDurable == Spec => [](~retries => AckedDurable)
<1>1. Init => LeavesFaithful /\ Typed /\ Ahead /\ Lineal /\ (~retries => Durable)
    BY InitSynced, InitAhead, InitLineal, InitFaithful
    DEF LeavesFaithful, Init, Durable, AckedDurable
<1>2. LeavesFaithful /\ Typed /\ Ahead /\ Lineal /\ [Next]_vars
        => (LeavesFaithful /\ Typed /\ Ahead /\ Lineal)'
    BY NextLeaves
<1>3. LeavesFaithful /\ Ahead /\ Lineal /\ (~retries => Durable) /\ [Next]_vars
        => (~retries => Durable)'
    BY NextDurable, HostStays DEF LeavesFaithful
<1>4. Durable => AckedDurable
    BY DEF Durable
<1> QED
    BY <1>1, <1>2, <1>3, <1>4, PTL DEF Spec

=============================================================================
