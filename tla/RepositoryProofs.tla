-------------------------- MODULE RepositoryProofs --------------------------
(* Theorems of Repository: its types; a store whose writes are not torn,   *)
(* with merges that include HEAD, never loses the history of its HEAD file *)
(* and its tops are exact; gc deletes nothing that is needed, gc_to no     *)
(* readable object before it is archived, and a retried commit heals what  *)
(* an interrupted one left torn.                                           *)
EXTENDS Repository, TLAPS

-----------------------------------------------------------------------------
(* TypeOK, for every kind of fault, torn writes and merges of any two      *)
(* commits included.                                                       *)

Committing == {"tree", "tf", "commit", "head"}

\* What commit() is called with, and builds.
LEMMA CommitType ==
    ASSUME NEW state \in [Channels -> SUBSET Bits], NEW tf \in Nat,
           NEW m \in Messages, NEW parents,
           \A p \in {parents[i] : i \in DOMAIN parents} : IsCommit(p),
           NEW c, c = Commit(state, tf, parents, m)
    PROVE  IsObject(c) /\ IsCommit(c)
<1>1. /\ c.kind = "commit" /\ c.message = m /\ c.parents = parents
      /\ c.tf = TfBlob(tf)
      /\ c.trees = [ch \in Channels |-> Blob(state[ch])]
    BY DEF Commit
<1>2. IsTf(c.tf) /\ \A ch \in Channels : IsBlob(c.trees[ch])
    BY <1>1 DEF IsTf, IsBlob, TfBlob, Blob
<1>3. (\A t \in TreesOf(c) : IsBlob(t)) /\ \A p \in Parents(c) : IsCommit(p)
    BY <1>1, <1>2 DEF TreesOf, Parents
<1> QED
    BY <1>1, <1>2, <1>3 DEF IsObject, IsCommit

\* The parts of a typed commit.
LEMMA CommitParts ==
    ASSUME NEW c, IsObject(c), IsCommit(c)
    PROVE  /\ IsTf(c.tf) /\ \A t \in TreesOf(c) : IsBlob(t)
           /\ StateOf(c) \in [Channels -> SUBSET Bits]
           /\ \A ch \in Channels : c.trees[ch] \in TreesOf(c)
<1>1. IsTf(c.tf) /\ \A t \in TreesOf(c) : IsBlob(t)
    BY DEF IsObject, IsCommit, IsBlob, IsTf
<1>2. \A ch \in Channels : c.trees[ch] \in TreesOf(c)
    BY DEF TreesOf
<1> QED
    BY <1>1, <1>2 DEF StateOf, IsBlob

\* What log returns are commit objects.
LEMMA LoggedType ==
    ASSUME TypeOK, NEW c \in Logged
    PROVE  c \in objects /\ IsObject(c) /\ IsCommit(c)
BY DEF TypeOK, Logged, Log, Reached, Readable, CommitsIn, Files

\* The parents of the next commit are commits.
LEMMA HeadParentsType ==
    ASSUME TypeOK
    PROVE  \A p \in {HeadParents[i] : i \in DOMAIN HeadParents} : IsCommit(p)
<1>1. CASE head = NoHead
    BY <1>1 DEF HeadParents
<1>2. CASE head # NoHead
    BY <1>2 DEF HeadParents, TypeOK
<1> QED
    BY <1>1, <1>2

\* The object that an interrupted write may tear has the type of an object.
LEMMA WritingType ==
    ASSUME TypeOK, NEW o \in Writing
    PROVE  IsObject(o)
<1>1. CASE op.pc = "tree"
    <2>1. o = op.commit.trees[op.chan] /\ op.chan \in Channels
        BY <1>1 DEF Writing, TypeOK
    <2> QED
        BY <1>1, <2>1, CommitParts DEF TypeOK, IsObject
<1>2. CASE op.pc = "tf"
    <2>1. o = op.commit.tf
        BY <1>2 DEF Writing
    <2> QED
        BY <1>2, <2>1, CommitParts DEF TypeOK, IsObject
<1>3. CASE op.pc = "commit"
    BY <1>3 DEF Writing, TypeOK
<1> QED
    BY <1>1, <1>2, <1>3 DEF Writing

-----------------------------------------------------------------------------
(* One lemma for each group of actions.                                    *)

\* TypeOK by the parts of the state that the actions change together.
StoreType ==
    /\ \A o \in Files \union archive : IsObject(o)
    /\ objects \cap torn = {}
    /\ headFile # NoHead => IsCommit(headFile)

MemoryType ==
    /\ head # NoHead => IsCommit(head)
    /\ up \in BOOLEAN
    /\ ~up => head = NoHead /\ branches = NoBranches /\ op = Idle
    /\ tops \in [Channels -> SUBSET Bits]
    /\ DOMAIN branches = BranchNames
    /\ lut \subseteq SUBSET Bits

CallType ==
    /\ op.pc \in Stages
    /\ op.pc = "tree" => op.chan \in Channels
    /\ op.pc \in Committing => IsObject(op.commit) /\ IsCommit(op.commit)

BoundType == made \in 0..MaxCommits /\ faults \in 0..MaxFaults

\* The type invariant, by parts.
LEMMA Parts ==
    /\ TypeOK <=> StoreType /\ MemoryType /\ CallType /\ BoundType
    /\ TypeOK' <=> StoreType' /\ MemoryType' /\ CallType' /\ BoundType'
BY DEF TypeOK, StoreType, MemoryType, CallType, BoundType, Committing

\* An idle repository is typed.
LEMMA IdleType ==
    ASSUME op' = Idle
    PROVE  CallType'
<1>1. op'.pc = "idle"
    BY DEF Idle
<1> QED
    BY <1>1 DEF CallType, Stages, Committing

\* A call that writes trees is typed.
LEMMA TreeType ==
    ASSUME NEW c, IsObject(c), IsCommit(c), NEW ch \in Channels,
           op' = TreeCall(c, ch)
    PROVE  CallType'
<1>1. op'.pc = "tree" /\ op'.commit = c /\ op'.chan = ch
    BY DEF TreeCall
<1> QED
    BY <1>1 DEF CallType, Stages, IsObject, IsCommit

\* A call past the trees is typed.
LEMMA LaterType ==
    ASSUME NEW c, IsObject(c), IsCommit(c), NEW pc \in {"tf", "commit", "head"},
           op' = CommitCall(pc, c)
    PROVE  CallType'
<1>1. op'.pc = pc /\ op'.commit = c
    BY DEF CommitCall
<1> QED
    BY <1>1 DEF CallType, Stages, IsObject, IsCommit

\* A collection is typed.
LEMMA GcType ==
    ASSUME NEW pc \in {"archive", "delete"}, NEW d, NEW p, NEW a,
           op' = GcCall(pc, d, p, a)
    PROVE  CallType'
<1>1. op'.pc = pc
    BY DEF GcCall
<1> QED
    BY <1>1 DEF CallType, Stages, Committing

\* The type invariant at the start.
LEMMA InitType == Init => TypeOK
BY ConstantsAssumption
   DEF Init, TypeOK, Files, Idle, Stages, EmptyTops, NoBranches

\* The callers of commit(): a typed commit is begun or nothing is.
LEMMA BeginType ==
    ASSUME TypeOK, MayCommit, UNCHANGED <<disk, up, head, tops, branches, faults>>,
           lut' \subseteq SUBSET Bits,
           \/ UNCHANGED <<op, made>>
           \/ \E c : IsObject(c) /\ IsCommit(c) /\ Begin(c)
    PROVE  TypeOK'
<1>1. StoreType' /\ MemoryType'
    BY Parts DEF StoreType, MemoryType, disk, Files, MayCommit, Ready
<1>2. CallType' /\ BoundType'
    <2>1. CASE UNCHANGED <<op, made>>
        BY <2>1, Parts DEF CallType, BoundType
    <2>2. ASSUME NEW c, IsObject(c), IsCommit(c), Begin(c)
          PROVE  CallType' /\ BoundType'
        <3>1. 1 \in Channels
            BY ConstantsAssumption DEF Channels
        <3>2. CallType'
            BY <2>2, <3>1, TreeType DEF Begin
        <3>3. BoundType'
            BY <2>2, Parts, ConstantsAssumption DEF Begin, MayCommit, BoundType
        <3> QED
            BY <3>2, <3>3
    <2> QED
        BY <2>1, <2>2
<1> QED
    BY <1>1, <1>2, Parts

\* ingest and commit_interaction keep it.
LEMMA IngestType ==
    ASSUME TypeOK, NEW pass \in Passes, NEW tf \in Tfs, NEW m \in Messages,
           Ingest(pass, tf, m) \/ CommitInteraction(pass, tf, m)
    PROVE  TypeOK'
<1> DEFINE c == Commit(pass, tf, HeadParents, m)
<1>1. pass \in [Channels -> SUBSET Bits] /\ tf \in Nat
    BY ConstantsAssumption DEF Channels
<1>2. IsObject(c) /\ IsCommit(c)
    BY <1>1, HeadParentsType, CommitType
<1>3. lut' \subseteq SUBSET Bits
    BY <1>1 DEF Ingest, CommitInteraction, TouchAll, TypeOK, memory
<1>4. MayCommit /\ UNCHANGED <<disk, up, head, tops, branches, faults>>
    BY DEF Ingest, CommitInteraction, memory
<1>5. UNCHANGED <<op, made>> \/ Begin(c)
    BY DEF Ingest, CommitInteraction
<1> HIDE DEF c
<1> QED
    BY <1>2, <1>3, <1>4, <1>5, BeginType

\* What merge() touches.
LEMMA TouchedType ==
    ASSUME TypeOK, NEW a \in Logged, NEW b \in Logged, MergeTouches(a, b)
    PROVE  lut' \subseteq SUBSET Bits
<1>1. /\ StateOf(a) \in [Channels -> SUBSET Bits]
      /\ StateOf(b) \in [Channels -> SUBSET Bits]
    BY LoggedType, CommitParts
<1> QED
    BY <1>1 DEF MergeTouches, TouchAll, TypeOK

\* merge_commit keeps it.
LEMMA MergeCommitType ==
    ASSUME TypeOK, NEW a \in Logged, NEW b \in Logged, NEW m \in Messages,
           MergeCommit(a, b, m)
    PROVE  TypeOK'
<1> DEFINE state == Join(StateOf(a), StateOf(b))
           tf    == Larger(a.tf.count, b.tf.count)
           c     == Commit(state, tf, <<a, b>>, m)
<1>1. /\ IsCommit(a) /\ IsTf(a.tf) /\ StateOf(a) \in [Channels -> SUBSET Bits]
      /\ IsCommit(b) /\ IsTf(b.tf) /\ StateOf(b) \in [Channels -> SUBSET Bits]
    BY LoggedType, CommitParts
<1>2. state \in [Channels -> SUBSET Bits] /\ tf \in Nat
    BY <1>1 DEF Join, Larger, IsTf
<1>3. \A p \in {<<a, b>>[i] : i \in DOMAIN <<a, b>>} : IsCommit(p)
    BY <1>1
<1>4. /\ MayCommit /\ UNCHANGED <<disk, up, head, tops, branches, faults>>
      /\ MergeTouches(a, b) /\ Begin(c)
    BY DEF MergeCommit
<1> HIDE DEF state, tf
<1>5. IsObject(c) /\ IsCommit(c)
    BY <1>2, <1>3, CommitType
<1> HIDE DEF c
<1> QED
    BY <1>4, <1>5, TouchedType, BeginType

\* Calls that only touch or set a branch.
LEMMA ReadersType ==
    ASSUME TypeOK, UNCHANGED <<disk, up, head, tops, op, made, faults>>, up,
           DOMAIN branches' = BranchNames, lut' \subseteq SUBSET Bits
    PROVE  TypeOK'
BY Parts DEF StoreType, MemoryType, CallType, BoundType, disk, Files

\* The call of gc keeps it.
LEMMA GcCallType ==
    ASSUME TypeOK, NEW keep, NEW archiving, Gc(keep, archiving)
    PROVE  TypeOK'
<1>1. CallType'
    <2>1. PICK doomed : op' = IF archiving
                              THEN GcCall("archive", doomed, doomed, TRUE)
                              ELSE GcCall("delete", doomed, {}, FALSE)
        BY DEF Gc
    <2> QED
        BY <2>1, GcType
<1>2. UNCHANGED <<disk, memory, made, faults>> /\ up
    BY DEF Gc, Ready
<1> QED
    BY <1>1, <1>2, Parts DEF StoreType, MemoryType, BoundType, disk, memory, Files

\* A file is written: the other files keep their types.
LEMMA PutType ==
    ASSUME TypeOK, NEW o, IsObject(o), Put(o), UNCHANGED <<headFile, archive>>
    PROVE  StoreType'
BY Parts DEF StoreType, Put, Files

\* Writing a tree keeps it.
LEMMA PutTreeType ==
    ASSUME TypeOK, PutTree
    PROVE  TypeOK'
<1> DEFINE blob == op.commit.trees[op.chan]
<1>1. /\ op.pc = "tree" /\ op.chan \in Channels
      /\ IsObject(op.commit) /\ IsCommit(op.commit)
    BY DEF PutTree, TypeOK
<1>2. IsBlob(blob)
    BY <1>1, CommitParts
<1>3. /\ Put(blob) /\ TouchAll({blob.data}) /\ op' = AfterTree
      /\ UNCHANGED <<headFile, archive, up, head, tops, branches, made, faults>>
    BY DEF PutTree
<1> HIDE DEF blob
<1>4. StoreType'
    BY <1>2, <1>3, PutType DEF IsObject
<1>5. up
    BY <1>1, Parts DEF MemoryType, Idle
<1>6. MemoryType'
    BY <1>2, <1>3, <1>5, Parts DEF MemoryType, TouchAll, IsBlob
<1>7. CallType'
    <2>1. CASE op.chan < NChannels
        <3>1. op.chan + 1 \in Channels
            BY <1>1, <2>1, ConstantsAssumption DEF Channels
        <3> QED
            BY <1>1, <1>3, <2>1, <3>1, TreeType DEF AfterTree
    <2>2. CASE ~(op.chan < NChannels)
        BY <1>1, <1>3, <2>2, LaterType DEF AfterTree
    <2> QED
        BY <2>1, <2>2
<1> QED
    BY <1>3, <1>4, <1>6, <1>7, Parts DEF BoundType

\* The remaining steps of commit().
LEMMA CommitStepsType ==
    ASSUME TypeOK, PutTf \/ PutCommit \/ WriteHead
    PROVE  TypeOK'
<1>1. /\ IsObject(op.commit) /\ IsCommit(op.commit) /\ op.pc # "idle"
      /\ IsObject(op.commit.tf) /\ StateOf(op.commit) \in [Channels -> SUBSET Bits]
    BY CommitParts DEF PutTf, PutCommit, WriteHead, TypeOK, IsObject
<1>2. up
    BY <1>1, Parts DEF MemoryType, Idle
<1>3. CASE PutTf
    <2>1. StoreType'
        BY <1>1, <1>3, PutType DEF PutTf
    <2>2. CallType'
        BY <1>1, <1>3, LaterType DEF PutTf
    <2> QED
        BY <1>2, <1>3, <2>1, <2>2, Parts DEF PutTf, MemoryType, BoundType, memory
<1>4. CASE PutCommit
    <2>1. StoreType'
        BY <1>1, <1>4, PutType DEF PutCommit
    <2>2. CallType'
        BY <1>1, <1>4, LaterType DEF PutCommit
    <2>3. tops' \in [Channels -> SUBSET Bits]
        BY <1>1, <1>4 DEF PutCommit, Join, TypeOK
    <2>4. MemoryType'
        BY <1>1, <1>2, <1>4, <2>3, Parts DEF PutCommit, MemoryType
    <2> QED
        BY <1>4, <2>1, <2>2, <2>4, Parts DEF PutCommit, BoundType
<1>5. CASE WriteHead
    <2>1. StoreType'
        BY <1>1, <1>5, Parts DEF WriteHead, StoreType, Files
    <2>2. CallType'
        BY <1>5, IdleType DEF WriteHead
    <2> QED
        BY <1>2, <1>5, <2>1, <2>2, Parts DEF WriteHead, MemoryType, BoundType, memory
<1> QED
    BY <1>3, <1>4, <1>5

\* gc and gc_to, after the mark.
LEMMA GcStepsType ==
    ASSUME TypeOK, ArchiveOne \/ ArchiveErr \/ DeleteOne \/ DeleteErr
    PROVE  TypeOK'
<1>1. up
    <2>1. op.pc # "idle"
        BY DEF ArchiveOne, ArchiveErr, DeleteOne, DeleteErr
    <2> QED
        BY <2>1, Parts DEF MemoryType, Idle
<1>2. UNCHANGED <<headFile, memory, made>> /\ faults' \in 0..MaxFaults
    <2>1. UNCHANGED <<headFile, memory, made>>
        BY DEF ArchiveOne, ArchiveErr, DeleteOne, DeleteErr, disk
    <2>2. UNCHANGED faults \/ (faults < MaxFaults /\ faults' = faults + 1)
        BY DEF ArchiveOne, ArchiveErr, DeleteOne, DeleteErr
    <2> QED
        BY <2>1, <2>2, Parts, ConstantsAssumption DEF BoundType
<1>3. /\ archive' \subseteq archive \union objects
      /\ objects' \subseteq objects /\ torn' \subseteq torn
    BY DEF ArchiveOne, ArchiveErr, DeleteOne, DeleteErr, disk
<1>4. StoreType'
    BY <1>2, <1>3, Parts DEF StoreType, Files
<1>5. MemoryType' /\ BoundType'
    BY <1>1, <1>2, Parts DEF MemoryType, BoundType, memory
<1>6. CallType'
    <2>1. CASE ArchiveOne
        BY <2>1, GcType DEF ArchiveOne
    <2>2. CASE ArchiveErr
        BY <2>2, IdleType DEF ArchiveErr
    <2>3. CASE DeleteOne \/ DeleteErr
        BY <2>3, IdleType, GcType DEF DeleteOne, DeleteErr, AfterDelete
    <2> QED
        BY <2>1, <2>2, <2>3
<1> QED
    BY <1>4, <1>5, <1>6, Parts

\* Failing writes and crashes, torn or not.
LEMMA FaultsType ==
    ASSUME TypeOK, PutErr \/ WriteHeadErr \/ Crash
    PROVE  TypeOK'
<1>1. CallType'
    BY IdleType DEF PutErr, WriteHeadErr, Crash
<1>2. BoundType'
    BY Parts, ConstantsAssumption DEF PutErr, WriteHeadErr, Crash, BoundType
<1>3. /\ UNCHANGED <<objects, torn>>
         \/ (objects' = objects \ Writing /\ torn' = torn \union Writing)
      /\ headFile' \in {headFile, NoHead} /\ archive' = archive
    BY DEF PutErr, WriteHeadErr, Crash, InterruptedPut, InterruptedHead
<1>4. StoreType'
    BY <1>3, Parts, WritingType DEF StoreType, Files
<1>5. MemoryType'
    <2>1. CASE PutErr \/ WriteHeadErr
        <3>1. op.pc # "idle" /\ UNCHANGED memory
            BY <2>1 DEF PutErr, WriteHeadErr, Writing
        <3> QED
            BY <3>1, Parts DEF MemoryType, memory, Idle
    <2>2. CASE Crash
        BY <2>2 DEF Crash, MemoryType, EmptyTops, NoBranches
    <2> QED
        BY <2>1, <2>2
<1> QED
    BY <1>1, <1>2, <1>4, <1>5, Parts

\* open(): the tops that rebuild_tops makes of typed objects.
LEMMA OpenType ==
    ASSUME TypeOK, Open
    PROVE  TypeOK'
<1>1. RebuiltTops(headFile) \in [Channels -> SUBSET Bits]
    <2>1. ASSUME NEW w \in Log(headFile)
          PROVE  \A ch \in Channels : w.trees[ch].data \subseteq Bits
        <3>1. IsObject(w) /\ IsCommit(w)
            BY DEF TypeOK, Log, Reached, Readable, CommitsIn, Files
        <3> QED
            BY <3>1, CommitParts DEF IsBlob
    <2>2. \A ch \in Channels :
             UNION {w.trees[ch].data : w \in {c \in Log(headFile) : TreesOf(c) \subseteq objects}}
                \subseteq Bits
        BY <2>1
    <2> QED
        BY <2>2 DEF RebuiltTops, EmptyTops
<1>2. /\ UNCHANGED <<disk, branches, lut, op, made, faults>>
      /\ up' = TRUE /\ head' = headFile /\ tops' = RebuiltTops(headFile)
    BY DEF Open
<1>3. StoreType' /\ CallType' /\ BoundType'
    BY <1>2, Parts DEF StoreType, CallType, BoundType, disk, Files
<1>4. MemoryType'
    BY <1>1, <1>2, Parts DEF MemoryType, StoreType
<1> QED
    BY <1>3, <1>4, Parts

\* Every step keeps it.
LEMMA NextType ==
    ASSUME TypeOK, [Next]_vars
    PROVE  TypeOK'
<1>1. CASE UNCHANGED vars
    BY <1>1, Parts DEF vars, disk, memory, StoreType, MemoryType, CallType,
       BoundType, Files
<1>2. ASSUME NEW pass \in Passes, NEW tf \in Tfs, NEW m \in Messages,
             Ingest(pass, tf, m) \/ CommitInteraction(pass, tf, m)
      PROVE  TypeOK'
    BY <1>2, IngestType
<1>3. ASSUME NEW a \in Logged, NEW b \in Logged, Merge(a, b)
      PROVE  TypeOK'
    <2>1. lut' \subseteq SUBSET Bits
        BY <1>3, TouchedType DEF Merge
    <2> QED
        BY <1>3, <2>1, ReadersType DEF Merge, Ready, TypeOK
<1>4. ASSUME NEW a \in Logged, NEW b \in Logged, NEW m \in Messages,
             MergeCommit(a, b, m)
      PROVE  TypeOK'
    BY <1>4, MergeCommitType
<1>5. ASSUME NEW c \in Logged, NEW ch \in Channels, Project(c, ch)
      PROVE  TypeOK'
    <2>1. StateOf(c)[ch] \subseteq Bits
        BY LoggedType, CommitParts
    <2>2. lut' \subseteq SUBSET Bits
        BY <1>5, <2>1 DEF Project, TouchAll, TypeOK
    <2> QED
        BY <1>5, <2>2, ReadersType DEF Project, Ready, TypeOK
<1>6. ASSUME NEW name \in BranchNames, NEW c \in Logged, SetBranch(name, c)
      PROVE  TypeOK'
    BY <1>6, ReadersType DEF SetBranch, Ready, TypeOK
<1>7. ASSUME NEW keep \in GcKeeps, NEW archiving \in BOOLEAN, Gc(keep, archiving)
      PROVE  TypeOK'
    BY <1>7, GcCallType
<1>8. CASE PutTree \/ PutTf \/ PutCommit \/ WriteHead
    BY <1>8, PutTreeType, CommitStepsType
<1>9. CASE ArchiveOne \/ ArchiveErr \/ DeleteOne \/ DeleteErr
    BY <1>9, GcStepsType
<1>10. CASE PutErr \/ WriteHeadErr \/ Crash \/ Open
    BY <1>10, FaultsType, OpenType
<1> QED
    BY <1>1, <1>2, <1>3, <1>4, <1>5, <1>6, <1>7, <1>8, <1>9, <1>10 DEF Next

\* Every file of a repository holds what its kind says, no file is both
\* readable and torn, and a call in progress works on a whole commit: for any
\* number of channels, commits, merges of any commits and faults of any kind.
THEOREM RepositoryTyped == Spec => []TypeOK
<1>1. Init => TypeOK
    BY InitType
<1>2. TypeOK /\ [Next]_vars => TypeOK'
    BY NextType
<1> QED
    BY <1>1, <1>2, PTL DEF Spec

-----------------------------------------------------------------------------
(* The history of the HEAD file and of every reference.                    *)

\* The commits with a readable history are themselves a sound set.
LEMMA IntactIsSound ==
    ASSUME NEW c, Intact(c)
    PROVE  /\ c \in Readable
           /\ OwnObjects(c) \subseteq objects
           /\ \A p \in Parents(c) : Intact(p)
<1>1. PICK K \in SUBSET Readable : c \in K /\ Sound(K)
    BY DEF Intact
<1> QED
    BY <1>1 DEF Intact, Sound

\* A readable history stays readable while no object of the store goes.
LEMMA IntactMonotone ==
    ASSUME objects \subseteq objects', NEW c, Intact(c)
    PROVE  Intact(c)'
<1>1. PICK K \in SUBSET Readable : c \in K /\ Sound(K)
    BY DEF Intact
<1>2. K \in SUBSET Readable'
    BY <1>1 DEF Readable, CommitsIn, IsCommit
<1>3. Sound(K)'
    BY <1>1 DEF Sound, OwnObjects, TreesOf, Parents
<1> QED
    BY <1>1, <1>2, <1>3 DEF Intact

\* Descent is a matter of content: it survives a growing store ...
LEMMA DescendsMonotone ==
    ASSUME objects \subseteq objects', NEW h, NEW c, Intact(h), Descends(h, c)
    PROVE  Descends(h, c)'
<1>1. PICK H \in SUBSET Readable : h \in H /\ Sound(H)
    BY DEF Intact
<1>2. SUFFICES ASSUME NEW K \in SUBSET Readable', h \in K, Sound(K)'
               PROVE  c \in K
    BY DEF Descends
<1>3. K \cap H \in SUBSET Readable /\ h \in K \cap H
    BY <1>1, <1>2
<1>4. Sound(K \cap H)
    BY <1>1, <1>2 DEF Sound, OwnObjects, TreesOf, Parents
<1> QED
    BY <1>3, <1>4 DEF Descends

\* ... and a shrinking one.
LEMMA DescendsAntitone ==
    ASSUME objects' \subseteq objects, NEW h, NEW c, Descends(h, c)
    PROVE  Descends(h, c)'
<1>1. SUFFICES ASSUME NEW K \in SUBSET Readable', h \in K, Sound(K)'
               PROVE  c \in K
    BY DEF Descends
<1>2. K \in SUBSET Readable
    BY <1>1 DEF Readable, CommitsIn, IsCommit
<1>3. Sound(K)
    BY <1>1 DEF Sound, OwnObjects, TreesOf, Parents
<1> QED
    BY <1>1, <1>2, <1>3 DEF Descends

\* In a readable history, descent and the walk of log() agree.
LEMMA DescendsReached ==
    ASSUME NEW h, NEW c, Intact(h), Descends(h, c)
    PROVE  c \in Reached(Readable, {h})
<1>1. PICK H \in SUBSET Readable : h \in H /\ Sound(H)
    BY DEF Intact
<1>2. c \in Readable
    BY <1>1 DEF Descends
<1>3. ASSUME NEW K \in SUBSET Readable, {h} \cap Readable \subseteq K,
             ClosedIn(K, Readable)
      PROVE  c \in K
    <2>1. K \cap H \in SUBSET Readable /\ h \in K \cap H
        BY <1>1, <1>3
    <2>2. Sound(K \cap H)
        BY <1>1, <1>3 DEF Sound, ClosedIn
    <2> QED
        BY <2>1, <2>2 DEF Descends
<1> QED
    BY <1>2, <1>3 DEF Reached

\* What the walk from an intact commit visits is intact.
LEMMA ReachedIntact ==
    ASSUME NEW h, Intact(h), NEW c \in Reached(Readable, {h})
    PROVE  Intact(c)
<1>1. PICK H \in SUBSET Readable : h \in H /\ Sound(H)
    BY DEF Intact
<1>2. {h} \cap Readable \subseteq H /\ ClosedIn(H, Readable)
    BY <1>1 DEF ClosedIn, Sound
<1>3. c \in H
    BY <1>1, <1>2 DEF Reached
<1> QED
    BY <1>1, <1>3 DEF Intact

-----------------------------------------------------------------------------

\* References that stay put stay intact while the store grows.
LEMMA GrowingStore ==
    ASSUME IInv, objects \subseteq objects',
           UNCHANGED <<headFile, up, head, branches>>
    PROVE  HeadFileIntact' /\ RefsIntact' /\ HeadDescends'
<1>1. HeadFileIntact'
    BY IntactMonotone DEF IInv, HeadFileIntact
<1>2. RefsIntact'
    BY IntactMonotone DEF IInv, RefsIntact
<1>3. HeadDescends'
    BY DescendsMonotone DEF IInv, HeadDescends, RefsIntact
<1> QED
    BY <1>1, <1>2, <1>3

\* Between calls nothing is claimed of a call.
LEMMA IdleCall ==
    op.pc = "idle" => CallSound /\ GcSpares
BY DEF CallSound, GcSpares

\* A commit call begins sound when its parents are intact and include head.
LEMMA BeginSound ==
    ASSUME IInv, Ready, UNCHANGED <<disk, up, head, branches>>,
           NEW c, IsCommit(c), \A p \in Parents(c) : Intact(p),
           head # NoHead => head \in Parents(c),
           op' = TreeCall(c, 1)
    PROVE  IInv'
<1>1. objects \subseteq objects' /\ UNCHANGED <<headFile, up, head, branches>>
    BY DEF disk
<1>2. HeadFileIntact' /\ RefsIntact' /\ HeadDescends'
    BY <1>1, GrowingStore
<1>3. \A p \in Parents(c) : Intact(p)'
    BY <1>1, IntactMonotone
<1>4. op'.pc = "tree" /\ op'.commit = c /\ op'.chan = 1
    BY DEF TreeCall
<1>5. CallSound'
    BY <1>1, <1>3, <1>4, ConstantsAssumption
       DEF CallSound, Ready, Channels, Parents, IsCommit
<1> QED
    BY <1>1, <1>2, <1>4, <1>5 DEF IInv, GcSpares, Stages

\* References survive the deletion of files that gc doomed.
LEMMA DoomedDelete ==
    ASSUME IInv, op.pc = "delete", NEW o \in op.doomed,
           objects' = objects \ {o},
           UNCHANGED <<headFile, up, head, branches>>
    PROVE  /\ HeadFileIntact' /\ RefsIntact' /\ HeadDescends'
           /\ \A r \in Roots : \E K \in SUBSET Readable' :
                /\ r \in K /\ Sound(K)'
                /\ \A c \in K : OwnObjects(c) \cap op.doomed = {}
<1>1. ASSUME NEW K \in SUBSET Readable, Sound(K),
             \A c \in K : OwnObjects(c) \cap op.doomed = {}
      PROVE  K \in SUBSET Readable' /\ Sound(K)'
    BY <1>1 DEF Readable, CommitsIn, IsCommit, Sound, OwnObjects, TreesOf, Parents
<1>2. \A r \in Roots : \E K \in SUBSET Readable' :
         /\ r \in K /\ Sound(K)'
         /\ \A c \in K : OwnObjects(c) \cap op.doomed = {}
    BY <1>1 DEF IInv, GcSpares
<1>3. \A r \in Roots : Intact(r)'
    BY <1>2 DEF Intact
<1>4. RefsIntact'
    BY <1>3 DEF RefsIntact, Roots
<1>5. HeadDescends'
    BY DescendsAntitone DEF IInv, HeadDescends
<1>6. HeadFileIntact'
    <2>1. SUFFICES ASSUME headFile # NoHead PROVE Intact(headFile)'
        BY DEF HeadFileIntact
    <2>2. up /\ head # NoHead /\ Descends(head, headFile)
        BY <2>1 DEF IInv, HeadDescends, GcSpares
    <2>3. PICK K \in SUBSET Readable :
             /\ head \in K /\ Sound(K)
             /\ \A c \in K : OwnObjects(c) \cap op.doomed = {}
        BY <2>2 DEF IInv, GcSpares, Roots
    <2>4. headFile \in K
        BY <2>2, <2>3 DEF Descends
    <2> QED
        BY <2>3, <2>4, <1>1 DEF Intact
<1> QED
    BY <1>2, <1>4, <1>5, <1>6

\* The mark spares the readable history of every reference it starts from.
LEMMA MarkSpares ==
    ASSUME NEW roots, NEW r \in roots, Intact(r)
    PROVE  \E K \in SUBSET Readable :
             /\ r \in K /\ Sound(K)
             /\ \A c \in K : OwnObjects(c) \subseteq Mark(roots)
<1>1. PICK H \in SUBSET Readable : r \in H /\ Sound(H)
    BY DEF Intact
<1> DEFINE K == H \cap Reached(Readable, roots)
<1>2. r \in K
    BY <1>1 DEF Reached
<1>3. ASSUME NEW c \in K, NEW p \in Parents(c)
      PROVE  p \in K
    <2>1. p \in H /\ p \in Readable
        BY <1>1, <1>3 DEF Sound
    <2>2. ASSUME NEW L \in SUBSET Readable, roots \cap Readable \subseteq L,
                 ClosedIn(L, Readable)
          PROVE  p \in L
        BY <2>1, <2>2, <1>3 DEF Reached, ClosedIn
    <2> QED
        BY <2>1, <2>2 DEF Reached
<1>4. K \in SUBSET Readable /\ Sound(K)
    BY <1>1, <1>3 DEF Sound
<1>5. \A c \in K : OwnObjects(c) \subseteq Mark(roots)
    BY DEF Mark
<1> QED
    BY <1>2, <1>4, <1>5

-----------------------------------------------------------------------------
(* One lemma per action: IInv is inductive.                                *)

\* The invariant of the commits at the start.
LEMMA InitIInv ==
    Init => IInv
BY DEF Init, IInv, Idle, Stages, NoBranches, HeadFileIntact, RefsIntact,
       HeadDescends, CallSound, GcSpares

\* The invariant speaks of the store, HEAD, the branches and the running call
\* only.
LEMMA Unaffected ==
    ASSUME IInv, UNCHANGED <<objects, headFile, up, head, branches, op>>
    PROVE  IInv'
<1>1. HeadFileIntact' /\ RefsIntact' /\ HeadDescends'
    BY GrowingStore
<1>2. CallSound'
    BY DEF IInv, CallSound, Intact, Sound, Readable
<1>3. GcSpares'
    BY DEF IInv, GcSpares, Roots, Sound, Readable
<1> QED
    BY <1>1, <1>2, <1>3 DEF IInv

\* A call that ends claims nothing.
LEMMA CallEnds ==
    ASSUME IInv, op' = Idle, UNCHANGED <<objects, headFile, up, head, branches>>
    PROVE  IInv'
<1>1. HeadFileIntact' /\ RefsIntact' /\ HeadDescends'
    BY GrowingStore
<1>2. op'.pc = "idle"
    BY DEF Idle
<1> QED
    BY <1>1, <1>2 DEF IInv, CallSound, GcSpares, Stages

\* What log returns is intact.
LEMMA LoggedIntact ==
    ASSUME IInv, NEW c \in Logged
    PROVE  Intact(c)
BY ReachedIntact DEF Logged, Log, IInv, RefsIntact

\* A commit on HEAD has intact parents, HEAD among them.
LEMMA HeadParentsIntact ==
    ASSUME IInv, NEW state, NEW tf, NEW m
    PROVE  LET c == Commit(state, tf, HeadParents, m) IN
             /\ IsCommit(c)
             /\ \A p \in Parents(c) : Intact(p)
             /\ head # NoHead => head \in Parents(c)
<1> DEFINE c == Commit(state, tf, HeadParents, m)
<1>1. IsCommit(c) /\ c.parents = HeadParents
    BY DEF Commit, IsCommit
<1>2. Parents(c) = IF head = NoHead THEN {} ELSE {head}
    <2>1. CASE head = NoHead
        BY <1>1, <2>1 DEF Parents, HeadParents
    <2>2. CASE head # NoHead
        <3>1. c.parents = <<head>>
            BY <1>1, <2>2 DEF HeadParents
        <3> QED
            BY <3>1, <2>2 DEF Parents
    <2> QED
        BY <2>1, <2>2
<1> QED
    BY <1>1, <1>2 DEF IInv, RefsIntact

\* ingest keeps the invariant.
LEMMA IngestStep ==
    ASSUME IInv, NEW pass, NEW tf, NEW m, Ingest(pass, tf, m)
    PROVE  IInv'
<1>1. UNCHANGED <<disk, up, head, branches>> /\ Ready
    BY DEF Ingest, MayCommit
<1>2. CASE NoNewBits(pass)
    BY <1>1, <1>2, Unaffected DEF Ingest, disk
<1>3. CASE ~NoNewBits(pass)
    <2>1. op' = TreeCall(Commit(pass, tf, HeadParents, m), 1)
        BY <1>3 DEF Ingest, Begin
    <2> QED
        BY <1>1, <2>1, BeginSound, HeadParentsIntact
<1> QED
    BY <1>2, <1>3

\* commit_interaction keeps it.
LEMMA CommitInteractionStep ==
    ASSUME IInv, NEW pass, NEW tf, NEW m, CommitInteraction(pass, tf, m)
    PROVE  IInv'
<1>1. /\ UNCHANGED <<disk, up, head, branches>> /\ Ready
      /\ op' = TreeCall(Commit(pass, tf, HeadParents, m), 1)
    BY DEF CommitInteraction, MayCommit, Begin, memory
<1> QED
    BY <1>1, BeginSound, HeadParentsIntact

\* merge_commit of two logged commits keeps it.
LEMMA MergeCommitStep ==
    ASSUME IInv, ~AnyMerge, NEW a \in Logged, NEW b \in Logged, NEW m,
           MergeCommit(a, b, m)
    PROVE  IInv'
<1> DEFINE c == Commit(Join(StateOf(a), StateOf(b)),
                       Larger(a.tf.count, b.tf.count), <<a, b>>, m)
<1>1. /\ UNCHANGED <<disk, up, head, branches>> /\ Ready
      /\ op' = TreeCall(c, 1)
      /\ b = head
    BY DEF MergeCommit, MayCommit, Begin
<1>2. IsCommit(c) /\ c.parents = <<a, b>>
    BY DEF Commit, IsCommit
<1>3. Parents(c) = {a, b}
    <2> HIDE DEF c
    <2>1. c.parents = <<a, b>>
        BY <1>2
    <2> QED
        BY <2>1 DEF Parents
<1>4. Intact(a) /\ Intact(b)
    BY LoggedIntact
<1> HIDE DEF c
<1> QED
    BY <1>1, <1>2, <1>3, <1>4, BeginSound

\* set_branch keeps it.
LEMMA SetBranchStep ==
    ASSUME IInv, NEW name \in BranchNames, NEW c \in Logged, SetBranch(name, c)
    PROVE  IInv'
<1>1. /\ UNCHANGED <<objects, headFile, up, head, op>> /\ Ready
      /\ branches' = [branches EXCEPT ![name] = c]
    BY DEF SetBranch, disk
<1>2. Intact(c)
    BY LoggedIntact
<1>3. \A d : Intact(d) => Intact(d)'
    BY <1>1, IntactMonotone
<1>4. RefsIntact'
    BY <1>1, <1>2, <1>3 DEF IInv, RefsIntact
<1>5. HeadFileIntact' /\ HeadDescends'
    BY <1>1, <1>3, DescendsMonotone DEF IInv, HeadFileIntact, HeadDescends, RefsIntact
<1>6. op'.pc = "idle"
    BY <1>1 DEF Ready, Idle
<1>7. branches' = [n \in BranchNames |-> branches'[n]]
    BY <1>1 DEF IInv
<1> QED
    BY <1>4, <1>5, <1>6, <1>7 DEF IInv, CallSound, GcSpares, Stages

\* Writing a tree keeps it.
LEMMA PutTreeStep ==
    ASSUME IInv, PutTree
    PROVE  IInv'
<1>1. /\ UNCHANGED <<headFile, up, head, branches>>
      /\ op.pc = "tree" /\ op' = AfterTree
      /\ objects' = objects \union {op.commit.trees[op.chan]}
    BY DEF PutTree, Put
<1>2. HeadFileIntact' /\ RefsIntact' /\ HeadDescends'
    BY <1>1, GrowingStore
<1>3. /\ up /\ IsCommit(op.commit) /\ op.chan \in 1..NChannels
      /\ \A p \in Parents(op.commit) : Intact(p)'
      /\ head # NoHead => head \in Parents(op.commit)
      /\ \A ch \in 1..op.chan : op.commit.trees[ch] \in objects'
    BY <1>1, IntactMonotone, ConstantsAssumption DEF IInv, CallSound, Channels
<1>4. CASE op.chan < NChannels
    <2>1. op' = TreeCall(op.commit, op.chan + 1)
        BY <1>1, <1>4 DEF AfterTree
    <2>2. op'.pc = "tree" /\ op'.commit = op.commit /\ op'.chan = op.chan + 1
        BY <2>1 DEF TreeCall
    <2>3. CallSound'
        BY <1>1, <1>3, <1>4, <2>2, ConstantsAssumption
           DEF CallSound, Channels, Parents, IsCommit
    <2> QED
        BY <1>1, <1>2, <2>2, <2>3 DEF IInv, GcSpares, Stages
<1>5. CASE ~(op.chan < NChannels)
    <2>1. op' = CommitCall("tf", op.commit)
        BY <1>1, <1>5 DEF AfterTree
    <2>2. op'.pc = "tf" /\ op'.commit = op.commit
        BY <2>1 DEF CommitCall
    <2>3. TreesOf(op.commit) \subseteq objects'
        BY <1>3, <1>5, ConstantsAssumption DEF TreesOf, Channels
    <2>4. CallSound'
        BY <1>1, <1>3, <2>2, <2>3 DEF CallSound, Parents, IsCommit, TreesOf
    <2> QED
        BY <1>1, <1>2, <2>2, <2>4 DEF IInv, GcSpares, Stages
<1> QED
    BY <1>4, <1>5

\* Writing the frequencies keeps it.
LEMMA PutTfStep ==
    ASSUME IInv, PutTf
    PROVE  IInv'
<1>1. /\ UNCHANGED <<headFile, up, head, branches>>
      /\ op.pc = "tf" /\ op' = CommitCall("commit", op.commit)
      /\ objects' = objects \union {op.commit.tf}
    BY DEF PutTf, Put, memory
<1>2. HeadFileIntact' /\ RefsIntact' /\ HeadDescends'
    BY <1>1, GrowingStore
<1>3. op'.pc = "commit" /\ op'.commit = op.commit
    BY <1>1 DEF CommitCall
<1>4. \A p \in Parents(op.commit) : Intact(p)'
    BY <1>1, IntactMonotone DEF IInv, CallSound
<1>5. CallSound'
    BY <1>1, <1>3, <1>4 DEF IInv, CallSound, Parents, IsCommit, TreesOf
<1> QED
    BY <1>1, <1>2, <1>3, <1>5 DEF IInv, GcSpares, Stages

\* The new commit joins the commits its parents' histories are made of.
LEMMA PutCommitStep ==
    ASSUME IInv, PutCommit
    PROVE  IInv'
<1>0. PICK c : c = op.commit
    OBVIOUS
<1>1. /\ UNCHANGED <<headFile, up, branches>>
      /\ op.pc = "commit" /\ op' = CommitCall("head", c)
      /\ objects' = objects \union {c} /\ head' = c
    BY <1>0 DEF PutCommit, Put
<1>2. /\ up /\ IsCommit(c)
      /\ \A p \in Parents(c) : Intact(p)
      /\ head # NoHead => head \in Parents(c)
      /\ TreesOf(c) \subseteq objects /\ c.tf \in objects
    BY <1>0, <1>1 DEF IInv, CallSound
<1>3. \A d : Intact(d) => Intact(d)'
    BY <1>1, IntactMonotone
<1>4. Intact(c)'
    <2>0. PICK K : K = {c} \union {d \in Readable : Intact(d)}
        OBVIOUS
    <2>1. K \in SUBSET Readable'
        BY <1>1, <1>2, <2>0 DEF Readable, CommitsIn, IsCommit
    <2>2. \A d \in K : Parents(d) \subseteq K
        BY <1>2, <2>0, IntactIsSound
    <2>3. \A d \in K : OwnObjects(d) \subseteq objects'
        BY <1>1, <1>2, <2>0, IntactIsSound DEF OwnObjects
    <2>4. Sound(K)'
        BY <2>2, <2>3 DEF Sound, OwnObjects, TreesOf, Parents
    <2> QED
        BY <2>0, <2>1, <2>4 DEF Intact
<1>5. HeadFileIntact' /\ RefsIntact'
    BY <1>1, <1>3, <1>4 DEF IInv, HeadFileIntact, RefsIntact
<1>6. HeadDescends'
    <2>1. SUFFICES ASSUME headFile # NoHead PROVE HeadDescends'
        BY <1>1 DEF HeadDescends
    <2>2. PICK h, f : h = head /\ f = headFile
        OBVIOUS
    <2>3. h # NoHead /\ Intact(h) /\ Descends(h, f) /\ h \in Parents(c)
        BY <1>2, <2>1, <2>2 DEF IInv, HeadDescends, RefsIntact
    <2>4. Descends(h, f)'
        BY <1>1, <2>3, DescendsMonotone
    <2>5. Descends(c, f)'
        BY <2>3, <2>4 DEF Descends, Sound, Parents
    <2>6. c # NoHead
        BY <1>2 DEF NoHead, IsCommit
    <2> QED
        BY <1>1, <2>2, <2>5, <2>6 DEF HeadDescends
<1>7. op'.pc = "head" /\ op'.commit = c
    BY <1>1 DEF CommitCall
<1>8. CallSound'
    BY <1>1, <1>2, <1>3, <1>7 DEF CallSound, Parents, IsCommit
<1> QED
    BY <1>1, <1>5, <1>6, <1>7, <1>8 DEF IInv, GcSpares, Stages

\* Writing HEAD keeps it: the commit and all it names are written.
LEMMA WriteHeadStep ==
    ASSUME IInv, WriteHead
    PROVE  IInv'
<1>1. /\ UNCHANGED <<objects, up, head, branches>>
      /\ headFile' = head /\ op' = Idle /\ head # NoHead
    BY DEF WriteHead, memory, IInv, CallSound, IsCommit, NoHead
<1>2. \A d : Intact(d) => Intact(d)'
    BY <1>1, IntactMonotone
<1>3. HeadFileIntact' /\ RefsIntact'
    BY <1>1, <1>2 DEF IInv, HeadFileIntact, RefsIntact
<1>4. HeadDescends'
    BY <1>1 DEF HeadDescends, Descends
<1>5. op'.pc = "idle"
    BY <1>1 DEF Idle
<1> QED
    BY <1>1, <1>3, <1>4, <1>5 DEF IInv, CallSound, GcSpares, Stages

\* GcSpares' from its instance at the next state's doomed files.
LEMMA SparesNext ==
    ASSUME UNCHANGED branches, UNCHANGED head, up',
           \A r \in Roots : \E K \in SUBSET Readable' :
                /\ r \in K /\ Sound(K)'
                /\ \A c \in K : OwnObjects(c) \cap op'.doomed = {}
    PROVE  GcSpares'
<1>1. Roots' = Roots
    BY DEF Roots
<1>2. \A c : OwnObjects(c)' = OwnObjects(c)
    BY DEF OwnObjects, TreesOf
<1> QED
    BY <1>1, <1>2 DEF GcSpares

\* What a store can read depends on nothing else.
LEMMA SameStore ==
    ASSUME UNCHANGED objects
    PROVE  Readable' = Readable /\ \A K : Sound(K)' <=> Sound(K)
BY DEF Readable, CommitsIn, IsCommit, Sound, OwnObjects, TreesOf, Parents

\* What gc dooms, the mark has not reached from any reference.
LEMMA GcStep ==
    ASSUME IInv, NEW keep, NEW archiving, Gc(keep, archiving)
    PROVE  IInv'
<1> DEFINE roots  == Roots \union keep
           doomed == Files \ Mark(roots)
<1>1. /\ UNCHANGED <<objects, headFile, up, head, branches>> /\ up
      /\ op' = IF archiving THEN GcCall("archive", doomed, doomed, TRUE)
                            ELSE GcCall("delete", doomed, {}, FALSE)
    BY DEF Gc, Ready, disk, memory
<1>2. op'.pc \in {"archive", "delete"} /\ op'.doomed = doomed
    <2> HIDE DEF doomed
    <2> QED BY <1>1 DEF GcCall
<1>3. \A r \in Roots : Intact(r)
    BY DEF IInv, RefsIntact, Roots
<1>4. \A r \in Roots : \E K \in SUBSET Readable :
         /\ r \in K /\ Sound(K)
         /\ \A c \in K : OwnObjects(c) \cap doomed = {}
    <2> SUFFICES ASSUME NEW r \in Roots
                 PROVE  \E K \in SUBSET Readable :
                          /\ r \in K /\ Sound(K)
                          /\ \A c \in K : OwnObjects(c) \cap doomed = {}
        OBVIOUS
    <2>1. Intact(r) /\ r \in roots
        BY <1>3
    <2>2. PICK K \in SUBSET Readable :
             /\ r \in K /\ Sound(K)
             /\ \A c \in K : OwnObjects(c) \subseteq Mark(roots)
        <3> HIDE DEF roots
        <3> QED BY <2>1, MarkSpares
    <2> QED
        BY <2>2
<1> HIDE DEF doomed
<1>5. GcSpares'
    BY <1>1, <1>2, <1>4, SameStore, SparesNext
<1>6. HeadFileIntact' /\ RefsIntact' /\ HeadDescends'
    BY <1>1, GrowingStore
<1> QED
    BY <1>1, <1>2, <1>5, <1>6 DEF IInv, CallSound, Stages

\* Between two steps of a gc that deletes nothing, the doomed only get fewer.
LEMMA DoomedShrinks ==
    ASSUME IInv, op.pc \in {"archive", "delete"},
           UNCHANGED <<objects, headFile, up, head, branches>>,
           op'.pc \in {"archive", "delete"}, op'.doomed \subseteq op.doomed
    PROVE  IInv'
<1>1. HeadFileIntact' /\ RefsIntact' /\ HeadDescends'
    BY GrowingStore
<1>2. up /\ \A r \in Roots : \E K \in SUBSET Readable :
               /\ r \in K /\ Sound(K)
               /\ \A c \in K : OwnObjects(c) \cap op.doomed = {}
    BY DEF IInv, GcSpares
<1>3. \A r \in Roots : \E K \in SUBSET Readable :
         /\ r \in K /\ Sound(K)
         /\ \A c \in K : OwnObjects(c) \cap op'.doomed = {}
    BY <1>2
<1>4. GcSpares'
    BY <1>2, <1>3, SameStore, SparesNext
<1> QED
    BY <1>1, <1>4 DEF IInv, CallSound, Stages

\* Archiving an object, or failing to, keeps it.
LEMMA ArchiveStep ==
    ASSUME IInv, ArchiveOne \/ ArchiveErr
    PROVE  IInv'
<1>1. UNCHANGED <<objects, headFile, up, head, branches>> /\ op.pc = "archive"
    BY DEF ArchiveOne, ArchiveErr, disk, memory
<1>2. CASE ArchiveOne
    <2>1. op'.pc \in {"archive", "delete"} /\ op'.doomed = op.doomed
        BY <1>2 DEF ArchiveOne, GcCall
    <2> QED
        BY <1>1, <2>1, DoomedShrinks
<1>3. CASE ArchiveErr
    BY <1>1, <1>3, CallEnds DEF ArchiveErr
<1> QED
    BY <1>2, <1>3

\* Deleting an object keeps it: the mark phase found it unreachable.
LEMMA DeleteOneStep ==
    ASSUME IInv, DeleteOne
    PROVE  IInv'
<1>1. UNCHANGED <<headFile, up, head, branches>> /\ op.pc = "delete"
    BY DEF DeleteOne, memory
<1>2. PICK o \in op.doomed : objects' = objects \ {o} /\ op' = AfterDelete(o)
    BY DEF DeleteOne
<1>3. /\ HeadFileIntact' /\ RefsIntact' /\ HeadDescends'
      /\ \A r \in Roots : \E K \in SUBSET Readable' :
           /\ r \in K /\ Sound(K)'
           /\ \A c \in K : OwnObjects(c) \cap op.doomed = {}
    BY <1>1, <1>2, DoomedDelete
<1>4. CASE op.doomed = {o}
    <2>1. op'.pc = "idle"
        BY <1>2, <1>4 DEF AfterDelete, Idle
    <2> QED
        BY <1>1, <1>3, <2>1 DEF IInv, CallSound, GcSpares, Stages
<1>5. CASE op.doomed # {o}
    <2>1. op'.pc = "delete" /\ op'.doomed = op.doomed \ {o}
        BY <1>2, <1>5 DEF AfterDelete, GcCall
    <2>2. up'
        BY <1>1 DEF IInv, GcSpares
    <2>3. GcSpares'
        <3>1. \A r \in Roots : \E K \in SUBSET Readable' :
                 /\ r \in K /\ Sound(K)'
                 /\ \A c \in K : OwnObjects(c) \cap op'.doomed = {}
            BY <1>3, <2>1
        <3> QED
            BY <1>1, <2>2, <3>1, SparesNext
    <2> QED
        BY <1>1, <1>3, <2>1, <2>3 DEF IInv, CallSound, Stages
<1> QED
    BY <1>4, <1>5

\* A failing delete keeps it.
LEMMA DeleteErrStep ==
    ASSUME IInv, DeleteErr
    PROVE  IInv'
<1>1. UNCHANGED <<objects, headFile, up, head, branches>> /\ op.pc = "delete"
    BY DEF DeleteErr, disk, memory
<1>2. PICK o \in op.doomed : op' = AfterDelete(o)
    BY DEF DeleteErr
<1>3. CASE op.doomed = {o}
    BY <1>1, <1>2, <1>3, CallEnds DEF AfterDelete
<1>4. CASE op.doomed # {o}
    <2>1. op'.pc = "delete" /\ op'.doomed = op.doomed \ {o}
        BY <1>2, <1>4 DEF AfterDelete, GcCall
    <2> QED
        BY <1>1, <2>1, DoomedShrinks
<1> QED
    BY <1>3, <1>4

\* A failing write that is not torn ends the call and changes nothing else.
LEMMA WriteErrStep ==
    ASSUME IInv, ~TornWrites, PutErr \/ WriteHeadErr
    PROVE  IInv'
BY CallEnds DEF PutErr, WriteHeadErr, InterruptedPut, InterruptedHead, memory

\* A crash keeps it when writes are not torn.
LEMMA CrashStep ==
    ASSUME IInv, ~TornWrites, Crash
    PROVE  IInv'
<1>1. /\ UNCHANGED <<objects, headFile>>
      /\ up' = FALSE /\ head' = NoHead /\ branches' = NoBranches /\ op' = Idle
    BY DEF Crash, InterruptedPut, InterruptedHead
<1>2. HeadFileIntact'
    BY <1>1, IntactMonotone DEF IInv, HeadFileIntact
<1>3. RefsIntact' /\ branches' = [name \in BranchNames |-> branches'[name]]
    BY <1>1 DEF RefsIntact, NoBranches
<1>4. op'.pc = "idle"
    BY <1>1 DEF Idle
<1> QED
    BY <1>1, <1>2, <1>3, <1>4
       DEF IInv, HeadDescends, CallSound, GcSpares, Stages

\* Reopening keeps it.
LEMMA OpenStep ==
    ASSUME IInv, Open
    PROVE  IInv'
<1>1. /\ UNCHANGED <<objects, headFile, branches, op>>
      /\ ~up /\ up' /\ head' = headFile
    BY DEF Open, disk
<1>2. op.pc = "idle"
    BY <1>1 DEF IInv, CallSound, GcSpares, Stages
<1>3. \A d : Intact(d) => Intact(d)'
    BY <1>1, IntactMonotone
<1>4. HeadFileIntact' /\ RefsIntact'
    BY <1>1, <1>3 DEF IInv, HeadFileIntact, RefsIntact
<1>5. HeadDescends'
    BY <1>1 DEF HeadDescends, Descends
<1> QED
    BY <1>1, <1>2, <1>4, <1>5 DEF IInv, CallSound, GcSpares

\* Every step keeps it, without torn writes and merges of unlogged commits.
LEMMA NextIInv ==
    ASSUME ~TornWrites, ~AnyMerge, IInv, [Next]_vars
    PROVE  IInv'
<1>1. CASE UNCHANGED vars
    BY <1>1, Unaffected DEF vars, disk, memory
<1>2. ASSUME NEW pass \in Passes, NEW tf \in Tfs, NEW m \in Messages,
             Ingest(pass, tf, m) \/ CommitInteraction(pass, tf, m)
      PROVE  IInv'
    BY <1>2, IngestStep, CommitInteractionStep
<1>3. ASSUME NEW a \in Logged, NEW b \in Logged, Merge(a, b)
      PROVE  IInv'
    BY <1>3, Unaffected DEF Merge, disk
<1>4. ASSUME NEW a \in Logged, NEW b \in Logged, NEW m \in Messages,
             MergeCommit(a, b, m)
      PROVE  IInv'
    BY <1>4, MergeCommitStep
<1>10. ASSUME NEW c \in Logged, NEW ch \in Channels, Project(c, ch)
       PROVE  IInv'
    BY <1>10, Unaffected DEF Project, disk
<1>5. ASSUME NEW name \in BranchNames, NEW c \in Logged, SetBranch(name, c)
      PROVE  IInv'
    BY <1>5, SetBranchStep
<1>6. ASSUME NEW keep \in GcKeeps, NEW archiving \in BOOLEAN, Gc(keep, archiving)
      PROVE  IInv'
    BY <1>6, GcStep
<1>7. CASE PutTree \/ PutTf \/ PutCommit \/ WriteHead
    BY <1>7, PutTreeStep, PutTfStep, PutCommitStep, WriteHeadStep
<1>8. CASE ArchiveOne \/ ArchiveErr \/ DeleteOne \/ DeleteErr
    BY <1>8, ArchiveStep, DeleteOneStep, DeleteErrStep
<1>9. CASE PutErr \/ WriteHeadErr \/ Crash \/ Open
    BY <1>9, WriteErrStep, CrashStep, OpenStep
<1> QED
    BY <1>1, <1>2, <1>3, <1>4, <1>5, <1>6, <1>7, <1>8, <1>9,
       <1>10 DEF Next

\* The invariant that the four theorems below rest on.
THEOREM Inductive ==
    ASSUME ~TornWrites, ~AnyMerge
    PROVE  Spec => []IInv
<1>1. Init => IInv
    BY InitIInv
<1>2. IInv /\ [Next]_vars => IInv'
    BY NextIInv
<1> QED
    BY <1>1, <1>2, PTL DEF Spec

\* The history of the HEAD file can be read at every moment, through
\* crashes, failing calls, restarts and gc, for any number of commits,
\* channels and branches.
THEOREM HeadFileStaysIntact ==
    ASSUME ~TornWrites, ~AnyMerge
    PROVE  Spec => []HeadFileIntact
<1>1. IInv => HeadFileIntact
    BY DEF IInv
<1> QED
    BY <1>1, Inductive, PTL

\* What gc starts from can be read too: head and every branch.
THEOREM RefsStayIntact ==
    ASSUME ~TornWrites, ~AnyMerge
    PROVE  Spec => []RefsIntact
<1>1. IInv => RefsIntact
    BY DEF IInv
<1> QED
    BY <1>1, Inductive, PTL

\* The invariant gives that HEAD in memory reaches HEAD on disk.
LEMMA HeadReachesHeadFile ==
    IInv => HeadFileReached
BY DescendsReached DEF IInv, HeadDescends, RefsIntact, HeadFileReached

\* The persisted HEAD is the running head or one of its ancestors.
THEOREM HeadFileStaysReached ==
    ASSUME ~TornWrites, ~AnyMerge
    PROVE  Spec => []HeadFileReached
BY HeadReachesHeadFile, Inductive, PTL

\* The HEAD file only moves to descendants: no step drops history.
THEOREM HistoryIsKept ==
    ASSUME ~TornWrites, ~AnyMerge
    PROVE  Spec => HistoryKept
<1> DEFINE Kept == headFile # NoHead /\ headFile' # headFile
                     => headFile' # NoHead
                        /\ headFile \in Reached(CommitsIn(objects'), {headFile'})
<1>1. IInv /\ [Next]_vars => [Kept]_headFile
    <2>1. SUFFICES ASSUME IInv, [Next]_vars, headFile' # headFile,
                          headFile # NoHead
                   PROVE  Kept
        OBVIOUS
    <2>2. WriteHead
        BY <2>1 DEF Next, vars, disk, memory, Ingest, CommitInteraction, Merge,
             MergeCommit, Project, SetBranch, Gc, PutTree, PutTf, PutCommit, ArchiveOne,
             ArchiveErr, DeleteOne, DeleteErr, PutErr, WriteHeadErr, Crash,
             InterruptedHead, Open
    <2>3. up /\ headFile' = head /\ objects' = objects
        <3>1. op.pc = "head" /\ headFile' = op.commit /\ objects' = objects
            BY <2>2 DEF WriteHead
        <3>2. up /\ head = op.commit
            BY <2>1, <3>1 DEF IInv, CallSound
        <3> QED
            BY <3>1, <3>2
    <2>4. head # NoHead /\ headFile \in Reached(Readable, {head})
        BY <2>1, <2>3, HeadReachesHeadFile DEF HeadFileReached, IInv, HeadDescends
    <2> QED
        BY <2>3, <2>4 DEF Readable
<1> QED
    BY <1>1, Inductive, PTL DEF Spec, HistoryKept

-----------------------------------------------------------------------------
(* gc_to, for every kind of fault, torn writes and any merge included.     *)

\* Whatever gc_to still has to delete is archived or waits to be.
ArchivedFirst ==
    /\ op.pc = "archive" =>
         op.doomed \cap objects \subseteq archive \union op.pending
    /\ op.pc = "delete" =>
         (op.archiving => op.doomed \cap objects \subseteq archive)

\* Every step keeps what is still to be deleted archived first.
LEMMA NextArchivedFirst ==
    ASSUME ArchivedFirst, [Next]_vars
    PROVE  ArchivedFirst'
<1>1. ASSUME op'.pc \notin {"archive", "delete"}
      PROVE  ArchivedFirst'
    BY <1>1 DEF ArchivedFirst
<1>2. ASSUME UNCHANGED <<objects, archive, op>>
      PROVE  ArchivedFirst'
    BY <1>2 DEF ArchivedFirst
<1>3. op' = Idle => ArchivedFirst'
    BY <1>1 DEF Idle
<1>4. \A pc, c : pc \notin {"archive", "delete"} /\ op' = CommitCall(pc, c)
                   => ArchivedFirst'
    BY <1>1 DEF CommitCall
<1>5. \A c, chan : op' = TreeCall(c, chan) => ArchivedFirst'
    BY <1>1 DEF TreeCall
<1>6. ASSUME NEW keep, NEW archiving, Gc(keep, archiving)
      PROVE  ArchivedFirst'
    <2>1. PICK doomed : op' = IF archiving
                              THEN GcCall("archive", doomed, doomed, TRUE)
                              ELSE GcCall("delete", doomed, {}, FALSE)
        BY <1>6 DEF Gc
    <2> QED
        BY <2>1 DEF GcCall, ArchivedFirst
<1>7. CASE ArchiveOne
    <2>1. PICK o \in op.pending :
             /\ archive' = IF o \in objects THEN archive \union {o} ELSE archive
             /\ op' = GcCall(IF op.pending = {o} THEN "delete" ELSE "archive",
                             op.doomed, op.pending \ {o}, TRUE)
        BY <1>7 DEF ArchiveOne
    <2>2. op.doomed \cap objects \subseteq archive \union op.pending
        BY <1>7 DEF ArchiveOne, ArchivedFirst
    <2>3. op'.doomed = op.doomed /\ op'.pending = op.pending \ {o}
          /\ op'.pc = (IF op.pending = {o} THEN "delete" ELSE "archive")
        BY <2>1 DEF GcCall
    <2>4. op'.doomed \cap objects \subseteq archive' \union op'.pending
        BY <2>1, <2>2, <2>3
    <2>5. op'.pc = "delete" => op'.pending = {}
        BY <2>3
    <2>6. objects' = objects
        BY <1>7 DEF ArchiveOne
    <2> QED
        BY <2>4, <2>5, <2>6 DEF ArchivedFirst
<1>8. CASE DeleteOne \/ DeleteErr
    <2>1. PICK o \in op.doomed : op' = AfterDelete(o)
        BY <1>8 DEF DeleteOne, DeleteErr
    <2>2. objects' \subseteq objects /\ archive' = archive /\ op.pc = "delete"
        BY <1>8 DEF DeleteOne, DeleteErr, disk
    <2>3. CASE op.doomed = {o}
        BY <2>1, <2>3, <1>3 DEF AfterDelete
    <2>4. CASE op.doomed # {o}
        <3>1. /\ op'.pc = "delete" /\ op'.doomed = op.doomed \ {o}
              /\ op'.archiving = op.archiving
            BY <2>1, <2>4 DEF AfterDelete, GcCall
        <3> QED
            BY <2>2, <3>1 DEF ArchivedFirst
    <2> QED
        BY <2>3, <2>4
<1>9. CASE UNCHANGED vars
    BY <1>2, <1>9 DEF vars, disk
<1>10. ASSUME NEW pass, NEW tf, NEW m,
              Ingest(pass, tf, m) \/ CommitInteraction(pass, tf, m)
       PROVE  ArchivedFirst'
    BY <1>10, <1>2, <1>5 DEF Ingest, CommitInteraction, Begin, disk
<1>11. ASSUME NEW a, NEW b, NEW m, Merge(a, b) \/ MergeCommit(a, b, m)
       PROVE  ArchivedFirst'
    BY <1>11, <1>2, <1>5 DEF Merge, MergeCommit, Begin, disk
<1>12. ASSUME NEW name, NEW c, NEW ch, SetBranch(name, c) \/ Project(c, ch)
       PROVE  ArchivedFirst'
    BY <1>12, <1>2 DEF SetBranch, Project, disk
<1>13. CASE PutTree
    BY <1>13, <1>4, <1>5 DEF PutTree, AfterTree
<1>14. CASE PutTf \/ PutCommit \/ WriteHead
    BY <1>14, <1>3, <1>4 DEF PutTf, PutCommit, WriteHead
<1>15. CASE ArchiveErr \/ PutErr \/ WriteHeadErr \/ Crash
    BY <1>15, <1>3 DEF ArchiveErr, PutErr, WriteHeadErr, Crash
<1>16. CASE Open
    BY <1>16, <1>2 DEF Open, disk
<1> QED
    BY <1>6, <1>7, <1>8, <1>9, <1>10, <1>11, <1>12, <1>13, <1>14, <1>15, <1>16
       DEF Next

\* gc_to loses no readable object: each is in the archive before it goes.
THEOREM NothingForgotten ==
    Spec => NeverForgotten
<1>1. Init => ArchivedFirst
    BY DEF Init, Idle, ArchivedFirst
<1>2. ArchivedFirst /\ [Next]_vars => ArchivedFirst'
    BY NextArchivedFirst
<1> DEFINE Kept == op.pc = "delete" =>
                     (op.archiving => objects \ objects' \subseteq archive)
<1>3. ArchivedFirst /\ [Next]_vars => [Kept]_vars
    <2>1. SUFFICES ASSUME ArchivedFirst, Next, op.pc = "delete", op.archiving,
                          NEW o \in objects, o \notin objects'
                   PROVE  o \in archive
        OBVIOUS
    <2>2. Writing = {}
        BY <2>1 DEF Writing
    <2>3. ~PutErr /\ ~Crash
        BY <2>1, <2>2 DEF PutErr, Crash, InterruptedPut
    <2>4. DeleteOne
        BY <2>1, <2>3 DEF Next, disk, memory, Ingest, CommitInteraction, Merge,
             MergeCommit, Project, SetBranch, Gc, MayCommit, Ready, Idle, PutTree, PutTf,
             PutCommit, WriteHead, ArchiveOne, ArchiveErr, DeleteErr,
             WriteHeadErr, Open
    <2>5. o \in op.doomed
        BY <2>1, <2>4 DEF DeleteOne
    <2> QED
        BY <2>1, <2>5 DEF ArchivedFirst
<1> QED
    BY <1>1, <1>2, <1>3, PTL DEF Spec, NeverForgotten


-----------------------------------------------------------------------------
(* A commit heals what an interrupted one left torn, whatever the faults.  *)

\* The call in progress has put what its stage says.
PutSoFar ==
    /\ op.pc = "tree" =>
         /\ op.chan \in Channels
         /\ \A ch \in 1..(op.chan - 1) : op.commit.trees[ch] \in objects
    /\ op.pc \in {"tf", "commit"} => TreesOf(op.commit) \subseteq objects
    /\ op.pc = "commit" => op.commit.tf \in objects
    /\ op.pc = "head" => OwnObjects(op.commit) \subseteq objects

\* Every step leaves the call with what its stage says it has put.
LEMMA NextPutSoFar ==
    ASSUME PutSoFar, [Next]_vars
    PROVE  PutSoFar'
<1>1. ASSUME op'.pc \notin Committing
      PROVE  PutSoFar'
    BY <1>1 DEF PutSoFar, Committing
<1>2. ASSUME UNCHANGED <<objects, op>>
      PROVE  PutSoFar'
    BY <1>2 DEF PutSoFar
<1>3. op' = Idle => PutSoFar'
    BY <1>1 DEF Idle, Committing
<1>4. \A pc, d, p, a : pc \in {"archive", "delete"} /\ op' = GcCall(pc, d, p, a) => PutSoFar'
    BY <1>1 DEF GcCall, Committing
<1>5. ASSUME NEW c, op' = TreeCall(c, 1)
      PROVE  PutSoFar'
    BY <1>5, ConstantsAssumption DEF TreeCall, PutSoFar, Channels
<1>6. CASE PutTree
    <2>1. /\ op.pc = "tree" /\ op' = AfterTree /\ objects' = objects \union {op.commit.trees[op.chan]}
          /\ op.chan \in Channels /\ \A ch \in 1..(op.chan - 1) : op.commit.trees[ch] \in objects
        BY <1>6 DEF PutTree, Put, PutSoFar
    <2>2. \A ch \in 1..op.chan : op.commit.trees[ch] \in objects'
        <3> TAKE ch \in 1..op.chan
        <3>1. ch = op.chan \/ ch \in 1..(op.chan - 1)
            BY <2>1 DEF Channels
        <3> QED BY <2>1, <3>1
    <2>3. CASE op.chan < NChannels
        <3>1. op'.pc = "tree" /\ op'.commit = op.commit /\ op'.chan = op.chan + 1
            BY <2>1, <2>3 DEF AfterTree, TreeCall
        <3>2. op.chan + 1 \in Channels /\ (op.chan + 1) - 1 = op.chan
            BY <2>1, <2>3, ConstantsAssumption DEF Channels
        <3> QED BY <2>2, <3>1, <3>2 DEF PutSoFar
    <2>4. CASE ~(op.chan < NChannels)
        <3>1. op'.pc = "tf" /\ op'.commit = op.commit
            BY <2>1, <2>4 DEF AfterTree, CommitCall
        <3>2. op.chan = NChannels
            BY <2>1, <2>4, ConstantsAssumption DEF Channels
        <3>3. TreesOf(op.commit) \subseteq objects'
            BY <2>2, <3>2 DEF TreesOf, Channels
        <3> QED BY <3>1, <3>3 DEF PutSoFar
    <2> QED BY <2>3, <2>4
<1>7. CASE PutTf
    <2>1. op'.pc = "commit" /\ op'.commit = op.commit /\ objects' = objects \union {op.commit.tf}
          /\ TreesOf(op.commit) \subseteq objects
        BY <1>7 DEF PutTf, Put, CommitCall, PutSoFar
    <2> QED BY <2>1 DEF PutSoFar
<1>8. CASE PutCommit
    <2>1. op'.pc = "head" /\ op'.commit = op.commit /\ objects' = objects \union {op.commit}
          /\ TreesOf(op.commit) \subseteq objects /\ op.commit.tf \in objects
        BY <1>8 DEF PutCommit, Put, CommitCall, PutSoFar
    <2> QED BY <2>1 DEF PutSoFar, OwnObjects
<1>9. CASE UNCHANGED vars
    BY <1>2, <1>9 DEF vars, disk
<1>10. ASSUME NEW pass, NEW tf, NEW m, Ingest(pass, tf, m) \/ CommitInteraction(pass, tf, m)
       PROVE  PutSoFar'
    BY <1>10, <1>2, <1>5 DEF Ingest, CommitInteraction, Begin, disk
<1>11. ASSUME NEW a, NEW b, NEW m, Merge(a, b) \/ MergeCommit(a, b, m)
       PROVE  PutSoFar'
    BY <1>11, <1>2, <1>5 DEF Merge, MergeCommit, Begin, disk
<1>12. ASSUME NEW name, NEW c, NEW ch, SetBranch(name, c) \/ Project(c, ch)
       PROVE  PutSoFar'
    BY <1>12, <1>2 DEF SetBranch, Project, disk
<1>13. ASSUME NEW keep, NEW archiving, Gc(keep, archiving)
       PROVE  PutSoFar'
    BY <1>13, <1>4 DEF Gc
<1>14. CASE ArchiveOne \/ DeleteOne \/ DeleteErr
    BY <1>14, <1>3, <1>4 DEF ArchiveOne, DeleteOne, DeleteErr, AfterDelete
<1>15. CASE WriteHead \/ ArchiveErr \/ PutErr \/ WriteHeadErr \/ Crash
    BY <1>15, <1>3 DEF WriteHead, ArchiveErr, PutErr, WriteHeadErr, Crash
<1>16. CASE Open
    BY <1>16, <1>2 DEF Open, disk
<1> QED
    BY <1>6, <1>7, <1>8, <1>9, <1>10, <1>11, <1>12, <1>13, <1>14, <1>15, <1>16 DEF Next

\* A commit about to become HEAD can be read with all it names, also when an
\* interrupted call had left one of its files torn: with torn writes and any
\* merge included.
THEOREM CommitsHeal == Spec => []CommitHeals
<1>1. Init => PutSoFar
    BY DEF Init, Idle, PutSoFar
<1>2. PutSoFar /\ [Next]_vars => PutSoFar'
    BY NextPutSoFar
<1>3. PutSoFar => CommitHeals
    BY DEF PutSoFar, CommitHeals
<1> QED
    BY <1>1, <1>2, <1>3, PTL DEF Spec

-----------------------------------------------------------------------------
(* gc under torn writes: no commit that a reference needs is ever torn,    *)
(* because a commit is written before it is referenced and, its parents    *)
(* being part of it, never again.                                          *)

\* The commits among the files, readable or torn.
Commits == CommitsIn(Files)

\* What a restart or a gc can start from.
Refs == (Roots \union {headFile}) \ {NoHead}

\* A referenced commit that a walk through the files meets can be read.
TornUnneeded == Reached(Commits, Refs) \subseteq Readable

\* A reference is not younger than head (with merges that include HEAD).
NotYounger(r, rank) == AnyMerge \/ rank[r] <= rank[head]

\* No commit is its own ancestor: rank grows from parents to children over
\* every commit that was ever written and may be written again.
Ranked(K, rank) ==
    /\ Commits \subseteq K
    /\ \A c \in K : rank[c] \in Nat /\ Parents(c) \subseteq K /\ \A p \in Parents(c) : rank[p] < rank[c]
    /\ op.pc \in Committing => op.commit \in K
    /\ head # NoHead => head \in K
    /\ headFile # NoHead => headFile \in K
    /\ up /\ headFile # NoHead => head # NoHead /\ NotYounger(headFile, rank)
    /\ \A name \in BranchNames : branches[name] # NoHead =>
          head # NoHead /\ branches[name] \in K /\ NotYounger(branches[name], rank)

\* The commit in progress goes on top of head and of needed commits.
CallOnTop ==
    op.pc \in {"tree", "tf", "commit"} =>
        /\ ~AnyMerge /\ head # NoHead => head \in Parents(op.commit)
        /\ Parents(op.commit) \cap Commits \subseteq Reached(Commits, Refs)

HeadIsPut == op.pc = "head" => head = op.commit

\* What gc is about to delete is not needed.
DoomedUnneeded ==
    op.pc \in {"archive", "delete"} => op.doomed \cap NeededFiles = {}

GcInv ==
    (\E K, rank : Ranked(K, rank)) /\ TornUnneeded /\ CallOnTop /\ HeadIsPut /\ DoomedUnneeded

\* Reached is the least set that contains the roots and is closed.
LEMMA ReachedLeast ==
    ASSUME NEW U, NEW roots
    PROVE  /\ Reached(U, roots) \subseteq U /\ roots \cap U \subseteq Reached(U, roots)
           /\ ClosedIn(Reached(U, roots), U)
           /\ \A K : roots \cap U \subseteq K /\ (\A c \in K \cap U : Parents(c) \cap U \subseteq K)
                        => Reached(U, roots) \subseteq K
<1>1. Reached(U, roots) \subseteq U /\ roots \cap U \subseteq Reached(U, roots)
    BY DEF Reached
<1>2. ClosedIn(Reached(U, roots), U)
    BY DEF Reached, ClosedIn
<1>3. ASSUME NEW K, roots \cap U \subseteq K, \A c \in K \cap U : Parents(c) \cap U \subseteq K
      PROVE  Reached(U, roots) \subseteq K
    <2> DEFINE J == K \cap U
    <2>1. J \in SUBSET U /\ roots \cap U \subseteq J /\ ClosedIn(J, U)
        BY <1>3 DEF ClosedIn
    <2> HIDE DEF J
    <2>2. Reached(U, roots) \subseteq J
        BY <2>1 DEF Reached
    <2> QED BY <2>2 DEF J
<1> QED
    BY <1>1, <1>2, <1>3

\* More files and more roots reach more.
LEMMA ReachedMore ==
    ASSUME NEW U, NEW V, U \subseteq V, NEW roots, NEW more, roots \subseteq more
    PROVE  Reached(U, roots) \subseteq Reached(V, more)
<1>1. more \cap V \subseteq Reached(V, more) /\ ClosedIn(Reached(V, more), V)
    BY ReachedLeast
<1>2. roots \cap U \subseteq Reached(V, more)
    BY <1>1
<1>3. \A c \in Reached(V, more) \cap U : Parents(c) \cap U \subseteq Reached(V, more)
    BY <1>1 DEF ClosedIn
<1> QED
    BY <1>2, <1>3, ReachedLeast

\* Roots that are reached already reach no more.
LEMMA ReachedSame ==
    ASSUME NEW U, NEW roots, NEW other, other \cap U \subseteq Reached(U, roots)
    PROVE  Reached(U, other) \subseteq Reached(U, roots)
<1>1. ClosedIn(Reached(U, roots), U)
    BY ReachedLeast
<1>2. \A c \in Reached(U, roots) \cap U : Parents(c) \cap U \subseteq Reached(U, roots)
    BY <1>1 DEF ClosedIn
<1> QED
    BY <1>2, ReachedLeast

\* A walk that meets readable commits only is the same among all the files.
LEMMA ReachedReadable ==
    ASSUME NEW U, NEW V \in SUBSET U, NEW roots, Reached(U, roots) \subseteq V
    PROVE  Reached(U, roots) \subseteq Reached(V, roots)
<1> DEFINE K == Reached(U, roots) \cap Reached(V, roots)
<1>1. /\ roots \cap U \subseteq Reached(U, roots) /\ ClosedIn(Reached(U, roots), U)
      /\ roots \cap V \subseteq Reached(V, roots) /\ ClosedIn(Reached(V, roots), V)
    BY ReachedLeast
<1>2. roots \cap U \subseteq K
    BY <1>1
<1>3. \A c \in K \cap U : Parents(c) \cap U \subseteq K
    BY <1>1 DEF ClosedIn
<1>4. Reached(U, roots) \subseteq K
    <2> HIDE DEF K
    <2> QED BY <1>2, <1>3, ReachedLeast
<1> QED
    BY <1>4

\* Whatever a reference needs is not younger than head.
LEMMA NeededNotYounger ==
    ASSUME ~AnyMerge, NEW K, NEW rank, Ranked(K, rank), up, head # NoHead,
           NEW c \in Reached(Commits, Refs)
    PROVE  c \in K /\ rank[c] <= rank[head]
<1> DEFINE D == {x \in K : rank[x] <= rank[head]}
<1>1. Refs \cap Commits \subseteq D
    BY DEF Refs, Roots, Ranked, NotYounger
<1>2. \A x \in D \cap Commits : Parents(x) \cap Commits \subseteq D
    BY DEF Ranked
<1>3. Reached(Commits, Refs) \subseteq D
    <2> HIDE DEF D
    <2> QED BY <1>1, <1>2, ReachedLeast
<1> QED
    BY <1>3

\* What the walks of log() and merge_commit meet is needed.
LEMMA LoggedNeeded ==
    ASSUME NEW c \in Logged
    PROVE  c \in Reached(Commits, Refs) /\ head # NoHead
<1>1. head # NoHead /\ c \in Reached(Readable, {head})
    BY DEF Logged, Log
<1>2. Readable \subseteq Commits /\ {head} \subseteq Refs
    BY <1>1 DEF Readable, Commits, CommitsIn, Files, Refs, Roots
<1> QED
    BY <1>1, <1>2, ReachedMore

\* A new commit on ranked parents has a rank.
LEMMA RankNew ==
    ASSUME NEW K, NEW rank, Ranked(K, rank), NEW c, Parents(c) \subseteq K,
           NEW n \in Nat, \A p \in Parents(c) : rank[p] < n
    PROVE  \E L, r : /\ Ranked(L, r) /\ c \in L
<1>1. CASE c \in K
    BY <1>1
<1>2. CASE c \notin K
    <2> DEFINE L == K \union {c}
               r == [x \in L |-> IF x \in K THEN rank[x] ELSE n]
    <2>1. c \in L /\ K \subseteq L /\ \A x \in K : r[x] = rank[x]
        OBVIOUS
    <2>2. r[c] = n
        BY <1>2
    <2> HIDE DEF r
    <2>3. \A x \in L : r[x] \in Nat /\ Parents(x) \subseteq L /\ \A p \in Parents(x) : r[p] < r[x]
        BY <2>1, <2>2 DEF Ranked
    <2> HIDE DEF L
    <2>4. Ranked(L, r)
        BY <2>1, <2>3 DEF Ranked, NotYounger
    <2> QED BY <2>1, <2>4
<1> QED
    BY <1>1, <1>2

\* The ranks of a step that refers to nothing new.
LEMMA RankKept ==
    ASSUME NEW K, NEW rank, Ranked(K, rank), Commits' \subseteq K,
           UNCHANGED <<up, head, branches>>,
           headFile' \in {headFile, NoHead} \/ (up /\ headFile' = head),
           op'.pc \in Committing => op'.commit \in K
    PROVE  Ranked(K, rank)'
BY DEF Ranked, NotYounger

\* What the references need, when neither they nor the commits change.
LEMMA SameNeeds ==
    ASSUME Commits' = Commits, UNCHANGED <<head, branches>>
    PROVE  /\ Reached(Commits, Roots)' = Reached(Commits, Roots)
           /\ NeededFiles' = NeededFiles
           /\ headFile' \in {headFile, NoHead, head} =>
                 Refs' \subseteq Refs /\ Reached(Commits, Refs)' \subseteq Reached(Commits, Refs)
           /\ headFile' = headFile => Reached(Commits, Refs)' = Reached(Commits, Refs)
<1>1. Roots' = Roots
    BY DEF Roots
<1>2. Reached(Commits, Roots)' = Reached(Commits, Roots)
    BY <1>1 DEF Reached, ClosedIn
<1>3. NeededFiles' = NeededFiles
    BY <1>1 DEF NeededFiles, Commits, Reached, ClosedIn
<1>4. ASSUME headFile' \in {headFile, NoHead, head}
      PROVE  Refs' \subseteq Refs /\ Reached(Commits, Refs)' \subseteq Reached(Commits, Refs)
    <2>1. Refs' \subseteq Refs
        BY <1>1, <1>4 DEF Refs, Roots
    <2>2. Reached(Commits, Refs)' = Reached(Commits, Refs')
        BY DEF Reached, ClosedIn
    <2> QED BY <2>1, <2>2, ReachedMore
<1>5. ASSUME headFile' = headFile
      PROVE  Reached(Commits, Refs)' = Reached(Commits, Refs)
    <2>1. Refs' = Refs
        BY <1>1, <1>5 DEF Refs
    <2> QED BY <2>1 DEF Reached, ClosedIn
<1> QED
    BY <1>2, <1>3, <1>4, <1>5

\* The call ends and the commits are as they were.
LEMMA GcIdle ==
    ASSUME GcInv, op'.pc = "idle", Commits' = Commits, Readable' = Readable,
           UNCHANGED <<up, head, branches>>,
           headFile' \in {headFile, NoHead} \/ (up /\ headFile' = head)
    PROVE  GcInv'
<1>1. PICK K, rank : Ranked(K, rank)
    BY DEF GcInv
<1>2. Ranked(K, rank)'
    BY <1>1, RankKept DEF Ranked, Committing
<1>3. TornUnneeded'
    BY SameNeeds DEF GcInv, TornUnneeded
<1> QED
    BY <1>2, <1>3 DEF GcInv, CallOnTop, HeadIsPut, DoomedUnneeded

\* The call goes on and the commits are as they were.
LEMMA GcGoesOn ==
    ASSUME GcInv, Commits' = Commits, Readable' = Readable,
           UNCHANGED <<up, head, branches, headFile>>,
           \/ UNCHANGED op
           \/ /\ op.pc \in {"tree", "tf"} /\ op'.pc \in {"tree", "tf", "commit"}
              /\ op'.commit = op.commit
           \/ /\ op.pc \in {"archive", "delete"} /\ op'.pc \in {"archive", "delete"}
              /\ op'.doomed \subseteq op.doomed
    PROVE  GcInv'
<1>1. PICK K, rank : Ranked(K, rank)
    BY DEF GcInv
<1>2. op'.pc \in Committing => op.pc \in Committing /\ op'.commit = op.commit
    BY DEF Committing
<1>3. Ranked(K, rank)'
    BY <1>1, <1>2, RankKept DEF Ranked
<1>4. TornUnneeded'
    BY SameNeeds DEF GcInv, TornUnneeded
<1>5. CallOnTop' /\ HeadIsPut'
    BY SameNeeds DEF GcInv, CallOnTop, HeadIsPut
<1>6. DoomedUnneeded'
    BY SameNeeds DEF GcInv, DoomedUnneeded
<1> QED
    BY <1>3, <1>4, <1>5, <1>6 DEF GcInv

\* A commit call begins on head and on needed commits.
LEMMA GcBegin ==
    ASSUME GcInv, op = Idle, UNCHANGED <<disk, up, head, branches>>,
           NEW c, op' = TreeCall(c, 1),
           ~AnyMerge /\ head # NoHead => head \in Parents(c),
           Parents(c) \subseteq Reached(Commits, Refs) \union ({head} \ {NoHead}),
           NEW a, NEW b, Parents(c) \subseteq {a, b}
    PROVE  GcInv'
<1>1. PICK K, rank : Ranked(K, rank)
    BY DEF GcInv
<1>2. Commits' = Commits /\ Readable' = Readable /\ op'.pc = "tree" /\ op'.commit = c
    BY DEF disk, Commits, Readable, CommitsIn, Files, TreeCall
<1>3. Parents(c) \subseteq K
    <2>1. Reached(Commits, Refs) \subseteq Commits
        BY ReachedLeast
    <2> QED BY <1>1, <2>1 DEF Ranked
<1>4. PICK n \in Nat : \A p \in Parents(c) : rank[p] < n
    <2>1. \A p \in Parents(c) : rank[p] \in Nat
        BY <1>1, <1>3 DEF Ranked
    <2>2. ASSUME NEW p, Parents(c) \subseteq {p} PROVE \E n \in Nat : \A q \in Parents(c) : rank[q] < n
        <3>1. CASE p \in Parents(c)
            <4> DEFINE n == rank[p] + 1
            <4>1. n \in Nat /\ rank[p] < n
                BY <2>1, <3>1
            <4> HIDE DEF n
            <4> QED BY <2>2, <4>1
        <3>2. CASE p \notin Parents(c)
            BY <2>2, <3>2
        <3> QED BY <3>1, <3>2
    <2>3. CASE a \in Parents(c) /\ b \in Parents(c)
        <3>1. rank[a] \in Nat /\ rank[b] \in Nat
            BY <2>1, <2>3
        <3>2. rank[a] + rank[b] + 1 \in Nat /\ rank[a] < rank[a] + rank[b] + 1
              /\ rank[b] < rank[a] + rank[b] + 1
            BY <3>1
        <3> DEFINE n == rank[a] + rank[b] + 1
        <3>3. n \in Nat /\ \A q \in Parents(c) : rank[q] < n
            BY <3>2
        <3> HIDE DEF n
        <3> QED BY <3>3
    <2>4. CASE a \notin Parents(c)
        <3>1. Parents(c) \subseteq {b}
            BY <2>4
        <3> QED BY <2>2, <3>1
    <2>5. CASE b \notin Parents(c)
        <3>1. Parents(c) \subseteq {a}
            BY <2>5
        <3> QED BY <2>2, <3>1
    <2> QED BY <2>3, <2>4, <2>5
<1>5. PICK L, r : Ranked(L, r) /\ c \in L
    BY <1>1, <1>3, <1>4, RankNew
<1>6. Ranked(L, r)'
    BY <1>2, <1>5, RankKept DEF disk, Ranked
<1>7. /\ Reached(Commits, Refs)' = Reached(Commits, Refs)
    BY <1>2, SameNeeds DEF disk
<1>8. TornUnneeded'
    BY <1>2, <1>7 DEF GcInv, TornUnneeded
<1>9. Parents(c) \cap Commits \subseteq Reached(Commits, Refs)
    <2>1. Refs \cap Commits \subseteq Reached(Commits, Refs)
        BY ReachedLeast
    <2> QED BY <2>1 DEF Refs, Roots
<1>10. CallOnTop'
    BY <1>2, <1>7, <1>9 DEF CallOnTop
<1> QED
    BY <1>2, <1>6, <1>8, <1>10 DEF GcInv, HeadIsPut, DoomedUnneeded

\* The commit object is written and becomes head.
LEMMA GcPutCommit ==
    ASSUME TypeOK, GcInv, PutCommit
    PROVE  GcInv'
<1> DEFINE c == op.commit
<1>1. /\ op.pc = "commit" /\ IsCommit(c) /\ up
      /\ objects' = objects \union {c} /\ torn' = torn \ {c} /\ head' = c
      /\ op'.pc = "head" /\ op'.commit = c /\ UNCHANGED <<headFile, up, branches>>
    BY DEF PutCommit, Put, CommitCall, TypeOK, Idle
<1>2. Commits' = Commits \union {c} /\ Readable' = Readable \union {c}
    BY <1>1 DEF Commits, Readable, CommitsIn, Files, IsCommit
<1>3. c # NoHead
    BY <1>1 DEF IsCommit, NoHead
<1>4. PICK K, rank : Ranked(K, rank)
    BY DEF GcInv
<1>5. /\ c \in K /\ rank[c] \in Nat /\ (~AnyMerge /\ head # NoHead => rank[head] < rank[c])
      /\ head # NoHead => rank[head] \in Nat
    BY <1>1, <1>4 DEF Ranked, Committing, GcInv, CallOnTop
<1>6. Ranked(K, rank)'
    <2>1. ASSUME NEW h \in K, head # NoHead, NotYounger(h, rank)
          PROVE  AnyMerge \/ rank[h] <= rank[c]
        <3>1. rank[h] \in Nat
            BY <1>4 DEF Ranked
        <3> QED BY <1>5, <2>1, <3>1 DEF NotYounger
    <2> HIDE DEF c
    <2>2. Commits' \subseteq K
        BY <1>2, <1>4, <1>5 DEF Ranked
    <2>3. headFile # NoHead => headFile \in K /\ (AnyMerge \/ rank[headFile] <= rank[c])
        BY <1>1, <1>4, <2>1 DEF Ranked
    <2>4. \A name \in BranchNames : branches[name] # NoHead =>
             branches[name] \in K /\ (AnyMerge \/ rank[branches[name]] <= rank[c])
        <3> TAKE name \in BranchNames
        <3> DEFINE h == branches[name]
        <3>1. h # NoHead => head # NoHead /\ h \in K /\ NotYounger(h, rank)
            BY <1>4 DEF Ranked
        <3> HIDE DEF h
        <3>2. h # NoHead => h \in K /\ (AnyMerge \/ rank[h] <= rank[c])
            BY <2>1, <3>1
        <3> QED BY <3>2 DEF h
    <2>5. \A x \in K : rank[x] \in Nat /\ Parents(x) \subseteq K /\ \A p \in Parents(x) : rank[p] < rank[x]
        BY <1>4 DEF Ranked
    <2> QED BY <1>1, <1>3, <1>5, <2>2, <2>3, <2>4, <2>5 DEF Ranked, NotYounger
<1>7. TornUnneeded'
    <2> DEFINE R == Reached(Commits, Refs)
               N == R \union {c}
    <2>1. /\ R \subseteq Commits /\ Refs \cap Commits \subseteq R /\ ClosedIn(R, Commits)
          /\ R \subseteq Readable
        BY ReachedLeast DEF GcInv, TornUnneeded
    <2>2. Parents(c) \cap Commits \subseteq R
        BY <1>1 DEF GcInv, CallOnTop
    <2>3. Refs' \subseteq Refs \union {c}
        BY <1>1 DEF Refs, Roots
    <2> HIDE DEF c, R
    <2>4. Refs' \cap Commits' \subseteq N
        BY <1>2, <2>1, <2>3
    <2>5. \A x \in N \cap Commits' : Parents(x) \cap Commits' \subseteq N
        BY <1>2, <2>1, <2>2 DEF ClosedIn
    <2> HIDE DEF N
    <2>6. Reached(Commits', Refs') \subseteq N
        BY <2>4, <2>5, ReachedLeast
    <2>7. Reached(Commits, Refs)' = Reached(Commits', Refs')
        BY DEF Reached, ClosedIn
    <2> QED BY <1>2, <2>1, <2>6, <2>7 DEF N, TornUnneeded
<1> QED
    BY <1>1, <1>6, <1>7 DEF GcInv, CallOnTop, HeadIsPut, DoomedUnneeded

\* gc deletes a file: less is reached from the same references.
LEMMA GcDeletes ==
    ASSUME GcInv, DeleteOne
    PROVE  GcInv'
<1>1. /\ op.pc = "delete" /\ UNCHANGED <<headFile, up, head, branches>>
      /\ \E o \in op.doomed : objects' = objects \ {o} /\ torn' = torn \ {o} /\ op' = AfterDelete(o)
    BY DEF DeleteOne, memory
<1>2. PICK o \in op.doomed : objects' = objects \ {o} /\ torn' = torn \ {o} /\ op' = AfterDelete(o)
    BY <1>1
<1>3. Commits' = Commits \ {o} /\ Readable' = Readable \ {o} /\ Files' = Files \ {o}
    BY <1>2 DEF Commits, Readable, CommitsIn, Files
<1>4. Roots' = Roots /\ Refs' = Refs
    BY <1>1 DEF Refs, Roots
<1>5. /\ Reached(Commits, Refs)' = Reached(Commits', Refs)
      /\ Reached(CommitsIn(Files), Roots)' = Reached(Commits', Roots)
    BY <1>4 DEF Reached, ClosedIn, Commits
<1>6. Reached(Commits', Refs) \subseteq Reached(Commits, Refs)
      /\ Reached(Commits', Roots) \subseteq Reached(Commits, Roots)
    BY <1>3, ReachedMore
<1>7. PICK K, rank : Ranked(K, rank)
    BY DEF GcInv
<1>8. CASE op.doomed = {o}
    <2>1. op'.pc = "idle"
        BY <1>2, <1>8 DEF AfterDelete, Idle
    <2>2. Ranked(K, rank)'
        BY <1>1, <1>3, <1>7, <2>1, RankKept DEF Ranked, Committing
    <2>3. TornUnneeded'
        <3>1. Reached(Commits', Refs) \subseteq Commits'
            BY ReachedLeast
        <3> QED BY <1>3, <1>5, <1>6, <3>1 DEF GcInv, TornUnneeded
    <2> QED BY <2>1, <2>2, <2>3 DEF GcInv, CallOnTop, HeadIsPut, DoomedUnneeded
<1>9. CASE op.doomed # {o}
    <2>1. op'.pc = "delete" /\ op'.doomed = op.doomed \ {o}
        BY <1>2, <1>9 DEF AfterDelete, GcCall
    <2>2. Ranked(K, rank)'
        BY <1>1, <1>3, <1>7, <2>1, RankKept DEF Ranked, Committing
    <2>3. TornUnneeded'
        <3>1. Reached(Commits', Refs) \subseteq Commits'
            BY ReachedLeast
        <3> QED BY <1>3, <1>5, <1>6, <3>1 DEF GcInv, TornUnneeded
    <2>4. NeededFiles' \subseteq NeededFiles
        BY <1>5, <1>6 DEF NeededFiles, Commits
    <2>5. DoomedUnneeded'
        BY <1>1, <2>1, <2>4 DEF GcInv, DoomedUnneeded
    <2> QED BY <2>1, <2>2, <2>3, <2>5 DEF GcInv, CallOnTop, HeadIsPut
<1> QED
    BY <1>8, <1>9

\* The mark has all that the references need, so the doomed are not needed.
LEMMA GcMarks ==
    ASSUME GcInv, NEW keep, NEW archiving, Gc(keep, archiving)
    PROVE  GcInv'
<1> DEFINE doomed == Files \ Mark(Roots \union keep)
<1>1. UNCHANGED <<disk, memory>> /\ op = Idle
      /\ op' = IF archiving THEN GcCall("archive", doomed, doomed, TRUE)
               ELSE GcCall("delete", doomed, {}, FALSE)
    BY DEF Gc, Ready
<1>2. op'.doomed = doomed /\ op'.pc \in {"archive", "delete"}
    BY <1>1 DEF GcCall
<1>3. Commits' = Commits /\ Readable' = Readable /\ UNCHANGED <<up, head, branches, headFile>>
    BY <1>1 DEF disk, memory, Commits, Readable, CommitsIn, Files
<1>4. PICK K, rank : Ranked(K, rank)
    BY DEF GcInv
<1>5. Ranked(K, rank)'
    BY <1>2, <1>3, <1>4, RankKept DEF Ranked, Committing
<1>6. TornUnneeded'
    BY <1>3, SameNeeds DEF GcInv, TornUnneeded
<1>7. Reached(Commits, Roots) \subseteq Reached(Readable, Roots \union keep)
    <2>1. Roots \subseteq Refs /\ Roots \subseteq Roots \union keep
        BY DEF Refs, Roots
    <2>2. Readable \in SUBSET Commits
        BY DEF Readable, Commits, CommitsIn, Files
    <2>3. Reached(Commits, Roots) \subseteq Readable
        BY <2>1, ReachedMore DEF GcInv, TornUnneeded
    <2>4. Reached(Commits, Roots) \subseteq Reached(Readable, Roots)
        BY <2>2, <2>3, ReachedReadable
    <2> QED BY <2>1, <2>4, ReachedMore
<1>8. doomed \cap NeededFiles = {}
    <2> SUFFICES ASSUME NEW c \in Reached(Commits, Roots), NEW o \in OwnObjects(c)
                 PROVE  o \in Mark(Roots \union keep)
        BY DEF NeededFiles, Commits
    <2> QED BY <1>7 DEF Mark
<1>9. DoomedUnneeded'
    BY <1>2, <1>3, <1>8, SameNeeds DEF DoomedUnneeded
<1> QED
    BY <1>2, <1>5, <1>6, <1>9 DEF GcInv, CallOnTop, HeadIsPut

\* set_branch keeps the invariant of collection.
LEMMA GcSetsBranch ==
    ASSUME TypeOK, GcInv, NEW name \in BranchNames, NEW c \in Logged, SetBranch(name, c)
    PROVE  GcInv'
<1>1. /\ op = Idle /\ op' = Idle /\ up /\ UNCHANGED <<disk, up, head, headFile>>
      /\ branches' = [branches EXCEPT ![name] = c] /\ DOMAIN branches = BranchNames
    BY DEF SetBranch, Ready, TypeOK, disk
<1>2. Commits' = Commits /\ Readable' = Readable /\ op'.pc = "idle"
    BY <1>1 DEF disk, Commits, Readable, CommitsIn, Files, Idle
<1>3. PICK K, rank : Ranked(K, rank)
    BY DEF GcInv
<1>4. c \in Reached(Commits, Refs) /\ head # NoHead
    BY LoggedNeeded
<1>5. c \in K /\ NotYounger(c, rank)
    <2>1. Reached(Commits, Refs) \subseteq Commits
        BY ReachedLeast
    <2> QED BY <1>1, <1>3, <1>4, <2>1, NeededNotYounger DEF Ranked, NotYounger
<1>6. Ranked(K, rank)'
    <2>1. ASSUME NEW n \in BranchNames, branches'[n] # NoHead
          PROVE  branches'[n] \in K /\ (AnyMerge \/ rank[branches'[n]] <= rank[head])
        <3>1. CASE n = name
            BY <1>1, <1>5, <3>1 DEF NotYounger
        <3>2. CASE n # name
            BY <1>1, <1>3, <2>1, <3>2 DEF Ranked, NotYounger
        <3> QED BY <3>1, <3>2
    <2> QED BY <1>1, <1>2, <1>3, <1>4, <2>1 DEF Ranked, NotYounger, Committing
<1>7. TornUnneeded'
    <2>1. Refs' \subseteq Refs \union {c}
        BY <1>1 DEF Refs, Roots
    <2>2. Refs' \cap Commits \subseteq Reached(Commits, Refs)
        BY <1>4, <2>1, ReachedLeast
    <2>3. Reached(Commits, Refs') \subseteq Reached(Commits, Refs)
        BY <2>2, ReachedSame
    <2>4. Reached(Commits, Refs)' = Reached(Commits, Refs')
        BY <1>2 DEF Reached, ClosedIn
    <2> QED BY <1>2, <2>3, <2>4 DEF GcInv, TornUnneeded
<1> QED
    BY <1>2, <1>6, <1>7 DEF GcInv, CallOnTop, HeadIsPut, DoomedUnneeded

\* A write that tears the commit object in progress, when its parents
\* include head: no reference needs that commit.
LEMMA TornCommitUnneeded ==
    ASSUME TypeOK, GcInv, ~AnyMerge, op.pc = "commit",
           NEW c, c = op.commit, Commits' = Commits \union {c}, Readable' = Readable \ {c},
           Refs' \subseteq Refs
    PROVE  TornUnneeded'
<1>1. up
    BY DEF TypeOK, Idle
<1>2. PICK K, rank : Ranked(K, rank)
    BY DEF GcInv
<1> DEFINE R == Reached(Commits, Refs)
<1>3. R \subseteq Commits /\ Refs \cap Commits \subseteq R /\ ClosedIn(R, Commits) /\ R \subseteq Readable
    BY ReachedLeast DEF GcInv, TornUnneeded
<1>4. CASE head = NoHead
    <2>1. Refs = {}
        BY <1>1, <1>2, <1>4 DEF Refs, Roots, Ranked
    <2>2. Refs' \cap Commits' \subseteq {}
        BY <2>1
    <2>3. Reached(Commits', Refs') \subseteq {}
        BY <2>2, ReachedLeast
    <2>4. Reached(Commits, Refs)' = Reached(Commits', Refs')
        BY DEF Reached, ClosedIn
    <2> QED BY <2>3, <2>4 DEF TornUnneeded
<1>5. CASE head # NoHead
    <2>1. c \in K /\ rank[head] < rank[c] /\ rank[head] \in Nat /\ rank[c] \in Nat
        <3>1. op.commit \in K /\ head \in Parents(op.commit)
            BY <1>2, <1>5 DEF Ranked, Committing, GcInv, CallOnTop
        <3> QED BY <1>2, <1>5, <3>1 DEF Ranked
    <2> DEFINE D == {x \in K : rank[x] <= rank[head]}
    <2>2. Refs \subseteq D
        BY <1>1, <1>2, <1>5 DEF Refs, Roots, Ranked, NotYounger
    <2>3. \A x \in D : Parents(x) \subseteq D
        <3>1. ASSUME NEW x \in D, NEW p \in Parents(x) PROVE p \in D
            <4>1. x \in K /\ p \in K /\ rank[p] \in Nat /\ rank[x] \in Nat /\ rank[p] < rank[x]
                  /\ rank[x] <= rank[head]
                BY <1>2 DEF Ranked
            <4> QED BY <2>1, <4>1
        <3> QED BY <3>1
    <2>4. c \notin D
        BY <2>1
    <2> HIDE DEF D
    <2> DEFINE N == R \cap D
    <2>5. Refs' \cap Commits' \subseteq N
        BY <1>3, <2>2, <2>4
    <2>6. \A x \in N \cap Commits' : Parents(x) \cap Commits' \subseteq N
        BY <1>3, <2>3, <2>4 DEF ClosedIn
    <2>7. N \subseteq Readable'
        BY <1>3, <2>4
    <2> HIDE DEF N, R
    <2>8. Reached(Commits', Refs') \subseteq N
        BY <2>5, <2>6, ReachedLeast
    <2>9. Reached(Commits, Refs)' = Reached(Commits', Refs')
        BY DEF Reached, ClosedIn
    <2> QED BY <2>7, <2>8, <2>9 DEF TornUnneeded
<1> QED
    BY <1>4, <1>5

\* The invariant of collection at the start.
LEMMA InitGcInv == Init => GcInv
<1> SUFFICES ASSUME Init
             PROVE  GcInv
    OBVIOUS
<1>1. /\ Commits = {} /\ Readable = {} /\ op.pc = "idle" /\ head = NoHead /\ headFile = NoHead
      /\ \A name \in BranchNames : branches[name] = NoHead
    BY DEF Init, Commits, Readable, CommitsIn, Files, Idle, NoBranches
<1>2. Ranked({}, <<>>)
    BY <1>1 DEF Ranked, Committing
<1>3. \E K, rank : Ranked(K, rank)
    BY <1>2
<1>4. TornUnneeded
    BY <1>1, ReachedLeast DEF TornUnneeded
<1> QED
    BY <1>1, <1>3, <1>4 DEF GcInv, CallOnTop, HeadIsPut, DoomedUnneeded

\* An interrupted write changes no commit, or tears the one in progress.
LEMMA Interrupted ==
    ASSUME TypeOK, InterruptedPut
    PROVE  \/ Commits' = Commits /\ Readable' = Readable
           \/ /\ TornWrites /\ op.pc = "commit"
              /\ Commits' = Commits \union {op.commit} /\ Readable' = Readable \ {op.commit}
<1>1. CASE UNCHANGED <<objects, torn>>
    BY <1>1 DEF Commits, Readable, CommitsIn, Files
<1>2. CASE TornWrites /\ Writing # {} /\ objects' = objects \ Writing /\ torn' = torn \union Writing
    <2>1. CASE op.pc = "commit"
        <3>1. Writing = {op.commit} /\ IsCommit(op.commit)
            BY <2>1 DEF Writing, TypeOK
        <3> QED BY <1>2, <2>1, <3>1 DEF Commits, Readable, CommitsIn, Files
    <2>2. CASE op.pc = "tree"
        <3>1. Writing = {op.commit.trees[op.chan]} /\ op.chan \in Channels
            BY <2>2 DEF Writing, TypeOK
        <3>2. IsBlob(op.commit.trees[op.chan])
            BY <2>2, <3>1, CommitParts DEF TypeOK
        <3>3. ~IsCommit(op.commit.trees[op.chan])
            BY <3>2 DEF IsBlob, IsCommit
        <3> QED BY <1>2, <3>1, <3>3 DEF Commits, Readable, CommitsIn, Files
    <2>3. CASE op.pc = "tf"
        <3>1. Writing = {op.commit.tf}
            BY <2>3 DEF Writing
        <3>2. IsTf(op.commit.tf)
            BY <2>3, CommitParts DEF TypeOK
        <3>3. ~IsCommit(op.commit.tf)
            BY <3>2 DEF IsTf, IsCommit
        <3> QED BY <1>2, <3>1, <3>3 DEF Commits, Readable, CommitsIn, Files
    <2> QED BY <1>2, <2>1, <2>2, <2>3 DEF Writing
<1> QED
    BY <1>1, <1>2 DEF InterruptedPut

\* A failing put keeps it.
LEMMA GcPutErr ==
    ASSUME ~(TornWrites /\ AnyMerge), TypeOK, GcInv, PutErr
    PROVE  GcInv'
<1>1. InterruptedPut /\ op'.pc = "idle" /\ UNCHANGED <<up, head, branches, headFile>>
    BY DEF PutErr, Idle, memory
<1>2. CASE Commits' = Commits /\ Readable' = Readable
    BY <1>1, <1>2, GcIdle
<1>3. CASE /\ TornWrites /\ op.pc = "commit"
           /\ Commits' = Commits \union {op.commit} /\ Readable' = Readable \ {op.commit}
    <2>1. PICK K, rank : Ranked(K, rank)
        BY DEF GcInv
    <2>2. Commits' \subseteq K
        BY <1>3, <2>1 DEF Ranked, Committing
    <2>3. Ranked(K, rank)'
        BY <1>1, <2>1, <2>2, RankKept DEF Committing
    <2>4. Refs' \subseteq Refs
        BY <1>1 DEF Refs, Roots
    <2>5. TornUnneeded'
        BY <1>3, <2>4, TornCommitUnneeded
    <2> QED BY <1>1, <2>3, <2>5 DEF GcInv, CallOnTop, HeadIsPut, DoomedUnneeded
<1> QED
    BY <1>1, <1>2, <1>3, Interrupted

\* A crash keeps it.
LEMMA GcCrash ==
    ASSUME ~(TornWrites /\ AnyMerge), TypeOK, GcInv, Crash
    PROVE  GcInv'
<1>1. /\ InterruptedPut /\ op'.pc = "idle" /\ up' = FALSE /\ head' = NoHead
      /\ headFile' \in {headFile, NoHead} /\ \A name \in BranchNames : branches'[name] = NoHead
    BY DEF Crash, Idle, InterruptedHead, NoBranches
<1>2. PICK K, rank : Ranked(K, rank)
    BY DEF GcInv
<1>3. Refs' \subseteq Refs
    BY <1>1 DEF Refs, Roots
<1>4. Commits' \subseteq K /\ TornUnneeded'
    <2>1. CASE Commits' = Commits /\ Readable' = Readable
        <3>1. Reached(Commits, Refs') \subseteq Reached(Commits, Refs)
            BY <1>3, ReachedMore
        <3>2. Reached(Commits, Refs)' = Reached(Commits, Refs')
            BY <2>1 DEF Reached, ClosedIn
        <3> QED BY <1>2, <2>1, <3>1, <3>2 DEF Ranked, GcInv, TornUnneeded
    <2>2. CASE /\ TornWrites /\ op.pc = "commit"
               /\ Commits' = Commits \union {op.commit} /\ Readable' = Readable \ {op.commit}
        <3>1. op.commit \in K /\ Commits \subseteq K
            BY <1>2, <2>2 DEF Ranked, Committing
        <3> QED BY <1>3, <2>2, <3>1, TornCommitUnneeded
    <2> QED BY <1>1, <2>1, <2>2, Interrupted
<1>5. Ranked(K, rank)'
    BY <1>1, <1>2, <1>4 DEF Ranked, Committing
<1> QED
    BY <1>1, <1>4, <1>5 DEF GcInv, CallOnTop, HeadIsPut, DoomedUnneeded

\* Reopening keeps it.
LEMMA GcOpen ==
    ASSUME TypeOK, GcInv, Open
    PROVE  GcInv'
<1>1. /\ UNCHANGED <<disk, branches, op, headFile>> /\ up' = TRUE /\ head' = headFile
      /\ op.pc = "idle" /\ \A name \in BranchNames : branches[name] = NoHead
    BY DEF Open, TypeOK, Idle, NoBranches, disk
<1>2. Commits' = Commits /\ Readable' = Readable
    BY <1>1 DEF Commits, Readable, CommitsIn, Files, disk
<1>3. PICK K, rank : Ranked(K, rank)
    BY DEF GcInv
<1>4. headFile # NoHead => headFile \in K /\ rank[headFile] \in Nat
    BY <1>3 DEF Ranked
<1>5. Ranked(K, rank)'
    BY <1>1, <1>2, <1>3, <1>4 DEF Ranked, NotYounger, Committing
<1>6. TornUnneeded'
    <2>1. Refs' \subseteq Refs
        BY <1>1 DEF Refs, Roots
    <2>2. Reached(Commits, Refs') \subseteq Reached(Commits, Refs)
        BY <2>1, ReachedMore
    <2>3. Reached(Commits, Refs)' = Reached(Commits, Refs')
        BY <1>2 DEF Reached, ClosedIn
    <2> QED BY <1>2, <2>2, <2>3 DEF GcInv, TornUnneeded
<1> QED
    BY <1>1, <1>5, <1>6 DEF GcInv, CallOnTop, HeadIsPut, DoomedUnneeded

\* A blob is written: the commits are as they were.
LEMMA GcPutBlob ==
    ASSUME TypeOK, GcInv, PutTree \/ PutTf
    PROVE  GcInv'
<1>1. PICK blob : Put(blob) /\ ~IsCommit(blob)
    <2>1. CASE PutTree
        <3>1. /\ op.pc = "tree" /\ op.chan \in Channels /\ Put(op.commit.trees[op.chan])
              /\ IsBlob(op.commit.trees[op.chan])
            BY <2>1, CommitParts DEF PutTree, TypeOK
        <3> QED BY <3>1 DEF IsBlob, IsCommit
    <2>2. CASE PutTf
        <3>1. Put(op.commit.tf) /\ IsTf(op.commit.tf)
            BY <2>2, CommitParts DEF PutTf, TypeOK
        <3> QED BY <3>1 DEF IsTf, IsCommit
    <2> QED BY <2>1, <2>2
<1>2. Commits' = Commits /\ Readable' = Readable
    BY <1>1 DEF Put, Commits, Readable, CommitsIn, Files
<1>3. /\ UNCHANGED <<up, head, branches, headFile>> /\ op.pc \in {"tree", "tf"}
      /\ op'.pc \in {"tree", "tf", "commit"} /\ op'.commit = op.commit
    BY DEF PutTree, PutTf, AfterTree, TreeCall, CommitCall, memory
<1> QED
    BY <1>2, <1>3, GcGoesOn

\* The steps of a call after which the commits are as they were.
LEMMA GcEasy ==
    ASSUME TypeOK, GcInv, WriteHead \/ WriteHeadErr \/ ArchiveOne \/ ArchiveErr \/ DeleteErr
    PROVE  GcInv'
<1>1. Commits' = Commits /\ Readable' = Readable /\ UNCHANGED <<up, head, branches>>
    BY DEF WriteHead, WriteHeadErr, ArchiveOne, ArchiveErr, DeleteErr, disk, memory,
           Commits, Readable, CommitsIn, Files
<1>2. CASE WriteHeadErr \/ ArchiveErr
    <2>1. op'.pc = "idle" /\ headFile' \in {headFile, NoHead}
        BY <1>2 DEF WriteHeadErr, ArchiveErr, Idle, InterruptedHead, disk
    <2> QED BY <1>1, <2>1, GcIdle
<1>3. CASE ArchiveOne
    <2>1. /\ headFile' = headFile /\ op.pc = "archive" /\ op'.pc \in {"archive", "delete"}
          /\ op'.doomed = op.doomed
        BY <1>3 DEF ArchiveOne, GcCall
    <2> QED BY <1>1, <2>1, GcGoesOn
<1>4. CASE DeleteErr
    <2>1. PICK o \in op.doomed : op' = AfterDelete(o)
        BY <1>4 DEF DeleteErr
    <2>2. headFile' = headFile /\ op.pc = "delete"
        BY <1>4 DEF DeleteErr, disk
    <2>3. CASE op.doomed = {o}
        <3>1. op'.pc = "idle"
            BY <2>1, <2>3 DEF AfterDelete, Idle
        <3> QED BY <1>1, <2>2, <3>1, GcIdle
    <2>4. CASE op.doomed # {o}
        <3>1. op'.pc = "delete" /\ op'.doomed = op.doomed \ {o}
            BY <2>1, <2>4 DEF AfterDelete, GcCall
        <3> QED BY <1>1, <2>2, <3>1, GcGoesOn
    <2> QED BY <2>3, <2>4
<1>5. CASE WriteHead
    <2>1. op.pc = "head" /\ op'.pc = "idle" /\ headFile' = op.commit /\ head = op.commit
        BY <1>5 DEF WriteHead, Idle, GcInv, HeadIsPut
    <2>2. up
        BY <2>1 DEF TypeOK, Idle
    <2> QED BY <1>1, <2>1, <2>2, GcIdle
<1> QED
    BY <1>2, <1>3, <1>4, <1>5

\* Every step keeps it.
LEMMA NextGcInv ==
    ASSUME ~(TornWrites /\ AnyMerge), TypeOK, GcInv, [Next]_vars
    PROVE  GcInv'
<1>1. ASSUME UNCHANGED <<disk, up, head, branches, op>>
      PROVE  GcInv'
    <2>1. Commits' = Commits /\ Readable' = Readable /\ headFile' = headFile
        BY <1>1 DEF disk, Commits, Readable, CommitsIn, Files
    <2> QED BY <1>1, <2>1, GcGoesOn
<1>2. CASE UNCHANGED vars
    BY <1>1, <1>2 DEF vars, memory
<1>3. ASSUME NEW pass, NEW tf, NEW m, Ingest(pass, tf, m) \/ CommitInteraction(pass, tf, m)
      PROVE  GcInv'
    <2> DEFINE c == Commit(pass, tf, HeadParents, m)
    <2>1. /\ UNCHANGED <<disk, up, head, branches>> /\ op = Idle
          /\ UNCHANGED op \/ op' = TreeCall(c, 1)
        BY <1>3 DEF Ingest, CommitInteraction, Begin, MayCommit, Ready, memory
    <2>2. Parents(c) = {head} \ {NoHead}
        <3>1. c.parents = HeadParents
            BY DEF Commit
        <3>2. CASE head = NoHead
            BY <3>1, <3>2 DEF HeadParents, Parents
        <3>3. CASE head # NoHead
            BY <3>1, <3>3 DEF HeadParents, Parents
        <3> QED BY <3>2, <3>3
    <2> HIDE DEF c
    <2>3. CASE op' = TreeCall(c, 1)
        <3>1. (~AnyMerge /\ head # NoHead => head \in Parents(c)) /\ Parents(c) \subseteq {head, head}
              /\ Parents(c) \subseteq Reached(Commits, Refs) \union ({head} \ {NoHead})
            BY <2>2
        <3> QED BY <2>1, <2>3, <3>1, GcBegin
    <2> QED BY <1>1, <2>1, <2>3
<1>4. ASSUME NEW a \in Logged, NEW b \in Logged, NEW m, MergeCommit(a, b, m)
      PROVE  GcInv'
    <2> DEFINE c == Commit(Join(StateOf(a), StateOf(b)), Larger(a.tf.count, b.tf.count), <<a, b>>, m)
    <2>1. /\ UNCHANGED <<disk, up, head, branches>> /\ op = Idle /\ op' = TreeCall(c, 1)
          /\ AnyMerge \/ b = head
        BY <1>4 DEF MergeCommit, Begin, MayCommit, Ready
    <2>2. Parents(c) = {a, b}
        <3>1. c.parents = <<a, b>>
            BY DEF Commit
        <3> QED BY <3>1 DEF Parents
    <2> HIDE DEF c
    <2>3. a \in Reached(Commits, Refs) /\ b \in Reached(Commits, Refs)
        BY LoggedNeeded
    <2>4. (~AnyMerge /\ head # NoHead => head \in Parents(c)) /\ Parents(c) \subseteq {a, b}
          /\ Parents(c) \subseteq Reached(Commits, Refs) \union ({head} \ {NoHead})
        BY <2>1, <2>2, <2>3
    <2> QED BY <2>1, <2>4, GcBegin
<1>5. ASSUME NEW a, NEW b, NEW c, NEW ch, Merge(a, b) \/ Project(c, ch)
      PROVE  GcInv'
    BY <1>1, <1>5 DEF Merge, Project
<1>6. ASSUME NEW keep, NEW archiving, Gc(keep, archiving)
      PROVE  GcInv'
    BY <1>6, GcMarks
<1>7. ASSUME NEW name \in BranchNames, NEW c \in Logged, SetBranch(name, c)
      PROVE  GcInv'
    BY <1>7, GcSetsBranch
<1>8. CASE PutTree \/ PutTf \/ PutCommit
    BY <1>8, GcPutBlob, GcPutCommit
<1>9. CASE WriteHead \/ WriteHeadErr \/ ArchiveOne \/ ArchiveErr \/ DeleteErr \/ DeleteOne
    BY <1>9, GcEasy, GcDeletes
<1>10. CASE PutErr \/ Crash \/ Open
    BY <1>10, GcPutErr, GcCrash, GcOpen
<1> QED
    BY <1>2, <1>3, <1>4, <1>5, <1>6, <1>7, <1>8, <1>9, <1>10 DEF Next

\* Only gc's delete removes a file while it deletes.
LEMMA DeletesDoomed ==
    ASSUME Next, op.pc = "delete", NEW o \in Files, o \notin Files'
    PROVE  o \in op.doomed
<1>1. Writing = {}
    BY DEF Writing
<1>2. ~PutErr /\ (Crash => UNCHANGED <<objects, torn>>)
    BY <1>1 DEF PutErr, Crash, InterruptedPut
<1>3. DeleteOne
    BY <1>2 DEF Next, Files, disk, memory, Ingest, CommitInteraction, Merge,
         MergeCommit, Project, SetBranch, Gc, MayCommit, Ready, Idle, PutTree, PutTf,
         PutCommit, WriteHead, ArchiveOne, ArchiveErr, DeleteErr,
         WriteHeadErr, Open
<1> QED
    BY <1>3 DEF DeleteOne, Files

\* gc deletes nothing that head or a branch names through any number of
\* parents: with torn writes, or with merges of any two commits.
THEOREM GcSparesTheNeeded ==
    ASSUME ~(TornWrites /\ AnyMerge)
    PROVE  Spec => GcPrunesOnlyUnreachable
<1>1. Init => TypeOK /\ GcInv
    BY InitType, InitGcInv
<1>2. TypeOK /\ GcInv /\ [Next]_vars => (TypeOK /\ GcInv)'
    BY NextType, NextGcInv
<1> DEFINE Kept == op.pc = "delete" => (Files \ (objects' \union torn')) \cap NeededFiles = {}
<1>3. GcInv /\ [Next]_vars => [Kept]_vars
    <2>1. SUFFICES ASSUME GcInv, Next, op.pc = "delete", NEW o \in Files, o \notin objects' \union torn'
                   PROVE  o \notin NeededFiles
        OBVIOUS
    <2>2. o \in op.doomed
        BY <2>1, DeletesDoomed DEF Files
    <2> QED
        BY <2>1, <2>2 DEF GcInv, DoomedUnneeded
<1> QED
    BY <1>1, <1>2, <1>3, PTL DEF Spec, GcPrunesOnlyUnreachable

-----------------------------------------------------------------------------
(* tops, the cache that decides whether ingest commits, is exact.          *)

Filling == {"tree", "tf", "commit"}

\* A commit in progress goes on top of logged commits, and of head.
CallLogged ==
    op.pc \in Filling =>
        /\ Parents(op.commit) \subseteq Logged
        /\ head # NoHead => head \in Parents(op.commit)

TopsInv == TopsExact /\ CallLogged

\* A sound set that contains the root contains the walk.
LEMMA SoundReached ==
    ASSUME NEW K \in SUBSET Readable, Sound(K), NEW h \in K
    PROVE  /\ Reached(Readable, {h}) \subseteq K /\ h \in Reached(Readable, {h})
           /\ \A c \in Reached(Readable, {h}) :
                 Parents(c) \subseteq Reached(Readable, {h}) /\ OwnObjects(c) \subseteq objects
<1> DEFINE R == Reached(Readable, {h})
<1>1. R \subseteq Readable /\ {h} \cap Readable \subseteq R /\ ClosedIn(R, Readable)
    BY ReachedLeast
<1>2. {h} \cap Readable \subseteq K /\ \A c \in K \cap Readable : Parents(c) \cap Readable \subseteq K
    BY DEF Sound
<1>3. R \subseteq K
    BY <1>2, ReachedLeast
<1>4. \A c \in R : Parents(c) \subseteq R /\ OwnObjects(c) \subseteq objects
    BY <1>1, <1>3 DEF Sound, ClosedIn
<1> QED
    BY <1>1, <1>3, <1>4

\* The head in memory is logged: its own history can be read.
LEMMA HeadLogged ==
    ASSUME IInv, head # NoHead
    PROVE  head \in Logged
<1>1. PICK K \in SUBSET Readable : head \in K /\ Sound(K)
    BY DEF IInv, RefsIntact, Intact
<1> QED
    BY <1>1, SoundReached DEF Logged, Log

\* log depends on the store and HEAD only.
LEMMA SameLog ==
    ASSUME Readable' = Readable, head' = head
    PROVE  Logged' = Logged
BY DEF Logged, Log, Reached, ClosedIn

\* Neither the log nor tops change, and no commit is begun.
LEMMA TopsKept ==
    ASSUME TopsInv, Logged' = Logged, UNCHANGED <<tops, head>>,
           op'.pc \in Filling => op.pc \in Filling /\ op'.commit = op.commit
    PROVE  TopsInv'
<1>1. TopsExact'
    BY DEF TopsInv, TopsExact
<1>2. CallLogged'
    BY DEF TopsInv, CallLogged
<1> QED
    BY <1>1, <1>2 DEF TopsInv

\* A commit on HEAD begins with exact tops.
LEMMA TopsBegin ==
    ASSUME TopsInv, UNCHANGED <<disk, tops, head>>, NEW c, op' = TreeCall(c, 1),
           Parents(c) \subseteq Logged, head # NoHead => head \in Parents(c)
    PROVE  TopsInv'
<1>1. Readable' = Readable
    BY DEF disk, Readable, CommitsIn
<1>2. Logged' = Logged
    BY <1>1, SameLog
<1>3. op'.commit = c
    BY DEF TreeCall
<1>4. TopsExact'
    BY <1>2 DEF TopsInv, TopsExact
<1> QED
    BY <1>2, <1>3, <1>4 DEF TopsInv, CallLogged

\* The commit object is written and becomes head: the log is one longer.
LEMMA TopsPutCommit ==
    ASSUME TypeOK, IInv, TopsInv, PutCommit
    PROVE  TopsInv'
<1> DEFINE c == op.commit
<1>1. /\ op.pc = "commit" /\ IsCommit(c) /\ objects' = objects \union {c} /\ head' = c
      /\ op'.pc = "head" /\ tops' = Join(tops, StateOf(c))
    BY DEF PutCommit, Put, CommitCall, TypeOK
<1>2. Readable' = Readable \union {c}
    BY <1>1 DEF Readable, CommitsIn, IsCommit
<1>3. c # NoHead /\ Parents(c) \subseteq Logged /\ (head # NoHead => head \in Parents(c))
    BY <1>1 DEF IsCommit, NoHead, TopsInv, CallLogged, Filling
<1> HIDE DEF c
<1>4. Logged \subseteq Readable /\ ClosedIn(Logged, Readable)
    <2>1. CASE head = NoHead
        BY <2>1 DEF Logged, Log, ClosedIn
    <2>2. CASE head # NoHead
        BY <2>2, ReachedLeast DEF Logged, Log
    <2> QED BY <2>1, <2>2
<1>5. Logged' = Reached(Readable', {c})
    <2>1. Logged' = Log(head)'
        BY DEF Logged
    <2>2. Log(head)' = Reached(Readable', {c})
        BY <1>1, <1>3 DEF Log, Reached, ClosedIn
    <2> QED BY <2>1, <2>2
<1>6. Reached(Readable', {c}) \subseteq Logged \union {c}
    <2> DEFINE N == Logged \union {c}
    <2>1. {c} \cap Readable' \subseteq N
        OBVIOUS
    <2>2. \A x \in N \cap Readable' : Parents(x) \cap Readable' \subseteq N
        BY <1>2, <1>3, <1>4 DEF ClosedIn
    <2> HIDE DEF N
    <2>3. Reached(Readable', {c}) \subseteq N
        BY <2>1, <2>2, ReachedLeast
    <2> QED BY <2>3 DEF N
<1>7. Logged \union {c} \subseteq Reached(Readable', {c})
    <2>1. c \in Reached(Readable', {c}) /\ ClosedIn(Reached(Readable', {c}), Readable')
        <3>1. {c} \cap Readable' \subseteq Reached(Readable', {c})
              /\ ClosedIn(Reached(Readable', {c}), Readable')
            BY ReachedLeast
        <3> QED BY <1>2, <3>1
    <2>2. Logged \subseteq Reached(Readable', {c})
        <3>1. CASE head = NoHead
            BY <3>1 DEF Logged, Log
        <3>2. CASE head # NoHead
            <4>1. head \in Logged
                BY <3>2, HeadLogged
            <4>2. head \in Reached(Readable', {c})
                BY <1>2, <1>3, <1>4, <2>1, <3>2, <4>1 DEF ClosedIn
            <4>3. Reached(Readable', {head}) \subseteq Reached(Readable', {c})
                BY <4>2, ReachedSame
            <4>4. Reached(Readable, {head}) \subseteq Reached(Readable', {head})
                BY <1>2, ReachedMore
            <4> QED BY <3>2, <4>3, <4>4 DEF Logged, Log
        <3> QED BY <3>1, <3>2
    <2> QED BY <2>1, <2>2
<1>8. Logged' = Logged \union {c}
    BY <1>5, <1>6, <1>7
<1>9. \A ch \in Channels : UNION {x.trees[ch].data : x \in Logged \union {c}}
                             = (UNION {x.trees[ch].data : x \in Logged}) \union c.trees[ch].data
    OBVIOUS
<1>10. \A ch \in Channels : tops[ch] = UNION {x.trees[ch].data : x \in Logged}
    BY DEF TopsInv, TopsExact
<1>11. tops' = [ch \in Channels |-> tops[ch] \union c.trees[ch].data]
    BY <1>1 DEF Join, StateOf
<1>12. TopsExact'
    BY <1>8, <1>9, <1>10, <1>11 DEF TopsExact
<1> QED
    BY <1>1, <1>12 DEF TopsInv, CallLogged, Filling

\* A restart: rebuild_tops reads the whole history of the HEAD file.
LEMMA TopsOpen ==
    ASSUME TypeOK, IInv, TopsInv, Open
    PROVE  TopsInv'
<1>1. /\ UNCHANGED <<disk, op>> /\ head' = headFile /\ tops' = RebuiltTops(headFile)
      /\ op.pc = "idle" /\ Readable' = Readable /\ objects' = objects
    BY DEF Open, TypeOK, Idle, disk, Readable, CommitsIn
<1>2. Logged' = Log(headFile)
    BY <1>1 DEF Logged, Log, Reached, ClosedIn
<1>3. RebuiltTops(headFile) = [ch \in Channels |-> UNION {c.trees[ch].data : c \in Log(headFile)}]
    <2>1. CASE headFile = NoHead
        BY <2>1 DEF RebuiltTops, LogOk, Log, EmptyTops
    <2>2. CASE headFile # NoHead
        <3>1. PICK K \in SUBSET Readable : headFile \in K /\ Sound(K)
            BY <2>2 DEF IInv, HeadFileIntact, Intact
        <3>2. /\ headFile \in Log(headFile)
              /\ \A c \in Log(headFile) : Parents(c) \subseteq Log(headFile) /\ OwnObjects(c) \subseteq objects
            BY <2>2, <3>1, SoundReached DEF Log
        <3>3. LogOk(headFile)
            BY <3>2 DEF LogOk
        <3>4. {w \in Log(headFile) : TreesOf(w) \subseteq objects} = Log(headFile)
            BY <3>2 DEF OwnObjects
        <3> QED BY <3>3, <3>4 DEF RebuiltTops
    <2> QED BY <2>1, <2>2
<1>4. TopsExact'
    BY <1>1, <1>2, <1>3 DEF TopsExact
<1> QED
    BY <1>1, <1>4 DEF TopsInv, CallLogged, Filling

\* gc deletes what the log does not need.
LEMMA TopsDelete ==
    ASSUME IInv, TopsInv, DeleteOne
    PROVE  TopsInv'
<1>1. op.pc = "delete" /\ UNCHANGED <<head, tops>>
    BY DEF DeleteOne, memory
<1>2. PICK o \in op.doomed : objects' = objects \ {o} /\ op' = AfterDelete(o)
    BY DEF DeleteOne
<1>3. Readable' = Readable \ {o}
    BY <1>2 DEF Readable, CommitsIn
<1>4. op'.pc \notin Filling
    BY <1>2 DEF AfterDelete, Idle, GcCall, Filling
<1>5. Logged' = Logged
    <2>1. CASE head = NoHead
        <3>1. Logged = {}
            BY <2>1 DEF Logged, Log
        <3>2. Logged' = {}
            BY <1>1, <2>1 DEF Logged, Log
        <3> QED BY <3>1, <3>2
    <2>2. CASE head # NoHead
        <3>1. head \in Roots
            BY <2>2 DEF Roots
        <3>2. PICK K \in SUBSET Readable : head \in K /\ Sound(K)
                                           /\ \A c \in K : OwnObjects(c) \cap op.doomed = {}
            BY <1>1, <3>1 DEF IInv, GcSpares
        <3>3. o \notin K
            BY <1>2, <3>2 DEF OwnObjects
        <3>4. Reached(Readable, {head}) \subseteq K
            BY <3>2, SoundReached
        <3>5. Reached(Readable, {head}) \subseteq Readable'
            BY <1>3, <3>3, <3>4
        <3>6. Reached(Readable, {head}) \subseteq Reached(Readable', {head})
            BY <1>3, <3>5, ReachedReadable
        <3>7. Reached(Readable', {head}) \subseteq Reached(Readable, {head})
            BY <1>3, ReachedMore
        <3>8. Log(head)' = Reached(Readable', {head})
            BY <1>1, <2>2 DEF Log, Reached, ClosedIn
        <3>9. Log(head) = Reached(Readable, {head})
            BY <2>2 DEF Log
        <3>10. Logged' = Log(head)' /\ Logged = Log(head)
            BY DEF Logged
        <3> QED BY <3>6, <3>7, <3>8, <3>9, <3>10
    <2> QED BY <2>1, <2>2
<1> QED
    BY <1>1, <1>4, <1>5, TopsKept

\* The tops stay the union of the logged states.
LEMMA NextTopsInv ==
    ASSUME ~TornWrites, ~AnyMerge, TypeOK, IInv, TopsInv, [Next]_vars
    PROVE  TopsInv'
<1>1. ASSUME UNCHANGED <<tops, head>>, Readable' = Readable,
             op'.pc \in Filling => op.pc \in Filling /\ op'.commit = op.commit
      PROVE  TopsInv'
    BY <1>1, SameLog, TopsKept
<1>2. ASSUME UNCHANGED <<objects, tops, head, op>>
      PROVE  TopsInv'
    BY <1>1, <1>2 DEF Readable, CommitsIn
<1>3. ASSUME UNCHANGED <<objects, tops, head>>, op'.pc \notin Filling
      PROVE  TopsInv'
    BY <1>1, <1>3 DEF Readable, CommitsIn
<1>4. CASE UNCHANGED vars
    BY <1>2, <1>4 DEF vars, disk, memory
<1>5. ASSUME NEW pass, NEW tf, NEW m, Ingest(pass, tf, m) \/ CommitInteraction(pass, tf, m)
      PROVE  TopsInv'
    <2> DEFINE c == Commit(pass, tf, HeadParents, m)
    <2>1. UNCHANGED <<disk, tops, head>> /\ (UNCHANGED op \/ op' = TreeCall(c, 1))
        BY <1>5 DEF Ingest, CommitInteraction, Begin, memory
    <2>2. Parents(c) = {head} \ {NoHead}
        <3>1. c.parents = HeadParents
            BY DEF Commit
        <3>2. CASE head = NoHead
            BY <3>1, <3>2 DEF HeadParents, Parents
        <3>3. CASE head # NoHead
            BY <3>1, <3>3 DEF HeadParents, Parents
        <3> QED BY <3>2, <3>3
    <2> HIDE DEF c
    <2>3. CASE op' = TreeCall(c, 1)
        <3>1. Parents(c) \subseteq Logged /\ (head # NoHead => head \in Parents(c))
            BY <2>2, HeadLogged
        <3> QED BY <2>1, <2>3, <3>1, TopsBegin
    <2>4. CASE UNCHANGED op
        BY <1>2, <2>1, <2>4 DEF disk
    <2> QED BY <2>1, <2>3, <2>4
<1>6. ASSUME NEW a \in Logged, NEW b \in Logged, NEW m, MergeCommit(a, b, m)
      PROVE  TopsInv'
    <2> DEFINE c == Commit(Join(StateOf(a), StateOf(b)), Larger(a.tf.count, b.tf.count), <<a, b>>, m)
    <2>1. UNCHANGED <<disk, tops, head>> /\ op' = TreeCall(c, 1) /\ b = head
        BY <1>6 DEF MergeCommit, Begin
    <2>2. Parents(c) = {a, b}
        <3>1. c.parents = <<a, b>>
            BY DEF Commit
        <3> QED BY <3>1 DEF Parents
    <2> HIDE DEF c
    <2> QED BY <2>1, <2>2, TopsBegin
<1>7. ASSUME NEW a, NEW b, NEW c, NEW ch, NEW name, Merge(a, b) \/ Project(c, ch) \/ SetBranch(name, c)
      PROVE  TopsInv'
    BY <1>2, <1>7 DEF Merge, Project, SetBranch, disk
<1>8. ASSUME NEW keep, NEW archiving, Gc(keep, archiving)
      PROVE  TopsInv'
    <2>1. UNCHANGED <<objects, tops, head>> /\ op'.pc \notin Filling
        BY <1>8 DEF Gc, GcCall, disk, memory, Filling
    <2> QED BY <1>3, <2>1
<1>9. CASE PutTree \/ PutTf
    <2>1. PICK blob : Put(blob) /\ ~IsCommit(blob)
        <3>1. CASE PutTree
            <4>1. /\ op.pc = "tree" /\ op.chan \in Channels /\ Put(op.commit.trees[op.chan])
                  /\ IsBlob(op.commit.trees[op.chan])
                BY <3>1, CommitParts DEF PutTree, TypeOK
            <4> QED BY <4>1 DEF IsBlob, IsCommit
        <3>2. CASE PutTf
            <4>1. Put(op.commit.tf) /\ IsTf(op.commit.tf)
                BY <3>2, CommitParts DEF PutTf, TypeOK
            <4> QED BY <4>1 DEF IsTf, IsCommit
        <3> QED BY <1>9, <3>1, <3>2
    <2>2. Readable' = Readable
        BY <2>1 DEF Put, Readable, CommitsIn
    <2>3. UNCHANGED <<tops, head>> /\ op.pc \in Filling /\ op'.commit = op.commit
        BY <1>9 DEF PutTree, PutTf, AfterTree, TreeCall, CommitCall, memory, Filling
    <2> QED BY <1>1, <2>2, <2>3
<1>10. CASE WriteHead \/ WriteHeadErr \/ ArchiveOne \/ ArchiveErr \/ DeleteErr
    <2>1. UNCHANGED <<objects, tops, head>>
        BY <1>10 DEF WriteHead, WriteHeadErr, ArchiveOne, ArchiveErr, DeleteErr, disk, memory
    <2>2. op'.pc \notin Filling
        BY <1>10 DEF WriteHead, WriteHeadErr, ArchiveOne, ArchiveErr, DeleteErr, AfterDelete,
                     Idle, GcCall, Filling
    <2> QED BY <1>3, <2>1, <2>2
<1>11. CASE PutErr
    <2>1. UNCHANGED <<objects, tops, head>> /\ op'.pc \notin Filling
        BY <1>11 DEF PutErr, InterruptedPut, memory, Idle, Filling
    <2> QED BY <1>3, <2>1
<1>12. CASE Crash
    <2>1. head' = NoHead /\ tops' = EmptyTops /\ op'.pc \notin Filling
        BY <1>12 DEF Crash, Idle, Filling
    <2>2. Logged' = {}
        BY <2>1 DEF Logged, Log
    <2>3. TopsExact'
        BY <2>1, <2>2 DEF TopsExact, EmptyTops
    <2> QED BY <2>1, <2>3 DEF TopsInv, CallLogged
<1> QED
    BY <1>4, <1>5, <1>6, <1>7, <1>8, <1>9, <1>10, <1>11, <1>12,
       TopsPutCommit, TopsOpen, TopsDelete DEF Next

\* tops is the union of the states reachable from head at every moment,
\* through crashes, failing calls, restarts and gc: ingest never skips a
\* pass that brings a bit, and never commits one that brings none.
THEOREM TopsStayExact ==
    ASSUME ~TornWrites, ~AnyMerge
    PROVE  Spec => []TopsExact
<1>1. Init => TopsInv
    BY DEF Init, TopsInv, TopsExact, EmptyTops, Logged, Log, CallLogged, Idle, Filling
<1>2. TypeOK /\ IInv /\ TopsInv /\ [Next]_vars => TopsInv'
    BY NextTopsInv
<1>3. TopsInv => TopsExact
    BY DEF TopsInv
<1> QED
    BY <1>1, <1>2, <1>3, RepositoryTyped, Inductive, PTL DEF Spec

=============================================================================
