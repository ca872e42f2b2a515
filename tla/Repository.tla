----------------------------- MODULE Repository -----------------------------
(***************************************************************************)
(* The evolution store of ewm-git: Repository<LooseStore>                  *)
(* (crates/ewm-git/src/repo.rs, store.rs, object.rs).                      *)
(*                                                                         *)
(* Objects are content addressed: an object IS its id here, so two equal   *)
(* objects are one file and a commit's ancestry is part of its value       *)
(* (SHA-1 is taken as collision-free).  One process owns the repository.   *)
(* commit, ingest, merge_commit, gc and gc_to are split at every call into *)
(* the object store, because the process can die, or the call can fail,    *)
(* between any two of them.                                                *)
(***************************************************************************)
EXTENDS Integers, Sequences, FiniteSets

CONSTANTS
    Bits,         \* bit positions of an HLLSet
    NChannels,    \* channels of a lattice state: G1, G2, G3 in the code
    Passes,       \* channel states one ingest pass can produce
    Tfs,          \* bit-TF values (the count at one representative bit)
    Messages,     \* commit messages
    BranchNames,  \* names set_branch is called with
    TornWrites,   \* an interrupted fs::write leaves a truncated file
    AnyMerge,     \* merge_commit on any two logged commits, HEAD or not
    MaxCommits,   \* bound: commits begun
    MaxFaults     \* bound: crashes and failing store calls

ASSUME ConstantsAssumption ==
    /\ NChannels \in Nat \ {0}
    /\ Passes \subseteq [1..NChannels -> SUBSET Bits]
    /\ Tfs \subseteq Nat
    /\ TornWrites \in BOOLEAN /\ AnyMerge \in BOOLEAN
    /\ MaxCommits \in Nat /\ MaxFaults \in Nat

VARIABLES
    objects,   \* objects whose file holds their bytes
    torn,      \* objects whose file exists and cannot be read back
    headFile,  \* root/HEAD: a commit, or NoHead
    archive,   \* the archive store gc_to writes to
    up,        \* the owning process runs
    head,      \* Repository::head
    tops,      \* Repository::tops, the union of committed states per channel
    branches,  \* Repository::branches, in memory only
    lut,       \* Repository::hllset_lut: the HLLSet contents with TH >= 1
    op,        \* the call in progress and its local variables
    made,      \* commits begun (bounds the model)
    faults     \* faults so far (bounds the model)

disk   == <<objects, torn, headFile, archive>>
memory == <<up, head, tops, branches, lut>>
vars   == <<disk, memory, op, made, faults>>

Channels == 1..NChannels

-----------------------------------------------------------------------------
(* Objects.                                                                *)

Blob(bits) == [kind |-> "blob", data |-> bits]
TfBlob(n)  == [kind |-> "tf", count |-> n]

Commit(state, tf, parents, message) ==
    [kind    |-> "commit",
     trees   |-> [ch \in Channels |-> Blob(state[ch])],
     tf      |-> TfBlob(tf),
     parents |-> parents,
     message |-> message]

\* No commit: Option::None, or a HEAD file that names none.
NoHead == [kind |-> "none"]

IsCommit(o)   == o.kind = "commit"
CommitsIn(S)  == {o \in S : IsCommit(o)}
Parents(c)    == {c.parents[i] : i \in DOMAIN c.parents}
TreesOf(c)    == {c.trees[ch] : ch \in Channels}
StateOf(c)    == [ch \in Channels |-> c.trees[ch].data]
OwnObjects(c) == {c, c.tf} \union TreesOf(c)

\* Files listed by ObjectStore::ids, readable or not.
Files == objects \union torn

-----------------------------------------------------------------------------
(* Ancestry.  A walk from roots through the commits of U, the ones         *)
(* store.get returns, visits the least set that contains the roots in U    *)
(* and, with a commit, its parents in U.                                   *)

ClosedIn(K, U) == \A c \in K : Parents(c) \cap U \subseteq K

Reached(U, roots) ==
    {c \in U : \A K \in SUBSET U :
                  (roots \cap U \subseteq K /\ ClosedIn(K, U)) => c \in K}

Readable == CommitsIn(objects)

\* Mutation of Mark: the walk stops at the references themselves.
MarkShallow(roots) ==
    roots \union UNION {OwnObjects(c) : c \in CommitsIn(roots)}

\* reachable_mark: the walk's commits with everything they name.
Mark(roots) ==
    roots \union UNION {OwnObjects(c) \union Parents(c) :
                            c \in Reached(Readable, roots)}

\* log() from h; it fails on the first commit it cannot read.
Log(h)   == IF h = NoHead THEN {} ELSE Reached(Readable, {h})
LogOk(h) == h # NoHead => {h} \union UNION {Parents(c) : c \in Log(h)} \subseteq Log(h)

Logged == Log(head)

\* A commit whose whole history can be read: it lies in a set of readable
\* commits that holds all their parents and all the blobs they name.
Sound(K)  == \A c \in K : Parents(c) \subseteq K /\ OwnObjects(c) \subseteq objects
Intact(c) == \E K \in SUBSET Readable : c \in K /\ Sound(K)

-----------------------------------------------------------------------------
(* In-memory state.                                                        *)

EmptyTops == [ch \in Channels |-> {}]
NoBranches == [name \in BranchNames |-> NoHead]

Join(s, t) == [ch \in Channels |-> s[ch] \union t[ch]]

\* HllsetLut::register and touch, for every content of S; of the counts
\* only zero and non-zero are told apart.
TouchAll(S) == lut' = lut \union S

\* new_bits(state) = 0
NoNewBits(state) == \A ch \in Channels : state[ch] \subseteq tops[ch]

Idle == [pc |-> "idle"]

\* commit() between two store calls: chan is the channel to put next.
TreeCall(c, chan) == [pc |-> "tree", commit |-> c, chan |-> chan]
CommitCall(pc, c) == [pc |-> pc, commit |-> c]

\* gc() and gc_to(): what is still to be archived and deleted.
GcCall(pc, doomed, pending, archiving) ==
    [pc |-> pc, doomed |-> doomed, pending |-> pending, archiving |-> archiving]

\* Mutation of HeadParents: every commit is a root.
NoParents == <<>>

HeadParents == IF head = NoHead THEN <<>> ELSE <<head>>

Ready     == up /\ op = Idle
MayCommit == Ready /\ made < MaxCommits

Init ==
    /\ objects = {} /\ torn = {} /\ headFile = NoHead /\ archive = {}
    /\ up = TRUE /\ head = NoHead
    /\ tops = EmptyTops /\ branches = NoBranches /\ lut = {}
    /\ op = Idle /\ made = 0 /\ faults = 0

-----------------------------------------------------------------------------
(* commit(): three channel blobs, the TF blob, the commit object, then     *)
(* tops and head in memory, then the HEAD file.                            *)

Begin(c) == op' = TreeCall(c, 1) /\ made' = made + 1

\* Mutation of Put: a file that exists is not written again.
PutIfAbsent(o) ==
    /\ objects' = IF o \in Files THEN objects ELSE objects \union {o}
    /\ torn' = torn

\* Writing o's file makes it readable, whatever was there before.
Put(o) == objects' = objects \union {o} /\ torn' = torn \ {o}

\* Mutations of AfterTree: one channel too many; the TF blob left out.
AfterTreeOffByOne ==
    IF op.chan <= NChannels
    THEN TreeCall(op.commit, op.chan + 1)
    ELSE CommitCall("tf", op.commit)

AfterTreeWithoutTf ==
    IF op.chan < NChannels
    THEN TreeCall(op.commit, op.chan + 1)
    ELSE CommitCall("commit", op.commit)

AfterTree ==
    IF op.chan < NChannels
    THEN TreeCall(op.commit, op.chan + 1)
    ELSE CommitCall("tf", op.commit)

PutTree ==
    /\ op.pc = "tree"
    /\ LET blob == op.commit.trees[op.chan] IN
         /\ Put(blob)
         /\ TouchAll({blob.data})
    /\ op' = AfterTree
    /\ UNCHANGED <<headFile, archive, up, head, tops, branches, made, faults>>

PutTf ==
    /\ op.pc = "tf"
    /\ Put(op.commit.tf)
    /\ op' = CommitCall("commit", op.commit)
    /\ UNCHANGED <<headFile, archive, memory, made, faults>>

PutCommit ==
    /\ op.pc = "commit"
    /\ Put(op.commit)
    /\ tops' = Join(tops, StateOf(op.commit))
    /\ head' = op.commit
    /\ op' = CommitCall("head", op.commit)
    /\ UNCHANGED <<headFile, archive, up, branches, lut, made, faults>>

WriteHead ==
    /\ op.pc = "head"
    /\ headFile' = op.commit
    /\ op' = Idle
    /\ UNCHANGED <<objects, torn, archive, memory, made, faults>>

-----------------------------------------------------------------------------
(* Callers of commit().                                                    *)

\* ingest(): every original is touched first; a pass without new bits
\* returns Ok(None), any other is committed on top of HEAD.
Ingest(pass, tf, message) ==
    /\ MayCommit
    /\ TouchAll({pass[ch] : ch \in Channels})
    /\ IF NoNewBits(pass)
       THEN UNCHANGED <<op, made>>
       ELSE Begin(Commit(pass, tf, HeadParents, message))
    /\ UNCHANGED <<disk, up, head, tops, branches, faults>>

\* commit_interaction(): committed on top of HEAD, new bits or not.
CommitInteraction(pass, tf, message) ==
    /\ MayCommit
    /\ Begin(Commit(pass, tf, HeadParents, message))
    /\ UNCHANGED <<disk, memory, faults>>

\* merge(): fails unless both commits and their blobs can be read; touches
\* the originals of both.
CanMerge(a, b) == OwnObjects(a) \union OwnObjects(b) \subseteq objects

MergeTouches(a, b) ==
    TouchAll({StateOf(c)[ch] : c \in {a, b}, ch \in Channels})

Larger(m, n) == IF m >= n THEN m ELSE n

Merge(a, b) ==
    /\ Ready
    /\ CanMerge(a, b)
    /\ MergeTouches(a, b)
    /\ UNCHANGED <<disk, up, head, tops, branches, op, made, faults>>

MergeCommit(a, b, message) ==
    /\ MayCommit
    /\ CanMerge(a, b)
    /\ AnyMerge \/ b = head
    /\ MergeTouches(a, b)
    /\ Begin(Commit(Join(StateOf(a), StateOf(b)),
                    Larger(a.tf.count, b.tf.count), <<a, b>>, message))
    /\ UNCHANGED <<disk, up, head, tops, branches, faults>>

\* project(): reads one channel of a commit and touches it.
Project(c, ch) ==
    /\ Ready
    /\ {c, c.trees[ch]} \subseteq objects
    /\ TouchAll({StateOf(c)[ch]})
    /\ UNCHANGED <<disk, up, head, tops, branches, op, made, faults>>

SetBranch(name, c) ==
    /\ Ready
    /\ branches' = [branches EXCEPT ![name] = c]
    /\ UNCHANGED <<disk, up, head, tops, lut, op, made, faults>>

-----------------------------------------------------------------------------
(* gc() and gc_to(): mark, optionally archive, then delete one by one.     *)

Roots == ({head} \union {branches[name] : name \in BranchNames}) \ {NoHead}

Gc(keep, archiving) ==
    /\ Ready
    /\ LET doomed == Files \ Mark(Roots \union keep) IN
         /\ doomed # {}
         /\ op' = IF archiving
                  THEN GcCall("archive", doomed, doomed, TRUE)
                  ELSE GcCall("delete", doomed, {}, FALSE)
    /\ UNCHANGED <<disk, memory, made, faults>>

\* An object that cannot be read is passed over.
ArchiveOne ==
    /\ op.pc = "archive"
    /\ \E o \in op.pending :
         /\ archive' = IF o \in objects THEN archive \union {o} ELSE archive
         /\ op' = GcCall(IF op.pending = {o} THEN "delete" ELSE "archive",
                         op.doomed, op.pending \ {o}, TRUE)
    /\ UNCHANGED <<objects, torn, headFile, memory, made, faults>>

\* Mutation of ArchiveErr: the failure is ignored and the deletes follow.
ArchiveErrIgnored ==
    /\ op.pc = "archive"
    /\ op.pending \cap objects # {}
    /\ faults < MaxFaults
    /\ faults' = faults + 1
    /\ op' = GcCall("delete", op.doomed, {}, TRUE)
    /\ UNCHANGED <<disk, memory, made>>

\* archive.put fails: gc_to returns before the first delete.
ArchiveErr ==
    /\ op.pc = "archive"
    /\ op.pending \cap objects # {}
    /\ faults < MaxFaults
    /\ faults' = faults + 1
    /\ op' = Idle
    /\ UNCHANGED <<disk, memory, made>>

AfterDelete(o) ==
    IF op.doomed = {o}
    THEN Idle
    ELSE GcCall("delete", op.doomed \ {o}, {}, op.archiving)

DeleteOne ==
    /\ op.pc = "delete"
    /\ \E o \in op.doomed :
         /\ objects' = objects \ {o}
         /\ torn' = torn \ {o}
         /\ op' = AfterDelete(o)
    /\ UNCHANGED <<headFile, archive, memory, made, faults>>

\* A failing delete is counted and the loop goes on.
DeleteErr ==
    /\ op.pc = "delete"
    /\ faults < MaxFaults
    /\ faults' = faults + 1
    /\ \E o \in op.doomed : op' = AfterDelete(o)
    /\ UNCHANGED <<disk, memory, made>>

-----------------------------------------------------------------------------
(* Failing store calls, crashes and restarts.                              *)

\* The object whose file the call in progress is writing.
Writing ==
    CASE op.pc = "tree"   -> {op.commit.trees[op.chan]}
      [] op.pc = "tf"     -> {op.commit.tf}
      [] op.pc = "commit" -> {op.commit}
      [] OTHER            -> {}

\* fs::write truncates before it writes: an interrupted one leaves the file
\* as it was, or, when TornWrites, truncated.
InterruptedPut ==
    \/ UNCHANGED <<objects, torn>>
    \/ /\ TornWrites
       /\ Writing # {}
       /\ objects' = objects \ Writing
       /\ torn' = torn \union Writing

InterruptedHead ==
    \/ UNCHANGED headFile
    \/ TornWrites /\ op.pc = "head" /\ headFile' = NoHead

\* store.put fails: commit returns Err and leaves the rest undone.
PutErr ==
    /\ Writing # {}
    /\ faults < MaxFaults
    /\ faults' = faults + 1
    /\ InterruptedPut
    /\ op' = Idle
    /\ UNCHANGED <<headFile, archive, memory, made>>

\* store.write_head fails: commit returns Err with tops and head advanced.
WriteHeadErr ==
    /\ op.pc = "head"
    /\ faults < MaxFaults
    /\ faults' = faults + 1
    /\ InterruptedHead
    /\ op' = Idle
    /\ UNCHANGED <<objects, torn, archive, memory, made>>

Crash ==
    /\ up
    /\ faults < MaxFaults
    /\ faults' = faults + 1
    /\ InterruptedPut
    /\ InterruptedHead
    /\ up' = FALSE
    /\ head' = NoHead
    /\ tops' = EmptyTops /\ branches' = NoBranches /\ lut' = {}
    /\ op' = Idle
    /\ UNCHANGED <<archive, made>>

\* Mutation of RebuiltTops: open does not rebuild the cache.
TopsNotRebuilt(h) == EmptyTops

\* rebuild_tops: nothing when the log fails; a commit whose blobs cannot
\* all be read is passed over.
RebuiltTops(h) ==
    IF LogOk(h)
    THEN [ch \in Channels |->
            UNION {c.trees[ch].data : c \in {w \in Log(h) : TreesOf(w) \subseteq objects}}]
    ELSE EmptyTops

Open ==
    /\ ~up
    /\ up' = TRUE
    /\ head' = headFile
    /\ tops' = RebuiltTops(headFile)
    /\ UNCHANGED <<disk, branches, lut, op, made, faults>>

-----------------------------------------------------------------------------

GcKeeps == {{}} \union {{c} : c \in Readable}

Next ==
    \/ \E pass \in Passes, tf \in Tfs, m \in Messages :
         Ingest(pass, tf, m) \/ CommitInteraction(pass, tf, m)
    \/ \E a, b \in Logged : Merge(a, b)
    \/ \E a, b \in Logged, m \in Messages : MergeCommit(a, b, m)
    \/ \E c \in Logged, ch \in Channels : Project(c, ch)
    \/ \E name \in BranchNames, c \in Logged : SetBranch(name, c)
    \/ \E keep \in GcKeeps, archiving \in BOOLEAN : Gc(keep, archiving)
    \/ PutTree \/ PutTf \/ PutCommit \/ WriteHead
    \/ ArchiveOne \/ ArchiveErr \/ DeleteOne \/ DeleteErr
    \/ PutErr \/ WriteHeadErr \/ Crash \/ Open

Spec == Init /\ [][Next]_vars

-----------------------------------------------------------------------------
(* Properties.                                                             *)

\* The shape of every object in either store.
IsBlob(o) == o.kind = "blob" /\ o.data \subseteq Bits
IsTf(o)   == o.kind = "tf" /\ o.count \in Nat
IsObject(o) ==
    \/ IsBlob(o) \/ IsTf(o)
    \/ /\ IsCommit(o)
       /\ DOMAIN o.trees = Channels /\ \A t \in TreesOf(o) : IsBlob(t)
       /\ IsTf(o.tf)
       /\ \A p \in Parents(o) : IsCommit(p)
       /\ o.message \in Messages

Stages == {"idle", "tree", "tf", "commit", "head", "archive", "delete"}

\* Types: every file is an object of one of the three shapes, no file is
\* both readable and torn, a process that is down has nothing in memory, a
\* call in progress belongs to a running process, the bounds hold.
TypeOK ==
    /\ \A o \in Files \union archive : IsObject(o)
    /\ objects \cap torn = {}
    /\ headFile # NoHead => IsCommit(headFile)
    /\ head # NoHead => IsCommit(head)
    /\ up \in BOOLEAN
    /\ ~up => head = NoHead /\ branches = NoBranches /\ op = Idle
    /\ tops \in [Channels -> SUBSET Bits]
    /\ DOMAIN branches = BranchNames
    /\ lut \subseteq SUBSET Bits
    /\ op.pc \in Stages
    /\ op.pc = "tree" => op.chan \in Channels
    /\ op.pc \in {"tree", "tf", "commit", "head"} =>
         IsObject(op.commit) /\ IsCommit(op.commit)
    /\ made \in 0..MaxCommits /\ faults \in 0..MaxFaults

\* The whole history of the HEAD file can be read, blobs included, at every
\* moment: between the puts of a commit, after a failed one, in the middle
\* of a gc, across a crash.
HeadFileIntact == headFile # NoHead => Intact(headFile)

\* The same for the head in memory and for every branch, the references gc
\* starts from.
RefsIntact ==
    /\ head # NoHead => Intact(head)
    /\ \A name \in BranchNames :
          branches[name] # NoHead => Intact(branches[name])

\* While a process runs, the persisted HEAD is its head or an ancestor of
\* it, also after write_head failed: gc never prunes what HEAD names.
HeadFileReached ==
    (up /\ headFile # NoHead) => headFile \in Reached(Readable, {head})

\* tops (the cache that decides whether ingest commits) is exactly the
\* union of the states reachable from head, whatever failed or restarted:
\* a pass that ingest skips is covered by committed history, and one that
\* brings a bit is never skipped.
TopsExact ==
    tops = [ch \in Channels |->
              UNION {c.trees[ch].data : c \in Logged}]

\* A commit about to become HEAD can be read with all it names, also when an
\* earlier crash had left one of these files truncated: a retry heals it.
CommitHeals ==
    op.pc = "head" => OwnObjects(op.commit) \subseteq objects

\* The HEAD file only ever moves to a descendant of the commit it named: no
\* crash, restart, failing write or retry drops committed history.
HistoryKept ==
    [][headFile # NoHead /\ headFile' # headFile
         => headFile' # NoHead
            /\ headFile \in Reached(CommitsIn(objects'), {headFile'})]_headFile

\* gc deletes nothing that head or a branch names through any number of
\* parents ("prune objects unreachable from HEAD, branches").
NeededFiles ==
    UNION {OwnObjects(c) : c \in Reached(CommitsIn(Files), Roots)}

GcPrunesOnlyUnreachable ==
    [][op.pc = "delete" =>
         (Files \ (objects' \union torn')) \cap NeededFiles = {}]_vars

\* gc_to: an object that can be read is deleted only once it is archived.
NeverForgotten ==
    [][op.pc = "delete" =>
         (op.archiving => objects \ objects' \subseteq archive)]_vars

-----------------------------------------------------------------------------
(* The inductive invariant behind HeadFileIntact and HistoryKept, for a    *)
(* store whose writes are not torn and merges that include HEAD.           *)

\* Whoever can read all of h's history finds c in it.
Descends(h, c) == \A K \in SUBSET Readable : (h \in K /\ Sound(K)) => c \in K

\* A commit call has put what its stage says, on top of readable parents.
CallSound ==
    /\ op.pc \in {"tree", "tf", "commit", "head"} =>
         /\ up /\ IsCommit(op.commit)
         /\ \A p \in Parents(op.commit) : Intact(p)
    /\ op.pc \in {"tree", "tf", "commit"} =>
         (head # NoHead => head \in Parents(op.commit))
    /\ op.pc = "tree" =>
         /\ op.chan \in Channels
         /\ \A ch \in 1..(op.chan - 1) : op.commit.trees[ch] \in objects
    /\ op.pc \in {"tf", "commit"} => TreesOf(op.commit) \subseteq objects
    /\ op.pc = "commit" => op.commit.tf \in objects
    /\ op.pc = "head" => head = op.commit

\* What gc is about to delete, no reference needs.
GcSpares ==
    op.pc \in {"archive", "delete"} =>
        /\ up
        /\ \A r \in Roots : \E K \in SUBSET Readable :
             /\ r \in K /\ Sound(K)
             /\ \A c \in K : OwnObjects(c) \cap op.doomed = {}

HeadDescends ==
    (up /\ headFile # NoHead) => (head # NoHead /\ Descends(head, headFile))

IInv ==
    /\ op.pc \in Stages
    /\ branches = [name \in BranchNames |-> branches[name]]
    /\ HeadFileIntact
    /\ RefsIntact
    /\ HeadDescends
    /\ CallSound
    /\ GcSpares

=============================================================================
