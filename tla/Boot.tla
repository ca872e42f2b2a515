-------------------------------- MODULE Boot --------------------------------
(* Booting the operational graph (crates/ewm-ops/src/main.rs, boot.rs,       *)
(* commit.rs): one process at a time works on the files of a boot store and   *)
(* the HEAD of a repository, and can die between any two writes and inside    *)
(* one.  A script stands for the CID of its text.                            *)
EXTENDS BootScript

CONSTANTS Graphs, Seeds, MaxSeeds, Unlimited, LogCap,   \* of Dispatcher
          Scripts,      \* the boot files
          DefaultFile,  \* what the pre-vocabulary `default` pointer names
          FireArgs,     \* values of --fires
          Cut,          \* the files a dying write leaves empty
          MaxBoots,     \* bound on the calls of `boot`
          MaxMoves,     \* bound on the calls of `rollback` and `prev`
          MaxCrashes    \* bound on the crashes

VARIABLES graph, values, stack, filled, log, status, maxFires, seeded  \* Dispatcher

VARIABLES
    blobs,      \* script -> the text in its blob
    latest,     \* the text of the latest pointer
    state,      \* the state file: <<>>, or the boot and the stack
    bootLog,    \* the lines of boot.log, each the pieces written on it
    open,       \* the last line of boot.log lacks its newline
    headFile,   \* the states of the commits HEAD reaches, oldest first
    phase,      \* what the process does next; "idle" between processes
    arg,        \* the boot file to install
    boot,       \* the boot CID this process resolved
    head,       \* the states of the commits the process's Repository reaches
    repo,       \* whether --repo is given
    calls, moves, crashes,   \* bounds, counted
    finished,   \* boots that appended their log entry (a history)
    cutLogs,    \* crashes inside log_boot (a history)
    emptied     \* scripts whose blob a dying put_boot left empty (a history)

dispatcher == <<graph, values, stack, filled, log, status, maxFires, seeded>>
files == <<blobs, latest, state, bootLog, open, headFile>>
local == <<phase, arg, boot, head, repo>>
counts == <<calls, moves, crashes, finished, cutLogs, emptied>>
vars == <<dispatcher, files, local, counts>>

D == INSTANCE Dispatcher

None == <<>>   \* a pointer file that is missing or empty

\* A boot file is not empty.  Its value lines carry HLLSets, its arities are
\* numbers and its lists are lists, and the source of a program holds no value but
\* by name.
ASSUME ScriptsAssumption ==
    /\ Scripts \subseteq Seq(UNION {ToSet(b) : b \in Scripts}) \ {None}
    /\ DefaultFile \in Scripts \cup {None}
    /\ \A b \in Scripts : \A l \in ToSet(b) :
          /\ l[1] = "value" => l[3] \in Value
          /\ l[1] = "stack" => l[2] \in Seq(ToSet(l[2]))
          /\ l[1] = "def" => /\ l[3] \in Nat /\ l[4] \in Nat /\ l[5] \in Seq(ToSet(l[5]))
                             /\ \A w \in ToSet(l[5]) : w[1] # "value"

-----------------------------------------------------------------------------
(* Reading the store.                                                      *)

has_boot(b) == b \in DOMAIN blobs

\* The boot to start: latest, else the default pointer; none if neither resolves.
latest_cid ==
    CASE has_boot(latest)      -> {latest}
      [] ~has_boot(latest) /\ has_boot(DefaultFile) -> {DefaultFile}
      [] OTHER                 -> {}

\* Mutation of Resumes: the boot the state was produced under is not compared.
ResumesAny(b) == state # <<>>

\* The persisted state belongs to boot b.
Resumes(b) == state # <<>> /\ state[1] = b

\* The lines that read_log returns: a record, and nothing else on its line.
read_log == {i \in DOMAIN bootLog : Len(bootLog[i]) = 1 /\ bootLog[i][1] # <<>>}

Recorded(i) == bootLog[i][1]

\* boot.log with `piece` written at its end.
Written(piece) ==
    IF open THEN [bootLog EXCEPT ![Len(bootLog)] = Append(@, piece)]
    ELSE Append(bootLog, <<piece>>)

GraphOf(p) == [prog |-> p.prog, edges |-> p.edges, literals |-> p.literals, fires |-> {}]

\* What a process holds when none runs.
Stopped ==
    /\ graph' = GraphOf(EmptyProgram) /\ values' = {} /\ stack' = <<>> /\ filled' = <<>>
    /\ log' = <<>> /\ status' = "New" /\ maxFires' = 0 /\ seeded' = <<>>
    /\ phase' = "idle" /\ arg' = <<>> /\ boot' = <<>> /\ head' = <<>> /\ repo' = FALSE

Init ==
    /\ blobs = IF DefaultFile = None THEN <<>> ELSE Inserted(<<>>, DefaultFile, DefaultFile)
    /\ latest = None /\ state = <<>> /\ bootLog = <<>> /\ open = FALSE /\ headFile = <<>>
    /\ graph = GraphOf(EmptyProgram) /\ values = {} /\ stack = <<>> /\ filled = <<>>
    /\ log = <<>> /\ status = "New" /\ maxFires = 0 /\ seeded = <<>>
    /\ phase = "idle" /\ arg = <<>> /\ boot = <<>> /\ head = <<>> /\ repo = FALSE
    /\ calls = 0 /\ moves = 0 /\ crashes = 0 /\ finished = 0 /\ cutLogs = 0 /\ emptied = {}

-----------------------------------------------------------------------------
(* boot.                                                                   *)

Starts(first, b, r) ==
    /\ phase = "idle" /\ calls < MaxBoots
    /\ calls' = calls + 1
    /\ phase' = first /\ arg' = b /\ repo' = r
    /\ UNCHANGED <<dispatcher, files, boot, head, moves, crashes, finished, cutLogs, emptied>>

\* boot --boot FILE, boot --boot CID of a stored boot, boot.
BootFile(b, r) == Starts("put_boot", b, r)
BootCid(b, r)  == has_boot(b) /\ Starts("set_latest", b, r)
BootLatest(r)  == Starts("load", <<>>, r)

put_boot ==
    /\ phase = "put_boot"
    /\ blobs' = Inserted(blobs, arg, arg)
    /\ phase' = "set_latest"
    /\ UNCHANGED <<dispatcher, latest, state, bootLog, open, headFile, arg, boot, head,
                   repo, counts>>

set_latest ==
    /\ phase = "set_latest"
    /\ latest' = arg
    /\ phase' = "load"
    /\ UNCHANGED <<dispatcher, blobs, state, bootLog, open, headFile, arg, boot, head, repo,
                   counts>>

\* The stack a boot starts from.
seed_stack(b, p) == IF Resumes(b) THEN state[2] ELSE p.stack

Budget(p, n) == IF p.fires > 0 \/ n > 0 THEN Max({p.fires, n}) ELSE Unlimited

\* Resolve latest, compile its blob, pick up the state and seed the dispatcher.
Load(n) ==
    /\ phase = "load"
    /\ \E b \in latest_cid : \E p \in compile_boot(blobs[b]) :
        /\ boot' = b
        /\ graph' = GraphOf(p) /\ values' = p.literals
        /\ seeded' = seed_stack(b, p)
        /\ stack' = [i \in DOMAIN seeded' |-> <<"value", seeded'[i]>>]
        /\ status' = "running" /\ maxFires' = Budget(p, n)
    /\ phase' = "dispatch"
    /\ UNCHANGED <<files, filled, log, arg, head, repo, counts>>

\* There is no boot file, or it does not compile.
LoadFails ==
    /\ phase = "load"
    /\ \A b \in latest_cid : ~Compiles(blobs[b])
    /\ Stopped
    /\ UNCHANGED <<files, counts>>

\* One step of the dispatcher; the predicate of boot is always false.
Dispatch ==
    /\ phase = "dispatch" /\ status = "running"
    /\ D!Pop
    /\ status' # "Predicate"
    /\ UNCHANGED <<files, local, counts>>

DispatchDone ==
    /\ phase = "dispatch" /\ status \in D!Stopped
    /\ phase' = IF repo THEN "commit" ELSE "save_state"
    /\ UNCHANGED <<dispatcher, files, arg, boot, head, repo, counts>>

\* run_until or a commit returned an error: nothing more is written.
BootFails ==
    /\ \/ phase = "dispatch" /\ status \in D!Errors
       \/ phase = "commit"
    /\ Stopped
    /\ UNCHANGED <<files, counts>>

StateOf(record) == UNION ToSet(record.outputs)

\* Mutation of commit_record: every commit is a root.
commit_root ==
    /\ phase = "commit" /\ Len(head) < Len(log)
    /\ headFile' = <<StateOf(log[Len(head) + 1])>>
    /\ head' = Append(head, StateOf(log[Len(head) + 1]))
    /\ UNCHANGED <<dispatcher, blobs, latest, state, bootLog, open, phase, arg, boot, repo,
                   counts>>

\* commit_fire_log, one record: the parent is the head of this process's
\* Repository, which Repository::new starts without one; HEAD is written.
commit_record ==
    /\ phase = "commit" /\ Len(head) < Len(log)
    /\ head' = Append(head, StateOf(log[Len(head) + 1]))
    /\ headFile' = head'
    /\ UNCHANGED <<dispatcher, blobs, latest, state, bootLog, open, phase, arg, boot, repo,
                   counts>>

Committed ==
    /\ phase = "commit" /\ Len(head) = Len(log)
    /\ phase' = "save_state"
    /\ UNCHANGED <<dispatcher, files, arg, boot, head, repo, counts>>

produced_values == FlattenSeq([i \in DOMAIN log |-> log[i].outputs])

\* Mutation of new_stack: what was produced, also when nothing fired.
produced_stack == produced_values

new_stack == IF produced_values = <<>> THEN seeded ELSE produced_values

save_state ==
    /\ phase = "save_state"
    /\ state' = <<boot, new_stack>>
    /\ phase' = "log_boot"
    /\ UNCHANGED <<dispatcher, blobs, latest, bootLog, open, headFile, arg, boot, head, repo,
                   counts>>

\* log_boot writes the record, then the newline.
log_boot ==
    /\ phase = "log_boot"
    /\ bootLog' = Written(boot)
    /\ open' = TRUE
    /\ phase' = "newline"
    /\ UNCHANGED <<dispatcher, blobs, latest, state, headFile, arg, boot, head, repo, counts>>

\* Mutation of newline: it is never written.
no_newline ==
    /\ phase = "newline"
    /\ finished' = finished + 1
    /\ Stopped
    /\ UNCHANGED <<files, calls, moves, crashes, cutLogs, emptied>>

newline ==
    /\ phase = "newline"
    /\ open' = FALSE
    /\ finished' = finished + 1
    /\ Stopped
    /\ UNCHANGED <<blobs, latest, state, bootLog, headFile, calls, moves, crashes, cutLogs, emptied>>

-----------------------------------------------------------------------------
(* rollback, prev, and the death of a process.                             *)

Points(b) ==
    /\ phase = "idle" /\ moves < MaxMoves /\ has_boot(b)
    /\ latest' = b
    /\ moves' = moves + 1
    /\ UNCHANGED <<dispatcher, blobs, state, bootLog, open, headFile, local, calls, crashes,
                   finished, cutLogs, emptied>>

rollback(b) == Points(b)

\* The most recent boot in the log that is not the current one and is stored.
rollback_previous ==
    \E current \in latest_cid, i \in read_log :
        /\ Recorded(i) # current /\ has_boot(Recorded(i))
        /\ \A j \in read_log :
            j > i => Recorded(j) = current \/ ~has_boot(Recorded(j))
        /\ Points(Recorded(i))

\* The process dies inside the write it is about to make: the file is empty, and
\* boot.log ends in the middle of a record.
DiesWriting ==
    /\ IF phase = "put_boot" /\ "blob" \in Cut
       THEN blobs' = Inserted(blobs, arg, <<>>) /\ emptied' = emptied \union {arg}
       ELSE UNCHANGED <<blobs, emptied>>
    /\ latest' = IF phase = "set_latest" /\ "latest" \in Cut THEN None ELSE latest
    /\ state' = IF phase = "save_state" /\ "state" \in Cut THEN <<>> ELSE state
    /\ IF phase = "log_boot" /\ "log" \in Cut
       THEN bootLog' = Written(<<>>) /\ open' = TRUE
       ELSE UNCHANGED <<bootLog, open>>

Crash ==
    /\ phase # "idle" /\ crashes < MaxCrashes
    /\ crashes' = crashes + 1
    /\ cutLogs' = IF phase \in {"log_boot", "newline"} THEN cutLogs + 1 ELSE cutLogs
    /\ DiesWriting \/ UNCHANGED <<blobs, latest, state, bootLog, open, emptied>>
    /\ Stopped
    /\ UNCHANGED <<headFile, calls, moves, finished>>

Next ==
    \/ \E b \in Scripts, r \in BOOLEAN : BootFile(b, r) \/ BootCid(b, r)
    \/ \E r \in BOOLEAN : BootLatest(r)
    \/ put_boot \/ set_latest \/ (\E n \in FireArgs : Load(n)) \/ LoadFails
    \/ Dispatch \/ DispatchDone \/ BootFails
    \/ commit_record \/ Committed \/ save_state \/ log_boot \/ newline
    \/ (\E b \in Scripts : rollback(b)) \/ rollback_previous
    \/ Crash

Spec == Init /\ [][Next]_vars

-----------------------------------------------------------------------------
(* Properties.                                                             *)

\* Names resolve when the script compiles, so a program that runs never meets a
\* literal that is not stored or a callee that is not in the table, and never
\* calls itself, however names are defined again: every set of programs
\* has one that calls no other of the set.
ProgramsGrounded ==
    /\ \A o \in DOMAIN graph.prog : \A w \in ToSet(graph.prog[o].words) :
        /\ w[1] = "value" => w[2] \in graph.literals
        /\ w[1] = "call" => w[2] \in DOMAIN graph.prog
    /\ \A S \in SUBSET DOMAIN graph.prog : S # {} =>
        \E o \in S : \A w \in ToSet(graph.prog[o].words) : ~(w[1] = "call" /\ w[2] \in S)

\* The values a boot can ever hold: its literals, its stack and whatever its
\* programs make of them, in any order.
Reach(p) ==
    LET Step(V) == V \cup UNION {UNION {UNION {ToSet(outs) :
                        outs \in Outcome(p.prog, o, ins, Value)} :
                            ins \in [1..p.prog[o].arity -> V]} : o \in DOMAIN p.prog}
        From[k \in 0..Cardinality(Value)] ==
            IF k = 0 THEN p.literals \cup ToSet(p.stack) ELSE Step(From[k - 1])
    IN  From[Cardinality(Value)]

Reachable == [b \in Scripts |-> IF Compiles(b) THEN Reach(Compiled(b)) ELSE {}]

\* The persisted stack belongs to the boot it is filed under: it holds only values
\* that boot's own programs can make of its own values, through changes of
\* the boot file, rollbacks, failing boots and crashes.
StateBelongs ==
    state # <<>> => ToSet(state[2]) \subseteq Reachable[state[1]]

\* A boot whose script has a stack never starts from nothing, whatever was booted,
\* failed or died before, unless a put_boot of this very script died inside its
\* write: an empty stack, once saved, would stay.
NeverStartsEmpty ==
    phase = "dispatch" /\ boot \notin emptied /\ Compiled(boot).stack # <<>>
        => seeded # <<>>

\* The stack a boot picks up was produced under the script it runs (main.rs:143-144
\* with boot.rs:3-4): a boot whose blob holds its whole text does not start from
\* nothing if that text has a stack.  A blob that was cut and stored again breaks
\* it: in between, the empty text ran under the CID and saved its empty stack.
PicksUpItsOwn ==
    phase = "dispatch" /\ blobs[boot] = boot /\ Compiled(boot).stack # <<>>
        => seeded # <<>>

\* A crash inside log_boot costs the record it was writing and the one that
\* is later written on the same line, never an older one.
LogLoss == Cardinality(read_log) >= finished - cutLogs

\* HEAD reaches the firings of one boot, in order, from its first to the last that
\* it has committed, and all of them when the commits are made: never those of
\* two boots, although HEAD goes from one to the other record by record.  What it
\* reached before is orphaned, as each process starts a root (main.rs:165).
OneTrajectory ==
    repo /\ phase \in {"commit", "save_state", "log_boot", "newline"} =>
        LET trajectory == [i \in DOMAIN log |-> StateOf(log[i])] IN
        /\ head # <<>> => IsPrefix(headFile, trajectory)
        /\ phase # "commit" => log = <<>> \/ headFile = trajectory

\* The parent of a commit is the repository HEAD, which makes the trajectory
\* durable (commit.rs:5-7): HEAD only moves to descendants.  A second boot with
\* --repo breaks it.
HeadIsParent == [][IsPrefix(headFile, headFile')]_vars

=============================================================================
