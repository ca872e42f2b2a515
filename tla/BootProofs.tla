---------------------------- MODULE BootProofs ----------------------------
(***************************************************************************)
(* Proofs about the boot store, its scripts and its commits (Boot.tla):     *)
(* the log accounts for the boots that finished, a boot commits the states  *)
(* its firings reached, a stack that a script gives is not lost, a script   *)
(* compiles to one program whose references resolve, and the values of a    *)
(* boot stay among those that its own program can make.                     *)
(*                                                                         *)
(* The compiler and the reach of a program are recursive functions over     *)
(* numbers: what holds of every prefix of a script, or of every depth, is   *)
(* proved from a least counterexample.                                      *)
(***************************************************************************)
EXTENDS Boot, FiniteSetTheorems, TLAPS

\* What DispatcherProofs proves of numbers and of programs needs no graph and no
\* bound.
Facts == INSTANCE DispatcherProofs WITH
            Graphs <- {}, Seeds <- {}, MaxSeeds <- 0, LogCap <- 0, Unlimited <- 1

\* Its assumptions hold for these constants.
LEMMA FactsApply == Facts!CallDepthNat /\ Facts!BudgetAssumption /\ Facts!GraphAssumption
BY CallDepthNat

Piece == Scripts \union {None}

\* A boot of a resolved boot file is in progress.
Booting == {"dispatch", "commit", "save_state", "log_boot", "newline"}

\* Types, as far as the properties need them.
BootType ==
    /\ DOMAIN blobs \subseteq Scripts
    /\ DefaultFile # None => DefaultFile \in DOMAIN blobs
    /\ phase \in {"put_boot", "set_latest"} => arg \in Scripts
    /\ phase = "set_latest" => arg \in DOMAIN blobs
    /\ phase \in Booting => boot \in DOMAIN blobs
    /\ repo \in BOOLEAN
    /\ bootLog \in Seq(Seq(Piece) \ {<<>>})
    /\ open \in BOOLEAN /\ (open => bootLog # <<>>)
    /\ calls \in Nat /\ moves \in Nat /\ crashes \in Nat /\ finished \in Nat /\ cutLogs \in Nat

\* The store before or after a write of the process, whole or cut short.
LEMMA InsertedDomain ==
    ASSUME NEW f, NEW n, NEW v
    PROVE  /\ DOMAIN Inserted(f, n, v) = DOMAIN f \union {n}
           /\ \A x \in DOMAIN f \union {n} : Inserted(f, n, v)[x] = IF x = n THEN v ELSE f[x]
BY DEF Inserted

\* A written piece is a script of lines.
LEMMA WrittenType ==
    ASSUME BootType, NEW piece \in Piece
    PROVE  Written(piece) \in Seq(Seq(Piece) \ {<<>>}) /\ Written(piece) # <<>>
<1> DEFINE L == Seq(Piece) \ {<<>>}
<1>1. bootLog \in Seq(L) /\ (open => bootLog # <<>>)
    BY DEF BootType
<1>2. CASE open
    <2>1. Len(bootLog) \in 1..Len(bootLog) /\ Len(bootLog) \in Nat
        BY <1>1, <1>2
    <2>2. bootLog[Len(bootLog)] \in Seq(Piece)
        BY <1>1, <2>1
    <2>3. Append(bootLog[Len(bootLog)], piece) \in L
        <3> DEFINE l == bootLog[Len(bootLog)]
        <3>1. l \in Seq(Piece)
            BY <2>2
        <3> HIDE DEF l
        <3>2. Append(l, piece) \in Seq(Piece) /\ Len(Append(l, piece)) = Len(l) + 1 /\ Len(l) \in Nat
            BY <3>1
        <3>3. Append(l, piece) # <<>>
            BY <3>2
        <3> QED BY <3>2, <3>3 DEF l
    <2> HIDE DEF L
    <2>4. [bootLog EXCEPT ![Len(bootLog)] = Append(@, piece)] \in Seq(L)
        BY <1>1, <2>1, <2>3
    <2>5. Len([bootLog EXCEPT ![Len(bootLog)] = Append(@, piece)]) = Len(bootLog)
        BY <1>1
    <2> QED BY <1>2, <2>1, <2>4, <2>5 DEF Written, L
<1>3. CASE ~open
    <2>1. <<piece>> \in L
        OBVIOUS
    <2> HIDE DEF L
    <2>2. Append(bootLog, <<piece>>) \in Seq(L) /\ Append(bootLog, <<piece>>) # <<>>
        BY <1>1, <2>1
    <2> QED BY <1>3, <2>2 DEF Written, L
<1> QED
    BY <1>2, <1>3

\* The type invariant at the start.
LEMMA InitBootType == Init => BootType
<1> SUFFICES ASSUME Init
             PROVE  BootType
    OBVIOUS
<1>1. DOMAIN blobs = {DefaultFile} \ {None}
    <2>1. CASE DefaultFile = None
        <3>1. blobs = <<>>
            BY <2>1 DEF Init
        <3> QED BY <2>1, <3>1
    <2>2. CASE DefaultFile # None
        <3>1. blobs = Inserted(<<>>, DefaultFile, DefaultFile)
            BY <2>2 DEF Init
        <3>2. DOMAIN blobs = DOMAIN <<>> \union {DefaultFile}
            BY <3>1, InsertedDomain
        <3>3. DOMAIN <<>> = {}
            OBVIOUS
        <3> QED BY <2>2, <3>2, <3>3
    <2> QED BY <2>1, <2>2
<1>2. /\ bootLog = <<>> /\ open = FALSE /\ phase = "idle" /\ repo = FALSE
      /\ calls = 0 /\ moves = 0 /\ crashes = 0 /\ finished = 0 /\ cutLogs = 0
    BY DEF Init
<1>3. bootLog \in Seq(Seq(Piece) \ {<<>>})
    BY <1>2
<1> QED
    BY <1>1, <1>2, <1>3, ScriptsAssumption DEF BootType, Booting

\* The process goes on, or is gone, and the files are as they were.
LEMMA TypeKept ==
    ASSUME BootType, UNCHANGED <<blobs, bootLog, open>>,
           /\ calls' \in Nat /\ moves' \in Nat /\ crashes' \in Nat
           /\ finished' \in Nat /\ cutLogs' \in Nat,
           repo' \in BOOLEAN,
           \/ phase' \notin {"put_boot", "set_latest"} \union Booting
           \/ phase' \in Booting /\ boot' \in DOMAIN blobs
           \/ phase' = phase /\ arg' = arg /\ boot' = boot
    PROVE  BootType'
<1>1. phase' \in {"put_boot", "set_latest"} => arg' \in Scripts
    BY DEF BootType, Booting
<1>2. phase' = "set_latest" => arg' \in DOMAIN blobs'
    BY DEF BootType, Booting
<1>3. phase' \in Booting => boot' \in DOMAIN blobs'
    BY DEF BootType
<1> QED
    BY <1>1, <1>2, <1>3 DEF BootType

\* The latest script is a stored script.
LEMMA LatestStored ==
    ASSUME BootType, NEW b \in latest_cid
    PROVE  b \in DOMAIN blobs /\ b \in Scripts
BY DEF BootType, latest_cid, has_boot

\* The first phase of a boot keeps the type invariant.
LEMMA StartsType ==
    ASSUME BootType, NEW b, NEW r \in BOOLEAN, NEW first \in {"put_boot", "set_latest", "load"},
           first # "load" => b \in Scripts, first = "set_latest" => b \in DOMAIN blobs,
           Starts(first, b, r)
    PROVE  BootType'
<1>1. /\ UNCHANGED <<blobs, bootLog, open, moves, crashes, finished, cutLogs>> /\ calls' = calls + 1
      /\ phase' = first /\ arg' = b /\ repo' = r
    BY DEF Starts, files
<1>2. phase' \notin Booting
    BY <1>1 DEF Booting
<1> QED
    BY <1>1, <1>2 DEF BootType

\* put_boot keeps it.
LEMMA PutBootType ==
    ASSUME BootType, put_boot
    PROVE  BootType'
<1>1. /\ phase = "put_boot" /\ blobs' = Inserted(blobs, arg, arg) /\ phase' = "set_latest"
      /\ UNCHANGED <<arg, repo, bootLog, open, calls, moves, crashes, finished, cutLogs>>
    BY DEF put_boot, counts
<1>2. DOMAIN blobs' = DOMAIN blobs \union {arg} /\ arg \in Scripts
    BY <1>1, InsertedDomain DEF BootType
<1>3. phase' \notin Booting
    BY <1>1 DEF Booting
<1> QED
    BY <1>1, <1>2, <1>3 DEF BootType

\* A crash keeps it.
LEMMA CrashType ==
    ASSUME BootType, Crash
    PROVE  BootType'
<1>1. /\ phase' = "idle" /\ repo' = FALSE /\ crashes' = crashes + 1
      /\ cutLogs' \in {cutLogs, cutLogs + 1} /\ UNCHANGED <<calls, moves, finished>>
    BY DEF Crash, Stopped
<1>2. /\ DOMAIN blobs \subseteq DOMAIN blobs' /\ DOMAIN blobs' \subseteq Scripts
      /\ bootLog' \in Seq(Seq(Piece) \ {<<>>}) /\ open' \in BOOLEAN /\ (open' => bootLog' # <<>>)
    <2>1. CASE DiesWriting
        <3>1. DOMAIN blobs \subseteq DOMAIN blobs' /\ DOMAIN blobs' \subseteq Scripts
            <4>1. CASE phase = "put_boot" /\ "blob" \in Cut
                <5>1. blobs' = Inserted(blobs, arg, <<>>)
                    BY <2>1, <4>1 DEF DiesWriting
                <5>2. DOMAIN blobs' = DOMAIN blobs \union {arg}
                    BY <5>1, InsertedDomain
                <5> QED BY <4>1, <5>2 DEF BootType
            <4>2. CASE ~(phase = "put_boot" /\ "blob" \in Cut)
                BY <2>1, <4>2 DEF DiesWriting, BootType
            <4> QED BY <4>1, <4>2
        <3>2. CASE phase = "log_boot" /\ "log" \in Cut
            <4>1. bootLog' = Written(<<>>) /\ open' = TRUE
                BY <2>1, <3>2 DEF DiesWriting
            <4>2. <<>> \in Piece
                BY DEF Piece, None
            <4> QED BY <3>1, <4>1, <4>2, WrittenType
        <3>3. CASE ~(phase = "log_boot" /\ "log" \in Cut)
            <4>1. UNCHANGED <<bootLog, open>>
                BY <2>1, <3>3 DEF DiesWriting
            <4> QED BY <3>1, <4>1 DEF BootType
        <3> QED BY <3>2, <3>3
    <2>2. CASE UNCHANGED <<blobs, latest, state, bootLog, open>>
        BY <2>2 DEF BootType
    <2> QED BY <2>1, <2>2 DEF Crash
<1>3. phase' \notin {"put_boot", "set_latest"} \union Booting
    BY <1>1 DEF Booting
<1>4. calls' \in Nat /\ moves' \in Nat /\ crashes' \in Nat /\ finished' \in Nat /\ cutLogs' \in Nat
    BY <1>1 DEF BootType
<1>5. DefaultFile # None => DefaultFile \in DOMAIN blobs'
    BY <1>2 DEF BootType
<1> HIDE DEF BootType
<1> QED
    BY <1>1, <1>2, <1>3, <1>4, <1>5 DEF BootType

\* Every step keeps it.
LEMMA NextBootType ==
    ASSUME BootType, [Next]_vars
    PROVE  BootType'
<1>0. /\ calls \in Nat /\ moves \in Nat /\ crashes \in Nat /\ finished \in Nat /\ cutLogs \in Nat
      /\ repo \in BOOLEAN
    BY DEF BootType
<1>1. CASE UNCHANGED vars
    <2>1. UNCHANGED <<blobs, bootLog, open, calls, moves, crashes, finished, cutLogs, repo, phase, arg, boot>>
        BY <1>1 DEF vars, files, local, counts
    <2> QED BY <1>0, <2>1, TypeKept
<1>2. ASSUME NEW b \in Scripts, NEW r \in BOOLEAN, BootFile(b, r) \/ BootCid(b, r)
      PROVE  BootType'
    BY <1>2, StartsType DEF BootFile, BootCid, has_boot
<1>3. ASSUME NEW r \in BOOLEAN, BootLatest(r)
      PROVE  BootType'
    BY <1>3, StartsType DEF BootLatest
<1>4. CASE put_boot
    BY <1>4, PutBootType
<1>5. CASE set_latest
    <2>1. UNCHANGED <<blobs, bootLog, open, calls, moves, crashes, finished, cutLogs, repo>>
          /\ phase' = "load"
        BY <1>5 DEF set_latest, counts
    <2> QED BY <1>0, <2>1, TypeKept DEF Booting
<1>6. ASSUME NEW n, Load(n)
      PROVE  BootType'
    <2>1. UNCHANGED <<blobs, bootLog, open, calls, moves, crashes, finished, cutLogs, repo>>
          /\ phase' = "dispatch" /\ boot' \in latest_cid
        BY <1>6 DEF Load, counts, files
    <2> QED BY <1>0, <2>1, TypeKept, LatestStored DEF Booting
<1>7. CASE LoadFails \/ BootFails
    <2>1. UNCHANGED <<blobs, bootLog, open, calls, moves, crashes, finished, cutLogs>>
          /\ phase' = "idle" /\ repo' = FALSE
        BY <1>7 DEF LoadFails, BootFails, counts, files, Stopped
    <2> QED BY <1>0, <2>1, TypeKept DEF Booting
<1>8. CASE Dispatch
    <2>1. UNCHANGED <<blobs, bootLog, open, calls, moves, crashes, finished, cutLogs, repo, phase, arg, boot>>
        BY <1>8 DEF Dispatch, files, local, counts
    <2> QED BY <1>0, <2>1, TypeKept
<1>9. CASE DispatchDone \/ commit_record \/ Committed \/ save_state
    <2>1. UNCHANGED <<blobs, bootLog, open, calls, moves, crashes, finished, cutLogs, repo, boot>>
          /\ phase \in Booting /\ phase' \in Booting
        BY <1>9 DEF DispatchDone, commit_record, Committed, save_state, counts, files, Booting
    <2>2. boot' \in DOMAIN blobs
        BY <2>1 DEF BootType
    <2> QED BY <1>0, <2>1, <2>2, TypeKept
<1>10. CASE log_boot
    <2>1. UNCHANGED <<blobs, calls, moves, crashes, finished, cutLogs, repo, boot>>
          /\ phase \in Booting /\ phase' = "newline" /\ phase' \in Booting
          /\ bootLog' = Written(boot) /\ open' = TRUE
        BY <1>10 DEF log_boot, counts, Booting
    <2>2. boot \in Piece
        BY <2>1 DEF BootType, Piece
    <2>3. bootLog' \in Seq(Seq(Piece) \ {<<>>}) /\ bootLog' # <<>>
        BY <2>1, <2>2, WrittenType
    <2>4. boot \in DOMAIN blobs
        BY <2>1 DEF BootType
    <2>5. phase' \notin {"put_boot", "set_latest"}
        BY <2>1
    <2>6. /\ DOMAIN blobs' \subseteq Scripts /\ (DefaultFile # None => DefaultFile \in DOMAIN blobs')
          /\ calls' \in Nat /\ moves' \in Nat /\ crashes' \in Nat /\ finished' \in Nat /\ cutLogs' \in Nat
          /\ repo' \in BOOLEAN /\ boot' \in DOMAIN blobs'
        BY <2>1, <2>4 DEF BootType
    <2>7. open' \in BOOLEAN
        BY <2>1
    <2>8. /\ phase' \in {"put_boot", "set_latest"} => arg' \in Scripts
          /\ phase' = "set_latest" => arg' \in DOMAIN blobs'
          /\ phase' \in Booting => boot' \in DOMAIN blobs'
        BY <2>5, <2>6
    <2> QED BY <2>3, <2>6, <2>7, <2>8, Zenon DEF BootType
<1>11. CASE newline
    <2>1. UNCHANGED <<blobs, bootLog, calls, moves, crashes, cutLogs>>
          /\ phase' = "idle" /\ repo' = FALSE /\ open' = FALSE /\ finished' = finished + 1
        BY <1>11 DEF newline, Stopped
    <2>2. phase' \notin {"put_boot", "set_latest"} \union Booting
        BY <2>1 DEF Booting
    <2>3. /\ DOMAIN blobs' \subseteq Scripts /\ (DefaultFile # None => DefaultFile \in DOMAIN blobs')
          /\ calls' \in Nat /\ moves' \in Nat /\ crashes' \in Nat /\ finished' \in Nat /\ cutLogs' \in Nat
        BY <2>1 DEF BootType
    <2>5. repo' \in BOOLEAN /\ open' \in BOOLEAN /\ ~open'
        BY <2>1
    <2>4. bootLog' \in Seq(Seq(Piece) \ {<<>>})
        BY <2>1 DEF BootType
    <2> QED BY <2>2, <2>3, <2>4, <2>5, Zenon DEF BootType
<1>12. ASSUME NEW b, Points(b)
       PROVE  BootType'
    <2>1. UNCHANGED <<blobs, bootLog, open, calls, crashes, finished, cutLogs, repo, phase, arg, boot>>
          /\ moves' = moves + 1
        BY <1>12 DEF Points, local
    <2> QED BY <1>0, <2>1, TypeKept
<1>13. CASE Crash
    BY <1>13, CrashType
<1> QED
    BY <1>1, <1>2, <1>3, <1>4, <1>5, <1>6, <1>7, <1>8, <1>9, <1>10, <1>11, <1>12, <1>13
       DEF Next, rollback, rollback_previous

-----------------------------------------------------------------------------
(* The boot log.                                                            *)

Records(L) == {i \in DOMAIN L : Len(L[i]) = 1 /\ L[i][1] # <<>>}

\* The last line is a record, though its newline is missing.
LastWhole == IF open /\ Len(bootLog) \in read_log THEN 1 ELSE 0

\* The records on the log and the crashes inside log_boot account for the boots
\* that finished, for the one that only lacks its newline, and, between processes, for
\* the record that the next one would spoil.
LogAccount ==
    /\ phase = "newline" => open /\ Cardinality(read_log) + cutLogs >= finished + 1
    /\ phase # "newline" /\ open =>
            Cardinality(read_log) + cutLogs >= finished + 1 + LastWhole
    /\ ~open => Cardinality(read_log) + cutLogs >= finished

\* A piece written on an unfinished line spoils it; on a new line it is a
\* record, unless it is empty.
LEMMA WrittenRecords ==
    ASSUME BootType, NEW piece \in Piece
    PROVE  /\ open => Records(Written(piece)) = read_log \ {Len(bootLog)}
           /\ ~open => Records(Written(piece)) =
                read_log \union (IF piece = <<>> THEN {} ELSE {Len(bootLog) + 1})
           /\ open => Len(Written(piece)) = Len(bootLog)
           /\ ~open => Len(bootLog) + 1 \notin read_log
<1> DEFINE n == Len(bootLog)
<1>1. /\ bootLog \in Seq(Seq(Piece) \ {<<>>}) /\ (open => bootLog # <<>>) /\ n \in Nat
      /\ DOMAIN bootLog = 1..n
    BY DEF BootType
<1>2. CASE open
    <2> DEFINE W == [bootLog EXCEPT ![n] = Append(@, piece)]
    <2>1. n \in 1..n
        BY <1>1, <1>2
    <2>2. DOMAIN W = 1..n /\ W[n] = Append(bootLog[n], piece) /\ \A i \in (1..n) \ {n} : W[i] = bootLog[i]
        BY <1>1, <2>1
    <2>3. Len(Append(bootLog[n], piece)) # 1
        <3> DEFINE l == bootLog[n]
        <3>1. l \in Seq(Piece) /\ l # <<>>
            BY <1>1, <2>1
        <3> HIDE DEF l
        <3>2. Len(Append(l, piece)) = Len(l) + 1 /\ Len(l) \in Nat /\ Len(l) # 0
            BY <3>1
        <3>3. Len(Append(l, piece)) # 1
            BY <3>2
        <3> QED BY <3>3 DEF l
    <2>4. Written(piece) = W
        BY <1>2 DEF Written
    <2>5. Len(W) = n
        BY <1>1
    <2> HIDE DEF W, n
    <2>6. Records(W) = Records(bootLog) \ {n}
        BY <1>1, <2>1, <2>2, <2>3 DEF Records
    <2> QED BY <1>2, <2>4, <2>5, <2>6 DEF Records, read_log, n
<1>3. CASE ~open
    <2> DEFINE W == Append(bootLog, <<piece>>)
    <2>1. W = Written(piece)
        BY <1>3 DEF Written
    <2>2. DOMAIN W = 1..(n + 1) /\ W[n + 1] = <<piece>> /\ \A i \in 1..n : W[i] = bootLog[i]
        <3> HIDE DEF n
        <3>1. <<piece>> \in Seq(Piece) \ {<<>>}
            OBVIOUS
        <3>2. W \in Seq(Seq(Piece) \ {<<>>}) /\ Len(W) = n + 1
            BY <1>1, <3>1 DEF n
        <3> QED BY <1>1, <3>1, <3>2 DEF n
    <2>3. Len(<<piece>>) = 1 /\ <<piece>>[1] = piece
        OBVIOUS
    <2>4. 1..(n + 1) = (1..n) \union {n + 1} /\ n + 1 \notin 1..n
        BY <1>1
    <2> HIDE DEF W, n
    <2>5. Records(W) = Records(bootLog) \union (IF piece = <<>> THEN {} ELSE {n + 1})
        BY <1>1, <2>2, <2>3, <2>4 DEF Records
    <2> QED BY <1>3, <1>1, <2>1, <2>4, <2>5 DEF Records, read_log, n
<1> QED
    BY <1>2, <1>3

\* The boot log has finitely many records.
LEMMA RecordsFinite ==
    ASSUME BootType
    PROVE  IsFiniteSet(read_log) /\ Cardinality(read_log) \in Nat
<1>1. DOMAIN bootLog = 1..Len(bootLog) /\ Len(bootLog) \in Nat
    BY DEF BootType
<1>2. IsFiniteSet(1..Len(bootLog))
    BY <1>1, FS_Interval
<1>3. read_log \subseteq 1..Len(bootLog)
    BY <1>1 DEF read_log
<1> QED
    BY <1>2, <1>3, FS_Subset, FS_CardinalityType

\* The number of records after a piece is written.
LEMMA WrittenCount ==
    ASSUME BootType, NEW piece \in Piece, bootLog' = Written(piece)
    PROVE  /\ open => Cardinality(read_log') = Cardinality(read_log) - LastWhole
                      /\ Len(bootLog') \notin read_log'
           /\ ~open => Cardinality(read_log') =
                            Cardinality(read_log) + (IF piece = <<>> THEN 0 ELSE 1)
           /\ ~open /\ piece = <<>> => Len(bootLog') \notin read_log'
<1>1. read_log' = Records(Written(piece))
    BY DEF read_log, Records
<1>2. IsFiniteSet(read_log) /\ Cardinality(read_log) \in Nat
    BY RecordsFinite
<1>3. CASE open
    <2>1. read_log' = read_log \ {Len(bootLog)} /\ Len(bootLog') = Len(bootLog)
        BY <1>1, <1>3, WrittenRecords
    <2>2. Cardinality(read_log') = Cardinality(read_log) - LastWhole
        <3>1. CASE Len(bootLog) \in read_log
            BY <1>2, <1>3, <2>1, <3>1, FS_RemoveElement DEF LastWhole
        <3>2. CASE Len(bootLog) \notin read_log
            <4>1. read_log' = read_log /\ LastWhole = 0
                BY <2>1, <3>2 DEF LastWhole
            <4> QED BY <1>2, <4>1
        <3> QED BY <3>1, <3>2
    <2> QED BY <1>3, <2>1, <2>2
<1>4. CASE ~open
    <2>1. read_log' = read_log \union (IF piece = <<>> THEN {} ELSE {Len(bootLog) + 1})
          /\ Len(bootLog) + 1 \notin read_log
        BY <1>1, <1>4, WrittenRecords
    <2>2. CASE piece = <<>>
        <3>1. read_log' = read_log
            BY <2>1, <2>2
        <3>2. Len(bootLog') = Len(bootLog) + 1
            <4>1. bootLog' = Append(bootLog, <<piece>>)
                BY <1>4 DEF Written
            <4>2. <<piece>> \in Seq(Piece) \ {<<>>} /\ bootLog \in Seq(Seq(Piece) \ {<<>>})
                BY DEF BootType
            <4> QED BY <4>1, <4>2
        <3>3. Cardinality(read_log') = Cardinality(read_log)
            BY <3>1
        <3> QED BY <1>2, <1>4, <2>1, <2>2, <3>1, <3>2, <3>3
    <2>3. CASE piece # <<>>
        <3>1. read_log' = read_log \union {Len(bootLog) + 1}
            BY <2>1, <2>3
        <3>2. Cardinality(read_log') = Cardinality(read_log) + 1
            BY <1>2, <2>1, <3>1, FS_AddElement
        <3> QED BY <1>4, <2>3, <3>2
    <2> QED BY <2>2, <2>3
<1> QED
    BY <1>3, <1>4

\* A step that leaves the log alone and does not end log_boot.
LEMMA AccountKept ==
    ASSUME LogAccount, UNCHANGED <<bootLog, open, finished, cutLogs>>,
           phase = "newline" <=> phase' = "newline"
    PROVE  LogAccount'
<1>1. read_log' = read_log
    BY DEF read_log
<1>2. LastWhole' = LastWhole
    BY <1>1 DEF LastWhole
<1> QED
    BY <1>1, <1>2 DEF LogAccount

\* log_boot keeps the account of lines begun, joined and lost.
LEMMA LogBootAccount ==
    ASSUME BootType, LogAccount, log_boot
    PROVE  LogAccount'
<1>1. /\ phase = "log_boot" /\ bootLog' = Written(boot) /\ open' = TRUE /\ phase' = "newline"
      /\ finished' = finished /\ cutLogs' = cutLogs
    BY DEF log_boot, counts
<1>2. boot \in Piece /\ boot # <<>>
    BY <1>1, ScriptsAssumption DEF BootType, Booting, Piece, None
<1>3. finished \in Nat /\ cutLogs \in Nat /\ Cardinality(read_log) \in Nat
      /\ (open \/ ~open)
    BY RecordsFinite DEF BootType
<1>4. Cardinality(read_log') + cutLogs' >= finished' + 1
    <2>1. CASE open
        <3>1. Cardinality(read_log') = Cardinality(read_log) - LastWhole /\ LastWhole \in {0, 1}
            BY <1>1, <1>2, <2>1, WrittenCount DEF LastWhole
        <3>2. Cardinality(read_log) + cutLogs >= finished + 1 + LastWhole
            BY <1>1, <2>1 DEF LogAccount
        <3> QED BY <1>1, <1>3, <3>1, <3>2
    <2>2. CASE ~open
        <3>1. Cardinality(read_log') = Cardinality(read_log) + 1
            BY <1>1, <1>2, <2>2, WrittenCount
        <3>2. Cardinality(read_log) + cutLogs >= finished
            BY <2>2 DEF LogAccount
        <3> QED BY <1>1, <1>3, <3>1, <3>2
    <2> QED BY <2>1, <2>2
<1> QED
    BY <1>1, <1>4 DEF LogAccount

\* Writing the newline keeps the account.
LEMMA NewlineAccount ==
    ASSUME BootType, LogAccount, newline
    PROVE  LogAccount'
<1>1. /\ phase = "newline" /\ bootLog' = bootLog /\ open' = FALSE /\ phase' = "idle"
      /\ finished' = finished + 1 /\ cutLogs' = cutLogs
    BY DEF newline, Stopped
<1>2. read_log' = read_log
    BY <1>1 DEF read_log
<1> QED
    BY <1>1, <1>2 DEF LogAccount

\* A crash between a line and its newline keeps the account.
LEMMA CrashAccount ==
    ASSUME BootType, LogAccount, Crash
    PROVE  LogAccount'
<1>1. finished' = finished /\ phase' = "idle"
      /\ cutLogs' = IF phase \in {"log_boot", "newline"} THEN cutLogs + 1 ELSE cutLogs
    BY DEF Crash, Stopped
<1>2. /\ finished \in Nat /\ cutLogs \in Nat /\ Cardinality(read_log) \in Nat
      /\ open \in BOOLEAN /\ LastWhole \in {0, 1}
    BY RecordsFinite DEF BootType, LastWhole
<1>3. CASE phase = "log_boot" /\ bootLog' = Written(<<>>) /\ open' = TRUE
    <2>1. <<>> \in Piece
        BY DEF Piece, None
    <2>2. Len(bootLog') \notin read_log'
        BY <1>2, <1>3, <2>1, WrittenCount
    <2>3. LastWhole' = 0
        BY <2>2 DEF LastWhole
    <2>4. Cardinality(read_log') + cutLogs' >= finished' + 1
        <3>1. CASE open
            <4>1. Cardinality(read_log') = Cardinality(read_log) - LastWhole
                BY <1>3, <2>1, <3>1, WrittenCount
            <4>2. Cardinality(read_log) + cutLogs >= finished + 1 + LastWhole
                BY <1>3, <3>1 DEF LogAccount
            <4>3. cutLogs' = cutLogs + 1
                BY <1>1, <1>3
            <4> QED BY <1>1, <1>2, <4>1, <4>2, <4>3
        <3>2. CASE ~open
            <4>1. Cardinality(read_log') = Cardinality(read_log)
                BY <1>2, <1>3, <2>1, <3>2, WrittenCount
            <4>2. Cardinality(read_log) + cutLogs >= finished
                BY <3>2 DEF LogAccount
            <4>3. cutLogs' = cutLogs + 1
                BY <1>1, <1>3
            <4> QED BY <1>1, <1>2, <4>1, <4>2, <4>3
        <3> QED BY <3>1, <3>2
    <2> QED BY <1>1, <1>2, <1>3, <2>3, <2>4 DEF LogAccount
<1>4. CASE UNCHANGED <<bootLog, open>>
    <2>1. read_log' = read_log
        BY <1>4 DEF read_log
    <2>2. LastWhole' = LastWhole
        BY <1>4, <2>1 DEF LastWhole
    <2>3. CASE open
        <3>1. Cardinality(read_log) + cutLogs' >= finished + 1 + LastWhole
            <4>1. CASE phase = "newline"
                BY <1>1, <1>2, <4>1 DEF LogAccount
            <4>2. CASE phase # "newline"
                BY <1>1, <1>2, <2>3, <4>2 DEF LogAccount
            <4> QED BY <4>1, <4>2
        <3> QED BY <1>1, <1>4, <2>1, <2>2, <2>3, <3>1 DEF LogAccount
    <2>4. CASE ~open
        <3>1. Cardinality(read_log) + cutLogs >= finished /\ cutLogs' \in {cutLogs, cutLogs + 1}
            BY <1>1, <2>4 DEF LogAccount
        <3>2. Cardinality(read_log) + cutLogs' >= finished
            BY <1>2, <3>1
        <3> QED BY <1>1, <1>4, <2>1, <2>4, <3>2 DEF LogAccount
    <2> QED BY <2>3, <2>4
<1> QED
    BY <1>3, <1>4 DEF Crash, DiesWriting

\* Every step keeps the account.
LEMMA NextAccount ==
    ASSUME BootType, LogAccount, [Next]_vars
    PROVE  LogAccount'
<1>1. CASE log_boot
    BY <1>1, LogBootAccount
<1>2. CASE newline
    BY <1>2, NewlineAccount
<1>3. CASE Crash
    BY <1>3, CrashAccount
<1>4. CASE UNCHANGED vars
    <2>1. UNCHANGED <<bootLog, open, finished, cutLogs, phase>>
        BY <1>4 DEF vars, files, local, counts
    <2> QED BY <2>1, AccountKept
<1>5. ASSUME NEW b, NEW r, NEW first \in {"put_boot", "set_latest", "load"}, Starts(first, b, r)
      PROVE  LogAccount'
    <2>1. UNCHANGED <<bootLog, open, finished, cutLogs>> /\ phase = "idle" /\ phase' = first
        BY <1>5 DEF Starts, files
    <2> QED BY <2>1, AccountKept
<1>6. CASE put_boot \/ set_latest \/ (\E n : Load(n)) \/ LoadFails
    <2>1. UNCHANGED <<bootLog, open, finished, cutLogs>> /\ phase # "newline" /\ phase' # "newline"
        BY <1>6 DEF put_boot, set_latest, Load, LoadFails, Stopped, files, counts
    <2> QED BY <2>1, AccountKept
<1>7. CASE Dispatch \/ DispatchDone \/ BootFails \/ commit_record \/ Committed \/ save_state
    <2>1. UNCHANGED <<bootLog, open, finished, cutLogs>> /\ phase # "newline" /\ phase' # "newline"
        BY <1>7 DEF Dispatch, DispatchDone, BootFails, commit_record, Committed, save_state,
                    Stopped, files, local, counts
    <2> QED BY <2>1, AccountKept
<1>8. ASSUME NEW b, Points(b)
      PROVE  LogAccount'
    <2>1. UNCHANGED <<bootLog, open, finished, cutLogs, phase>>
        BY <1>8 DEF Points, local
    <2> QED BY <2>1, AccountKept
<1> QED
    BY <1>1, <1>2, <1>3, <1>4, <1>5, <1>6, <1>7, <1>8
       DEF Next, BootFile, BootCid, BootLatest, rollback, rollback_previous

\* The account of an empty log.
LEMMA InitAccount == Init => LogAccount
<1> SUFFICES ASSUME Init
             PROVE  LogAccount
    OBVIOUS
<1>1. BootType /\ open = FALSE /\ finished = 0 /\ cutLogs = 0 /\ phase = "idle"
    BY InitBootType DEF Init
<1>2. Cardinality(read_log) \in Nat
    BY <1>1, RecordsFinite
<1> QED
    BY <1>1, <1>2 DEF LogAccount

\* A crash inside log_boot costs at most two records (boot.rs log_boot,
\* read_log): the log holds a readable record for every boot that finished, but
\* for as many as there were such crashes.
THEOREM BootLogLoss == Spec => []LogLoss
<1>1. Init => BootType /\ LogAccount
    BY InitBootType, InitAccount
<1>2. BootType /\ LogAccount /\ [Next]_vars => (BootType /\ LogAccount)'
    BY NextBootType, NextAccount
<1>3. BootType /\ LogAccount => LogLoss
    <2> SUFFICES ASSUME BootType, LogAccount
                 PROVE  LogLoss
        OBVIOUS
    <2>1. finished \in Nat /\ cutLogs \in Nat /\ Cardinality(read_log) \in Nat /\ LastWhole \in {0, 1}
        BY RecordsFinite DEF BootType, LastWhole
    <2>2. Cardinality(read_log) + cutLogs >= finished
        BY <2>1 DEF LogAccount
    <2> QED BY <2>1, <2>2 DEF LogLoss
<1> QED
    BY <1>1, <1>2, <1>3, PTL DEF Spec

-----------------------------------------------------------------------------
(* The commits of a boot.                                                   *)

IsSequence(s) == \E S : s \in Seq(S)

\* The states that the first k firings reached.
Trajectory(k) == [i \in 1..k |-> StateOf(log[i])]

\* What a process has committed is the trajectory so far, and HEAD is where it
\* stands; a process that is not committing yet holds no commit.
CommitsFollow ==
    /\ IsSequence(log) /\ IsSequence(headFile)
    /\ phase \in {"idle", "put_boot", "set_latest", "load", "dispatch"} => head = <<>>
    /\ phase = "commit" =>
        \E k \in 0..Len(log) : head = Trajectory(k) /\ (k > 0 => headFile = head)
    /\ repo /\ phase \in {"save_state", "log_boot", "newline"} =>
        (Len(log) = 0 /\ head = <<>>) \/ headFile = Trajectory(Len(log))

\* Appending to a sequence.
LEMMA AppendSequence ==
    ASSUME NEW s, IsSequence(s), NEW x
    PROVE  IsSequence(Append(s, x)) /\ Len(Append(s, x)) = Len(s) + 1 /\ Len(s) \in Nat
<1>1. PICK S : s \in Seq(S)
    BY DEF IsSequence
<1> DEFINE T == S \union {x}
<1>2. s \in Seq(T) /\ x \in T
    BY <1>1
<1> HIDE DEF T
<1>3. Append(s, x) \in Seq(T) /\ Len(Append(s, x)) = Len(s) + 1 /\ Len(s) \in Nat
    BY <1>2
<1> QED
    BY <1>3 DEF IsSequence

\* The states of the first records form a sequence.
LEMMA TrajectorySequence ==
    ASSUME NEW k \in Nat
    PROVE  IsSequence(Trajectory(k)) /\ Len(Trajectory(k)) = k
<1> DEFINE S == {StateOf(log[i]) : i \in 1..k}
<1>1. Trajectory(k) \in Seq(S) /\ Len(Trajectory(k)) = k
    BY DEF Trajectory
<1> QED
    BY <1>1 DEF IsSequence

\* One record more is one state more.
LEMMA TrajectoryGrows ==
    ASSUME NEW k \in Nat
    PROVE  Append(Trajectory(k), StateOf(log[k + 1])) = Trajectory(k + 1)
<1> DEFINE S == {StateOf(log[i]) : i \in 1..(k + 1)}
           A == Append(Trajectory(k), StateOf(log[k + 1]))
<1>1. Trajectory(k) \in Seq(S) /\ Len(Trajectory(k)) = k /\ StateOf(log[k + 1]) \in S
    BY DEF Trajectory
<1>2. A \in Seq(S) /\ Len(A) = k + 1
    BY <1>1
<1>3. Trajectory(k + 1) \in Seq(S) /\ Len(Trajectory(k + 1)) = k + 1
    BY DEF Trajectory
<1>4. ASSUME NEW i \in 1..(k + 1)
      PROVE  A[i] = Trajectory(k + 1)[i]
    <2>1. Trajectory(k + 1)[i] = StateOf(log[i])
        BY DEF Trajectory
    <2>2. CASE i = k + 1
        BY <1>1, <2>1, <2>2
    <2>3. CASE i # k + 1
        <3>1. i \in 1..k
            BY <2>3
        <3>2. A[i] = Trajectory(k)[i]
            BY <1>1, <3>1
        <3> QED BY <2>1, <3>1, <3>2 DEF Trajectory
    <2> QED BY <2>2, <2>3
<1> HIDE DEF A, S
<1>5. A = Trajectory(k + 1)
    BY <1>2, <1>3, <1>4
<1> QED
    BY <1>5 DEF A

\* A step of the dispatcher may append one record.
LEMMA PopLog ==
    ASSUME IsSequence(log), D!Pop
    PROVE  IsSequence(log')
<1>1. log' = log \/ \E r : log' = Append(log, r)
    BY DEF D!Pop, D!Drained, D!route_value, D!fire, D!FireStarved, D!FireFails, D!StopAtFire,
           D!Record
<1> QED
    BY <1>1, AppendSequence

\* Steps outside the commits leave their order alone.
LEMMA FollowKept ==
    ASSUME CommitsFollow, UNCHANGED <<log, head, headFile, phase, repo>>
    PROVE  CommitsFollow'
<1>1. \A k : Trajectory(k)' = Trajectory(k)
    BY DEF Trajectory, StateOf
<1> QED
    BY <1>1 DEF CommitsFollow, IsSequence

\* A stop in the middle keeps the commits in the order of the log.
LEMMA StoppedFollow ==
    ASSUME CommitsFollow, Stopped, headFile' = headFile
    PROVE  CommitsFollow'
<1>1. log' = <<>> /\ head' = <<>> /\ phase' = "idle"
    BY DEF Stopped
<1>2. IsSequence(log')
    <2>1. <<>> \in Seq({})
        OBVIOUS
    <2> QED BY <1>1, <2>1 DEF IsSequence
<1> QED
    BY <1>1, <1>2 DEF CommitsFollow, IsSequence

\* commit_fire_log commits the next record on the last.
LEMMA CommitFollow ==
    ASSUME CommitsFollow, commit_record
    PROVE  CommitsFollow'
<1>1. /\ phase = "commit" /\ Len(head) < Len(log) /\ phase' = "commit"
      /\ head' = Append(head, StateOf(log[Len(head) + 1])) /\ headFile' = head'
      /\ log' = log
    BY DEF commit_record, dispatcher
<1>2. PICK k \in 0..Len(log) : head = Trajectory(k)
    BY <1>1 DEF CommitsFollow
<1>3. k \in Nat /\ Len(head) = k /\ Len(log) \in Nat
    <2>1. PICK S : log \in Seq(S)
        BY DEF CommitsFollow, IsSequence
    <2> QED BY <1>2, <2>1, TrajectorySequence
<1>4. head' = Trajectory(k + 1) /\ k + 1 \in 0..Len(log) /\ k + 1 > 0
    <2>1. head' = Append(Trajectory(k), StateOf(log[k + 1]))
        BY <1>1, <1>2, <1>3
    <2>2. head' = Trajectory(k + 1)
        BY <1>3, <2>1, TrajectoryGrows
    <2>3. k + 1 \in 0..Len(log) /\ k + 1 > 0
        BY <1>1, <1>3
    <2> QED BY <2>2, <2>3
<1>5. Trajectory(k + 1)' = Trajectory(k + 1)
    BY <1>1 DEF Trajectory, StateOf
<1>6. IsSequence(headFile')
    <2>1. IsSequence(Trajectory(k + 1))
        BY <1>3, TrajectorySequence
    <2> QED BY <1>1, <1>4, <2>1
<1> QED
    BY <1>1, <1>3, <1>4, <1>5, <1>6 DEF CommitsFollow, IsSequence

\* Every step keeps the commits in the order of the log.
LEMMA NextFollow ==
    ASSUME BootType, CommitsFollow, [Next]_vars
    PROVE  CommitsFollow'
<1>1. CASE commit_record
    BY <1>1, CommitFollow
<1>2. CASE newline \/ Crash \/ LoadFails \/ BootFails
    <2>1. Stopped /\ headFile' = headFile
        BY <1>2 DEF newline, Crash, LoadFails, BootFails, files
    <2> QED BY <2>1, StoppedFollow
<1>3. CASE UNCHANGED vars
    <2>1. UNCHANGED <<log, head, headFile, phase, repo>>
        BY <1>3 DEF vars, dispatcher, files, local
    <2> QED BY <2>1, FollowKept
<1>4. ASSUME NEW b, NEW r, NEW first \in {"put_boot", "set_latest", "load"}, Starts(first, b, r)
      PROVE  CommitsFollow'
    <2>1. UNCHANGED <<log, head, headFile>> /\ phase = "idle" /\ phase' = first
        BY <1>4 DEF Starts, files, dispatcher
    <2> QED BY <2>1 DEF CommitsFollow, IsSequence
<1>5. CASE put_boot \/ set_latest \/ \E n : Load(n)
    <2>1. UNCHANGED <<log, head, headFile>> /\ phase \in {"put_boot", "set_latest", "load"}
          /\ phase' \in {"set_latest", "load", "dispatch"}
        BY <1>5 DEF put_boot, set_latest, Load, files, dispatcher
    <2> QED BY <2>1 DEF CommitsFollow, IsSequence
<1>6. CASE Dispatch
    <2>1. UNCHANGED <<head, headFile, repo>> /\ phase = "dispatch" /\ phase' = "dispatch" /\ D!Pop
        BY <1>6 DEF Dispatch, files, local
    <2>2. IsSequence(log') /\ IsSequence(headFile') /\ head' = <<>>
        BY <2>1, PopLog DEF CommitsFollow, IsSequence
    <2> QED BY <2>1, <2>2 DEF CommitsFollow
<1>7. CASE DispatchDone
    <2>1. UNCHANGED <<log, head, headFile, repo>> /\ phase = "dispatch"
          /\ phase' = IF repo THEN "commit" ELSE "save_state"
        BY <1>7 DEF DispatchDone, files, dispatcher
    <2>2. head' = <<>> /\ IsSequence(log') /\ IsSequence(headFile')
        BY <2>1 DEF CommitsFollow, IsSequence
    <2>3. CASE repo
        <3>1. Len(log') \in Nat
            BY <2>2 DEF IsSequence
        <3>2. Trajectory(0)' = <<>>
            BY DEF Trajectory
        <3>3. 0 \in 0..Len(log') /\ ~(0 > 0)
            BY <3>1
        <3> QED BY <2>1, <2>2, <2>3, <3>2, <3>3 DEF CommitsFollow
    <2>4. CASE ~repo
        BY <2>1, <2>2, <2>4 DEF CommitsFollow
    <2> QED BY <2>3, <2>4
<1>8. CASE Committed
    <2>1. UNCHANGED <<log, head, headFile, repo>> /\ phase = "commit" /\ phase' = "save_state"
          /\ Len(head) = Len(log)
        BY <1>8 DEF Committed, files, dispatcher
    <2>2. PICK k \in 0..Len(log) : head = Trajectory(k) /\ (k > 0 => headFile = head)
        BY <2>1 DEF CommitsFollow
    <2>3. k = Len(log) /\ Len(log) \in Nat
        <3>1. PICK S : log \in Seq(S)
            BY DEF CommitsFollow, IsSequence
        <3> QED BY <2>1, <2>2, <3>1, TrajectorySequence
    <2>4. (Len(log) = 0 /\ head = <<>>) \/ headFile = Trajectory(Len(log))
        <3>1. Trajectory(0) = <<>>
            BY DEF Trajectory
        <3> QED BY <2>2, <2>3, <3>1
    <2>5. Trajectory(Len(log))' = Trajectory(Len(log))
        BY <2>1 DEF Trajectory, StateOf
    <2> QED BY <2>1, <2>4, <2>5 DEF CommitsFollow, IsSequence
<1>9. CASE save_state \/ log_boot
    <2>1. UNCHANGED <<log, head, headFile, repo>> /\ phase \in {"save_state", "log_boot"}
          /\ phase' \in {"log_boot", "newline"}
        BY <1>9 DEF save_state, log_boot, dispatcher
    <2>2. Trajectory(Len(log))' = Trajectory(Len(log))
        BY <2>1 DEF Trajectory, StateOf
    <2> QED BY <2>1, <2>2 DEF CommitsFollow, IsSequence
<1>10. ASSUME NEW b, Points(b)
       PROVE  CommitsFollow'
    <2>1. UNCHANGED <<log, head, headFile, phase, repo>>
        BY <1>10 DEF Points, local, dispatcher
    <2> QED BY <2>1, FollowKept
<1> QED
    BY <1>1, <1>2, <1>3, <1>4, <1>5, <1>6, <1>7, <1>8, <1>9, <1>10
       DEF Next, BootFile, BootCid, BootLatest, rollback, rollback_previous

\* There is no commit at the start.
LEMMA InitFollow == Init => CommitsFollow
<1>1. <<>> \in Seq({})
    OBVIOUS
<1> QED
    BY <1>1 DEF Init, CommitsFollow, IsSequence

\* The first commits are a beginning of all of them.
LEMMA TrajectoryBegins ==
    ASSUME NEW n \in Nat, NEW k \in 0..n
    PROVE  IsPrefix(Trajectory(k), Trajectory(n))
<1> DEFINE S == {StateOf(log[i]) : i \in 1..n}
           s == Trajectory(k)
           t == Trajectory(n)
<1>1. /\ s \in Seq(S) /\ Len(s) = k /\ t \in Seq(S) /\ Len(t) = n
      /\ \A i \in 1..k : s[i] = t[i]
    BY DEF Trajectory
<1> HIDE DEF S, s, t
<1>2. SubSeq(s, 1, k) \in Seq(S) /\ SubSeq(t, 1, k) \in Seq(S)
      /\ Len(SubSeq(s, 1, k)) = k /\ Len(SubSeq(t, 1, k)) = k
      /\ \A i \in 1..k : SubSeq(s, 1, k)[i] = s[i] /\ SubSeq(t, 1, k)[i] = t[i]
    BY <1>1
<1>3. SubSeq(s, 1, k) = SubSeq(t, 1, k)
    BY <1>1, <1>2
<1> QED
    BY <1>1, <1>3 DEF IsPrefix, s, t

\* While a boot commits, HEAD reaches the firings of this boot up to the last one
\* committed, and all of them in the end (commit.rs commit_fire_log): never
\* firings of two boots.
THEOREM BootOneTrajectory == Spec => []OneTrajectory
<1>1. Init => BootType /\ CommitsFollow
    BY InitBootType, InitFollow
<1>2. BootType /\ CommitsFollow /\ [Next]_vars => (BootType /\ CommitsFollow)'
    BY NextBootType, NextFollow
<1>3. CommitsFollow => OneTrajectory
    <2> SUFFICES ASSUME CommitsFollow, repo,
                        phase \in {"commit", "save_state", "log_boot", "newline"}
                 PROVE  /\ head # <<>> => IsPrefix(headFile, Trajectory(Len(log)))
                        /\ phase # "commit" => log = <<>> \/ headFile = Trajectory(Len(log))
        <3>1. DOMAIN log = 1..Len(log)
            BY DEF CommitsFollow, IsSequence
        <3> QED BY <3>1 DEF OneTrajectory, Trajectory
    <2>1. Len(log) \in Nat /\ (Len(log) = 0 => log = <<>>)
        BY DEF CommitsFollow, IsSequence
    <2>2. CASE phase = "commit"
        <3>1. PICK k \in 0..Len(log) : head = Trajectory(k) /\ (k > 0 => headFile = head)
            BY <2>2 DEF CommitsFollow
        <3>2. Trajectory(0) = <<>>
            BY DEF Trajectory
        <3>3. head # <<>> => headFile = Trajectory(k)
            BY <2>1, <3>1, <3>2
        <3> QED BY <2>1, <2>2, <3>1, <3>3, TrajectoryBegins
    <2>3. CASE phase # "commit"
        <3>1. (Len(log) = 0 /\ head = <<>>) \/ headFile = Trajectory(Len(log))
            BY <2>3 DEF CommitsFollow
        <3>2. IsPrefix(Trajectory(Len(log)), Trajectory(Len(log)))
            BY <2>1, TrajectoryBegins
        <3> QED BY <2>1, <3>1, <3>2
    <2> QED BY <2>2, <2>3
<1> QED
    BY <1>1, <1>2, <1>3, PTL DEF Spec

-----------------------------------------------------------------------------
(* Compiling a script, line by line.                                        *)

\* A set of naturals that is not empty has a least member.
LEMMA LeastNatural ==
    ASSUME NEW T, T \subseteq Nat, T # {}
    PROVE  \E n \in T : \A m \in T : n <= m
BY Facts!LeastNatural, FactsApply

\* Induction up to n, over a set of numbers.
LEMMA Climb ==
    ASSUME NEW n \in Nat, NEW T, 0 \in T, \A k \in 1..n : k - 1 \in T => k \in T
    PROVE  \A k \in 0..n : k \in T
BY Facts!Climb, FactsApply

\* The programs after the first k lines.
IsReading(g, n, script) ==
    g = [k \in 0..n |-> IF k = 0 THEN {EmptyProgram}
                        ELSE UNION {Line(p, script[k]) : p \in g[k - 1]}]

\* A script is read line by line: some function does.
LEMMA ReadingExists ==
    ASSUME NEW script, NEW n \in Nat
    PROVE  \E g : IsReading(g, n, script)
<1> DEFINE T == {k \in Nat : ~ \E g : IsReading(g, k, script)}
<1>1. SUFFICES ASSUME n \in T PROVE FALSE
    OBVIOUS
<1>2. PICK m \in T : \A k \in T : m <= k
    <2>1. T \subseteq Nat
        OBVIOUS
    <2> HIDE DEF T
    <2> QED BY <1>1, <2>1, LeastNatural
<1>3. CASE m = 0
    <2> DEFINE g == [k \in 0..0 |-> {EmptyProgram}]
    <2>1. IsReading(g, 0, script)
        BY DEF IsReading
    <2> QED BY <1>2, <1>3, <2>1
<1>4. CASE m # 0
    <2>1. m - 1 \in Nat /\ m - 1 \notin T
        <3>1. m \in Nat
            BY <1>2
        <3> HIDE DEF T
        <3> QED BY <1>2, <1>4, <3>1
    <2>2. PICK g : IsReading(g, m - 1, script)
        BY <2>1
    <2> DEFINE h == [k \in 0..m |-> IF k = 0 THEN {EmptyProgram}
                                    ELSE UNION {Line(p, script[k]) : p \in g[k - 1]}]
    <2>3. ASSUME NEW k \in 0..(m - 1)
          PROVE  h[k] = g[k]
        <3>1. k \in 0..m
            BY <1>2, <2>1
        <3> QED BY <2>2, <3>1 DEF IsReading
    <2>4. \A k \in 0..m : k # 0 => k - 1 \in 0..(m - 1)
        BY <1>2
    <2>5. IsReading(h, m, script)
        BY <2>3, <2>4 DEF IsReading
    <2> QED BY <1>2, <2>5
<1> QED
    BY <1>3, <1>4

\* compile_boot reads the script to its end.
Readings(g, script) ==
    /\ compile_boot(script) = g[Len(script)] /\ g[0] = {EmptyProgram}
    /\ \A k \in 1..Len(script) : g[k] = UNION {Line(p, script[k]) : p \in g[k - 1]}

\* compile_boot reads it that way.
LEMMA CompileReads ==
    ASSUME NEW script, Len(script) \in Nat
    PROVE  \E g : Readings(g, script)
<1> DEFINE g == CHOOSE g : IsReading(g, Len(script), script)
<1>1. IsReading(g, Len(script), script)
    BY ReadingExists
<1>2. compile_boot(script) = g[Len(script)]
    BY DEF compile_boot, IsReading
<1> HIDE DEF g
<1>3. g[0] = {EmptyProgram}
    BY <1>1 DEF IsReading
<1>4. ASSUME NEW k \in 1..Len(script)
      PROVE  g[k] = UNION {Line(p, script[k]) : p \in g[k - 1]}
    <2>1. k \in 0..Len(script) /\ k # 0
        OBVIOUS
    <2> QED BY <1>1, <2>1 DEF IsReading
<1> QED
    BY <1>2, <1>3, <1>4 DEF Readings

-----------------------------------------------------------------------------
(* A script compiles to one program at most.                                *)

AtMostOne(S) == \A x, y \in S : x = y

Fields == {"prog", "literals", "edges", "ops", "values", "universes", "stack", "fires"}

Shaped(p) == DOMAIN p = Fields /\ IsFiniteSet(DOMAIN p.universes)

\* A name is bound once at most.
LEMMA LookupOne ==
    ASSUME NEW names, NEW n
    PROVE  AtMostOne(Lookup(names, n))
BY DEF AtMostOne, Lookup

\* A reference resolves one way at most, and so does an operation.
LEMMA ResolveRefOne ==
    ASSUME NEW p, NEW r
    PROVE  AtMostOne(resolve_ref(p, r)) /\ AtMostOne(resolve_op(p, r))
BY LookupOne DEF AtMostOne, resolve_ref, resolve_op

\* So does a word of a body.
LEMMA ResolveWordOne ==
    ASSUME NEW p, Shaped(p), NEW w
    PROVE  AtMostOne(resolve_word(p, w))
<1>1. AtMostOne(Sole(p))
    <2>1. CASE Cardinality(DOMAIN p.universes) = 1
        <3>1. PICK x : DOMAIN p.universes = {x}
            BY <2>1, FS_Singleton DEF Shaped
        <3> QED BY <2>1, <3>1 DEF Sole, AtMostOne, Range
    <2>2. CASE Cardinality(DOMAIN p.universes) # 1
        BY <2>2 DEF Sole, AtMostOne
    <2> QED BY <2>1, <2>2
<1>2. \A n : AtMostOne(Universe(p, n))
    BY LookupOne DEF Universe, AtMostOne
<1> DEFINE us == IF Len(w) = 1 THEN Sole(p) ELSE Universe(p, w[2])
<1>3. AtMostOne(us)
    BY <1>1, <1>2
<1> HIDE DEF us
<1>4. AtMostOne({<<"value", u>> : u \in us})
    BY <1>3 DEF AtMostOne
<1>5. AtMostOne({<<"value", v>> : v \in Lookup(p.values, w[2])})
      /\ AtMostOne({<<"call", o>> : o \in Lookup(p.ops, w[2])})
    BY LookupOne DEF AtMostOne
<1>6. AtMostOne({}) /\ AtMostOne({w})
    BY DEF AtMostOne
<1> QED
    BY <1>4, <1>5, <1>6 DEF resolve_word, us

\* Choices among single candidates are single.
LEMMA OneOfEachOne ==
    ASSUME NEW f, \A i \in DOMAIN f : AtMostOne(f[i])
    PROVE  AtMostOne(OneOfEach(f))
<1> SUFFICES ASSUME NEW s \in OneOfEach(f), NEW t \in OneOfEach(f)
             PROVE  s = t
    BY DEF AtMostOne
<1> DEFINE V == UNION ToSet(f)
<1>1. s \in [DOMAIN f -> V] /\ t \in [DOMAIN f -> V]
    BY DEF OneOfEach
<1>2. \A i \in DOMAIN f : s[i] = t[i]
    BY DEF OneOfEach, AtMostOne
<1> HIDE DEF V
<1> QED
    BY <1>1, <1>2

\* A map with one binding more is finite.
LEMMA InsertedFinite ==
    ASSUME NEW f, IsFiniteSet(DOMAIN f), NEW n, NEW v
    PROVE  IsFiniteSet(DOMAIN Inserted(f, n, v))
<1>1. DOMAIN Inserted(f, n, v) = DOMAIN f \union {n}
    BY InsertedDomain
<1> QED
    BY <1>1, FS_AddElement

\* A value line keeps a program's shape.
LEMMA ValueShaped ==
    ASSUME NEW p, Shaped(p), NEW n, NEW v
    PROVE  Shaped(AddValue(p, n, v))
BY DEF Shaped, AddValue, Fields

\* A universe line has one outcome at most, and keeps the shape.
LEMMA UniverseOne ==
    ASSUME NEW p, Shaped(p), NEW n, NEW refs
    PROVE  AtMostOne(AddUniverse(p, n, refs)) /\ \A q \in AddUniverse(p, n, refs) : Shaped(q)
<1> DEFINE f == [i \in DOMAIN refs |-> resolve_ref(p, refs[i])]
           Uss == {s \in OneOfEach(f) : ToSet(s) \subseteq p.literals}
           Q(us) == LET q == AddValue(p, n, UNION ToSet(us)) IN
                    [q EXCEPT !.universes = Inserted(@, n, UNION ToSet(us))]
<1>1. AtMostOne(OneOfEach(f))
    BY OneOfEachOne, ResolveRefOne
<1>2. AddUniverse(p, n, refs) = {Q(us) : us \in Uss}
    BY DEF AddUniverse
<1>3. \A us : Shaped(Q(us))
    <2> TAKE us
    <2> DEFINE v == UNION ToSet(us)
               q == AddValue(p, n, v)
    <2>1. Shaped(q)
        BY ValueShaped
    <2>2. IsFiniteSet(DOMAIN Inserted(q.universes, n, v))
        BY <2>1, InsertedFinite DEF Shaped
    <2> HIDE DEF v, q
    <2>3. Shaped([q EXCEPT !.universes = Inserted(@, n, v)])
        BY <2>1, <2>2 DEF Shaped, Fields
    <2> QED BY <2>3 DEF v, q
<1>4. AtMostOne(Uss)
    BY <1>1 DEF AtMostOne
<1> HIDE DEF f, Uss, Q
<1> QED
    BY <1>2, <1>3, <1>4 DEF AtMostOne

\* So has an operation line.
LEMMA OpOne ==
    ASSUME NEW p, Shaped(p), NEW n, NEW arity, NEW outputs, NEW words
    PROVE  /\ AtMostOne(AddOp(p, n, arity, outputs, words))
           /\ \A q \in AddOp(p, n, arity, outputs, words) : Shaped(q)
<1> DEFINE f == [i \in DOMAIN words |-> resolve_word(p, words[i])]
           spec(ws) == [arity |-> arity, outputs |-> outputs, words |-> ws]
           Q(ws) == [p EXCEPT !.prog = Inserted(@, OpId(spec(ws)), spec(ws)),
                              !.ops = Inserted(@, n, OpId(spec(ws)))]
<1>1. AtMostOne(OneOfEach(f))
    BY OneOfEachOne, ResolveWordOne
<1>2. AddOp(p, n, arity, outputs, words) = {Q(ws) : ws \in OneOfEach(f)}
    BY DEF AddOp
<1>3. \A ws : Shaped(Q(ws))
    BY DEF Shaped, Fields
<1> HIDE DEF f, Q
<1> QED
    BY <1>1, <1>2, <1>3 DEF AtMostOne

\* So has a connect line.
LEMMA ConnectOne ==
    ASSUME NEW p, Shaped(p), NEW from, NEW to
    PROVE  AtMostOne(Connect(p, from, to)) /\ \A q \in Connect(p, from, to) : Shaped(q)
<1> DEFINE Source == IF from[1] = "value"
                     THEN {<<"value", v>> : v \in resolve_ref(p, from[2])}
                     ELSE {<<"out", o, from[3]>> : o \in resolve_op(p, from[2])}
           Q(s, o) == [p EXCEPT !.edges = @ \cup {<<s, <<o, to[2]>>>>}]
           Targets == resolve_op(p, to[1])
<1>1. Connect(p, from, to) = {Q(s, o) : s \in Source, o \in Targets}
    BY DEF Connect
<1>2. AtMostOne(Source)
    <2>1. AtMostOne({<<"value", v>> : v \in resolve_ref(p, from[2])})
        BY ResolveRefOne DEF AtMostOne
    <2>2. AtMostOne({<<"out", o, from[3]>> : o \in resolve_op(p, from[2])})
        BY ResolveRefOne DEF AtMostOne
    <2> QED BY <2>1, <2>2
<1>3. AtMostOne(Targets)
    BY ResolveRefOne
<1>4. \A s, o : Shaped(Q(s, o))
    BY DEF Shaped, Fields
<1> HIDE DEF Source, Targets, Q
<1> QED
    BY <1>1, <1>2, <1>3, <1>4 DEF AtMostOne

\* So has a stack line.
LEMMA StackOne ==
    ASSUME NEW p, Shaped(p), NEW refs
    PROVE  LET Q == {[p EXCEPT !.stack = s] :
                        s \in OneOfEach([i \in DOMAIN refs |-> resolve_ref(p, refs[i])])}
           IN  AtMostOne(Q) /\ \A q \in Q : Shaped(q)
<1> DEFINE f == [i \in DOMAIN refs |-> resolve_ref(p, refs[i])]
           Q(s) == [p EXCEPT !.stack = s]
<1>1. AtMostOne(OneOfEach(f))
    BY OneOfEachOne, ResolveRefOne
<1>2. \A s : Shaped(Q(s))
    BY DEF Shaped, Fields
<1> HIDE DEF f, Q
<1>3. AtMostOne({Q(s) : s \in OneOfEach(f)}) /\ \A q \in {Q(s) : s \in OneOfEach(f)} : Shaped(q)
    BY <1>1, <1>2 DEF AtMostOne
<1> QED
    BY <1>3 DEF f, Q

\* So has every line.
LEMMA LineOne ==
    ASSUME NEW p, Shaped(p), NEW l
    PROVE  AtMostOne(Line(p, l)) /\ \A q \in Line(p, l) : Shaped(q)
<1>1. CASE l[1] = "value"
    BY <1>1, ValueShaped DEF Line, AtMostOne
<1>2. CASE l[1] = "universe"
    BY <1>2, UniverseOne DEF Line
<1>3. CASE l[1] = "def"
    BY <1>3, OpOne DEF Line
<1>4. CASE l[1] = "link"
    BY <1>4, ConnectOne DEF Line
<1>5. CASE l[1] = "stack"
    BY <1>5, StackOne DEF Line
<1>6. CASE l[1] = "fires"
    <2>1. Shaped([p EXCEPT !.fires = l[2]])
        BY DEF Shaped, Fields
    <2> QED BY <1>6, <2>1 DEF Line, AtMostOne
<1>7. CASE l[1] \notin {"value", "universe", "def", "link", "stack", "fires"}
    BY <1>7 DEF Line, AtMostOne
<1> QED
    BY <1>1, <1>2, <1>3, <1>4, <1>5, <1>6, <1>7

\* A script that compiles, compiles to one program: Compiled.
LEMMA CompilesToOne ==
    ASSUME NEW script, Len(script) \in Nat
    PROVE  AtMostOne(compile_boot(script))
<1>0. PICK g : Readings(g, script)
    BY CompileReads
<1>1. /\ compile_boot(script) = g[Len(script)] /\ g[0] = {EmptyProgram}
      /\ \A k \in 1..Len(script) : g[k] = UNION {Line(p, script[k]) : p \in g[k - 1]}
    BY <1>0 DEF Readings
<1> DEFINE T == {k \in 0..Len(script) : AtMostOne(g[k]) /\ \A p \in g[k] : Shaped(p)}
<1>2. 0 \in T
    <2>1. DOMAIN <<>> = {} /\ IsFiniteSet({})
        BY FS_EmptySet
    <2>2. Shaped(EmptyProgram)
        BY <2>1 DEF Shaped, Fields, EmptyProgram
    <2> QED BY <1>1, <2>2 DEF AtMostOne
<1>3. ASSUME NEW k \in 1..Len(script), k - 1 \in T
      PROVE  k \in T
    <2>1. AtMostOne(g[k - 1]) /\ \A p \in g[k - 1] : Shaped(p)
        BY <1>3
    <2>2. g[k] = UNION {Line(p, script[k]) : p \in g[k - 1]}
        BY <1>1
    <2>3. \A q \in g[k] : \E p \in g[k - 1] : q \in Line(p, script[k])
        BY <2>2
    <2>4. AtMostOne(g[k]) /\ \A q \in g[k] : Shaped(q)
        BY <2>1, <2>3, LineOne DEF AtMostOne
    <2> QED BY <2>4
<1> HIDE DEF T
<1>4. \A k \in 0..Len(script) : k \in T
    BY <1>2, <1>3, Climb
<1> USE DEF T
<1>5. Len(script) \in T
    BY <1>4
<1> QED
    BY <1>1, <1>5

\* A script compiles one way at most.
LEMMA CompiledOnly ==
    ASSUME NEW script, Len(script) \in Nat, NEW p \in compile_boot(script)
    PROVE  p = Compiled(script)
BY CompilesToOne DEF AtMostOne, Compiled

-----------------------------------------------------------------------------
(* The stack a boot starts from.                                            *)

Stacked(b, s) == Compiled(b).stack # <<>> => s # <<>>

\* What is on file under a boot whose blob was never cut, and what a process works
\* from, is not empty if the stack of the boot file is not.
StateStacked == state # <<>> /\ state[1] \notin emptied => Stacked(state[1], state[2])

StacksKept ==
    /\ \A b \in DOMAIN blobs : b \notin emptied => blobs[b] = b
    /\ StateStacked
    /\ phase \in {"dispatch", "commit", "save_state"} /\ boot \notin emptied
        => Stacked(boot, seeded)

\* Storing a script under its own name keeps the store content-addressed, and so
\* does a cut that is remembered.
LEMMA InsertedBlob ==
    ASSUME StacksKept, NEW n, NEW v, blobs' = Inserted(blobs, n, v),
           emptied \subseteq emptied', v = n \/ n \in emptied'
    PROVE  \A b \in DOMAIN blobs' : b \notin emptied' => blobs'[b] = b
<1> DEFINE f == Inserted(blobs, n, v)
<1>1. /\ DOMAIN f = DOMAIN blobs \union {n}
      /\ \A x \in DOMAIN blobs \union {n} : f[x] = IF x = n THEN v ELSE blobs[x]
    BY DEF Inserted
<1> HIDE DEF f
<1>2. \A b \in DOMAIN f : b \notin emptied' => f[b] = b
    BY <1>1 DEF StacksKept
<1> QED
    BY <1>2 DEF f

\* The stacks at the start.
LEMMA InitStacks == Init => StacksKept
<1> SUFFICES ASSUME Init
             PROVE  StacksKept
    OBVIOUS
<1>1. \A b \in DOMAIN blobs : blobs[b] = b
    <2>1. CASE DefaultFile = None
        <3>1. DOMAIN <<>> = {}
            OBVIOUS
        <3> QED BY <2>1, <3>1 DEF Init
    <2>2. CASE DefaultFile # None
        <3>1. blobs = Inserted(<<>>, DefaultFile, DefaultFile)
            BY <2>2 DEF Init
        <3>2. DOMAIN <<>> = {}
            OBVIOUS
        <3> DEFINE f == Inserted(<<>>, DefaultFile, DefaultFile)
        <3>3. DOMAIN f = DOMAIN <<>> \union {DefaultFile}
              /\ \A x \in DOMAIN <<>> \union {DefaultFile} :
                    f[x] = IF x = DefaultFile THEN DefaultFile ELSE <<>>[x]
            BY DEF Inserted
        <3> HIDE DEF f
        <3>4. \A b \in DOMAIN f : f[b] = b
            BY <3>2, <3>3
        <3> QED BY <3>1, <3>4 DEF f
    <2> QED BY <2>1, <2>2
<1> QED
    BY <1>1 DEF Init, StacksKept, StateStacked

\* Loading a script keeps the stacks: the run starts from its seeds or the
\* saved state.
LEMMA LoadStacks ==
    ASSUME BootType, StacksKept, NEW n, Load(n)
    PROVE  StacksKept'
<1>1. PICK b \in latest_cid : \E p \in compile_boot(blobs[b]) :
            boot' = b /\ seeded' = seed_stack(b, p)
    BY DEF Load
<1>2. PICK p \in compile_boot(blobs[b]) : boot' = b /\ seeded' = seed_stack(b, p)
    BY <1>1
<1>3. b \in Scripts /\ (b \notin emptied => blobs[b] = b)
    BY <1>1, LatestStored DEF StacksKept
<1>4. Len(b) \in Nat
    BY <1>3, ScriptsAssumption
<1>5. b \notin emptied => p = Compiled(b)
    BY <1>2, <1>3, <1>4, CompiledOnly
<1>6. boot' \notin emptied => Stacked(boot', seeded')
    BY <1>2, <1>5 DEF seed_stack, Resumes, Stacked, StacksKept, StateStacked
<1>7. UNCHANGED <<blobs, state, emptied>>
    BY DEF Load, files, counts
<1>8. (boot \notin emptied => Stacked(boot, seeded))' /\ StateStacked'
    BY <1>6, <1>7 DEF StacksKept, StateStacked, Stacked
<1> QED
    BY <1>7, <1>8 DEF StacksKept

\* Every step keeps the stacks.
LEMMA NextStacks ==
    ASSUME BootType, StacksKept, [Next]_vars
    PROVE  StacksKept'
<1>0. (state' = state \/ state' = <<>>) /\ emptied \subseteq emptied' => StateStacked'
    BY DEF StacksKept, StateStacked, Stacked
<1>1. CASE put_boot
    <2>1. /\ blobs' = Inserted(blobs, arg, arg) /\ state' = state /\ phase' = "set_latest"
          /\ emptied' = emptied
        BY <1>1 DEF put_boot, counts
    <2>2. \A b \in DOMAIN blobs' : b \notin emptied' => blobs'[b] = b
        BY <2>1, InsertedBlob
    <2> QED BY <1>0, <2>1, <2>2 DEF StacksKept
<1>2. ASSUME NEW n, Load(n)
      PROVE  StacksKept'
    BY <1>2, LoadStacks
<1>3. CASE save_state
    <2>1. /\ phase = "save_state" /\ state' = <<boot, new_stack>> /\ blobs' = blobs
          /\ phase' = "log_boot" /\ emptied' = emptied
        BY <1>3 DEF save_state, counts
    <2>2. boot \notin emptied => Stacked(boot, new_stack)
        BY <2>1 DEF StacksKept, Stacked, new_stack
    <2>3. StateStacked'
        BY <2>1, <2>2 DEF StateStacked, Stacked
    <2> QED BY <2>1, <2>3 DEF StacksKept
<1>4. CASE Crash
    <2>1. (state' = state \/ state' = <<>>) /\ phase' = "idle" /\ emptied \subseteq emptied'
        BY <1>4 DEF Crash, DiesWriting, Stopped
    <2>2. \A b \in DOMAIN blobs' : b \notin emptied' => blobs'[b] = b
        <3>1. CASE blobs' = blobs
            BY <2>1, <3>1 DEF StacksKept
        <3>2. CASE blobs' = Inserted(blobs, arg, <<>>) /\ arg \in emptied'
            BY <2>1, <3>2, InsertedBlob
        <3> QED BY <1>4, <3>1, <3>2 DEF Crash, DiesWriting
    <2> QED BY <1>0, <2>1, <2>2 DEF StacksKept
<1>5. CASE UNCHANGED vars \/ \E b : Points(b)
    <2>1. UNCHANGED <<blobs, state, phase, boot, seeded, emptied>>
        BY <1>5 DEF vars, Points, files, local, dispatcher, counts
    <2> QED BY <1>0, <2>1 DEF StacksKept, Stacked
<1>6. ASSUME NEW b, NEW r, NEW first \in {"put_boot", "set_latest", "load"}, Starts(first, b, r)
      PROVE  StacksKept'
    <2>1. UNCHANGED <<blobs, state, emptied>> /\ phase' = first
        BY <1>6 DEF Starts, files
    <2> QED BY <1>0, <2>1 DEF StacksKept
<1>7. CASE set_latest \/ LoadFails \/ BootFails \/ log_boot \/ newline
    <2>1. UNCHANGED <<blobs, state, emptied>> /\ phase' \in {"load", "idle", "newline"}
        BY <1>7 DEF set_latest, LoadFails, BootFails, log_boot, newline, Stopped, files, counts
    <2> QED BY <1>0, <2>1 DEF StacksKept
<1>8. CASE Dispatch
    <2>1. UNCHANGED <<blobs, state, phase, boot, emptied>> /\ D!Pop
        BY <1>8 DEF Dispatch, files, local, counts
    <2>2. seeded' = seeded
        BY <2>1 DEF D!Pop, D!Drained, D!route_value, D!fire, D!FireStarved, D!FireFails, D!StopAtFire
    <2> QED BY <1>0, <2>1, <2>2 DEF StacksKept, Stacked
<1>9. CASE DispatchDone \/ commit_record \/ Committed
    <2>1. /\ UNCHANGED <<blobs, state, boot, seeded, emptied>>
          /\ phase \in {"dispatch", "commit", "save_state"}
        BY <1>9 DEF DispatchDone, commit_record, Committed, files, dispatcher, counts
    <2>2. (boot \notin emptied => Stacked(boot, seeded))'
        BY <2>1 DEF StacksKept, Stacked
    <2> QED BY <1>0, <2>1, <2>2 DEF StacksKept
<1> QED
    BY <1>1, <1>2, <1>3, <1>4, <1>5, <1>6, <1>7, <1>8, <1>9
       DEF Next, BootFile, BootCid, BootLatest, rollback, rollback_previous

\* A boot whose script has a stack never starts from nothing (main.rs boot),
\* whatever died inside whichever write, unless it was a put_boot of this script:
\* its cut blob compiles to an empty program, whose empty stack is then on file.
THEOREM BootNeverStartsEmpty == Spec => []NeverStartsEmpty
<1>1. Init => BootType /\ StacksKept
    BY InitBootType, InitStacks
<1>2. BootType /\ StacksKept /\ [Next]_vars => (BootType /\ StacksKept)'
    BY NextBootType, NextStacks
<1>3. StacksKept => NeverStartsEmpty
    BY DEF StacksKept, NeverStartsEmpty, Stacked
<1> QED
    BY <1>1, <1>2, <1>3, PTL DEF Spec

-----------------------------------------------------------------------------
(* The programs a script defines.                                           *)

\* The sources that the `def` lines of the scripts can resolve to.
DefLines == {l \in UNION {ToSet(b) : b \in Scripts} : l[1] = "def"}

Sources ==
    UNION {[arity : {l[3]}, outputs : {l[4]},
            words : [DOMAIN l[5] -> ToSet(l[5]) \union ({"value"} \X Value) \union ({"call"} \X Nat)]] :
              l \in DefLines}

\* Two sources have different CIDs.
OpIdsDistinct ==
    \A s \in Sources : OpId(s) \in Nat /\ \A t \in Sources : OpId(s) = OpId(t) => s = t

ResolvedIn(p, w) ==
    /\ w[1] = "value" => w[2] \in p.literals
    /\ w[1] = "call" => w[2] \in DOMAIN p.prog

Uncalled(p, S) ==
    \E o \in S : \A w \in ToSet(p.prog[o].words) : ~(w[1] = "call" /\ w[2] \in S)

\* Names are bound to what is stored, programs are filed under their CIDs, and a
\* program calls only what was there before it.
Grounded(p) ==
    /\ p.literals \subseteq Value
    /\ Range(p.values) \subseteq p.literals
    /\ Range(p.universes) \subseteq p.literals
    /\ Range(p.ops) \subseteq DOMAIN p.prog
    /\ \A o \in DOMAIN p.prog : p.prog[o] \in Sources /\ OpId(p.prog[o]) = o
    /\ \A o \in DOMAIN p.prog : \A w \in ToSet(p.prog[o].words) : ResolvedIn(p, w)
    /\ \A S \in SUBSET DOMAIN p.prog : S # {} => Uncalled(p, S)

\* One binding more, one value more.
LEMMA InsertedRange ==
    ASSUME NEW f, NEW n, NEW v
    PROVE  Range(Inserted(f, n, v)) \subseteq Range(f) \union {v}
BY DEF Inserted, Range

\* What only the other fields of a program tell apart.
LEMMA GroundedSame ==
    ASSUME NEW p, Grounded(p), NEW q,
           q.literals = p.literals, q.values = p.values, q.universes = p.universes,
           q.ops = p.ops, q.prog = p.prog
    PROVE  Grounded(q)
BY DEF Grounded, ResolvedIn, Uncalled

\* A resolved word refers to what the program has.
LEMMA ResolveWordGrounded ==
    ASSUME NEW p, Grounded(p), NEW w, w[1] # "value", NEW x \in resolve_word(p, w), OpIdsDistinct
    PROVE  /\ ResolvedIn(p, x)
           /\ x \in {w} \union ({"value"} \X Value) \union ({"call"} \X Nat)
<1> DEFINE Named(v) == v \in p.literals /\ v \in Value
<1>1. \A n : \A v \in Lookup(p.values, n) \union Universe(p, n) : Named(v)
    BY DEF Lookup, Universe, Range, Grounded
<1>2. \A v \in Sole(p) : Named(v)
    BY DEF Sole, Range, Grounded
<1>3. \A n : \A o \in Lookup(p.ops, n) : o \in DOMAIN p.prog /\ o \in Nat
    BY DEF Lookup, Range, Grounded, OpIdsDistinct
<1>4. ASSUME NEW v, Named(v), x = <<"value", v>>
      PROVE  ResolvedIn(p, x) /\ x \in {"value"} \X Value
    BY <1>4 DEF ResolvedIn
<1>5. CASE w[1] = "@universe"
    <2>1. PICK u : u \in (IF Len(w) = 1 THEN Sole(p) ELSE Universe(p, w[2])) /\ x = <<"value", u>>
        BY <1>5 DEF resolve_word
    <2>2. Named(u)
        BY <1>1, <1>2, <2>1
    <2> HIDE DEF Named
    <2> QED BY <1>4, <2>1, <2>2
<1>6. CASE w[1] = "@"
    <2>1. PICK v \in Lookup(p.values, w[2]) : x = <<"value", v>>
        BY <1>6 DEF resolve_word
    <2>2. Named(v)
        BY <1>1, <2>1
    <2> HIDE DEF Named
    <2> QED BY <1>4, <2>1, <2>2
<1>7. CASE w[1] = "call"
    <2>1. PICK o \in Lookup(p.ops, w[2]) : x = <<"call", o>>
        BY <1>7 DEF resolve_word
    <2>2. o \in DOMAIN p.prog /\ o \in Nat
        BY <1>3, <2>1
    <2>3. ResolvedIn(p, x) /\ x \in {"call"} \X Nat
        BY <2>1, <2>2 DEF ResolvedIn
    <2> QED BY <2>3
<1>8. CASE w[1] = "bad"
    BY <1>8 DEF resolve_word
<1>9. CASE w[1] \notin {"@universe", "@", "call", "bad"}
    <2>1. x = w
        BY <1>9 DEF resolve_word
    <2> QED BY <1>9, <2>1 DEF ResolvedIn
<1> QED
    BY <1>5, <1>6, <1>7, <1>8, <1>9

\* More literals, more names.
LEMMA GroundedMore ==
    ASSUME NEW p, Grounded(p), NEW q,
           q.literals \subseteq Value, p.literals \subseteq q.literals,
           Range(q.values) \subseteq q.literals, Range(q.universes) \subseteq q.literals,
           q.ops = p.ops, q.prog = p.prog
    PROVE  Grounded(q)
BY DEF Grounded, ResolvedIn, Uncalled

\* A value line keeps the program grounded.
LEMMA ValueGrounded ==
    ASSUME NEW p, Shaped(p), Grounded(p), NEW n, NEW v \in Value
    PROVE  Grounded(AddValue(p, n, v)) /\ v \in AddValue(p, n, v).literals
<1> DEFINE q == AddValue(p, n, v)
<1>1. /\ q.literals = p.literals \union {v} /\ q.values = Inserted(p.values, n, v)
      /\ q.universes = p.universes /\ q.ops = p.ops /\ q.prog = p.prog
    BY DEF AddValue, Shaped, Fields
<1> HIDE DEF q
<1>2. Range(q.values) \subseteq q.literals /\ Range(q.universes) \subseteq q.literals
    BY <1>1, InsertedRange DEF Grounded
<1>3. q.literals \subseteq Value /\ p.literals \subseteq q.literals
    BY <1>1 DEF Grounded
<1>4. Grounded(q)
    BY <1>1, <1>2, <1>3, GroundedMore
<1> QED
    BY <1>1, <1>4 DEF q

\* So does a universe line.
LEMMA UniverseGrounded ==
    ASSUME NEW p, Shaped(p), Grounded(p), NEW n, NEW refs, NEW q \in AddUniverse(p, n, refs)
    PROVE  Grounded(q)
<1>1. PICK us : /\ ToSet(us) \subseteq p.literals
                /\ q = LET r == AddValue(p, n, UNION ToSet(us)) IN
                       [r EXCEPT !.universes = Inserted(@, n, UNION ToSet(us))]
    BY DEF AddUniverse
<1> DEFINE v == UNION ToSet(us)
           r == AddValue(p, n, v)
<1>2. v \in Value
    BY <1>1 DEF Grounded, Value
<1>3. Grounded(r) /\ Shaped(r) /\ v \in r.literals
    BY <1>2, ValueGrounded, ValueShaped
<1>4. q = [r EXCEPT !.universes = Inserted(r.universes, n, v)]
    BY <1>1
<1> HIDE DEF v, r
<1>5. /\ q.universes = Inserted(r.universes, n, v) /\ q.literals = r.literals
      /\ q.values = r.values /\ q.ops = r.ops /\ q.prog = r.prog
    BY <1>3, <1>4 DEF Shaped, Fields
<1>6. Range(q.universes) \subseteq q.literals
    BY <1>3, <1>5, InsertedRange DEF Grounded
<1> QED
    BY <1>3, <1>5, <1>6, GroundedMore DEF Grounded

\* A program whose words resolve is new on top of the others, or was there already.
LEMMA AddGrounded ==
    ASSUME NEW p, Grounded(p), OpIdsDistinct, NEW spec \in Sources,
           \A w \in ToSet(spec.words) : ResolvedIn(p, w),
           NEW n, NEW q, q.literals = p.literals, q.values = p.values, q.universes = p.universes,
           q.prog = Inserted(p.prog, OpId(spec), spec), q.ops = Inserted(p.ops, n, OpId(spec))
    PROVE  Grounded(q)
<1> DEFINE new == OpId(spec)
<1>1. /\ DOMAIN q.prog = DOMAIN p.prog \union {new}
      /\ q.prog[new] = spec
      /\ \A o \in DOMAIN p.prog : o # new => q.prog[o] = p.prog[o]
    BY DEF Inserted
<1>2. Range(q.ops) \subseteq DOMAIN q.prog
    BY <1>1, InsertedRange DEF Grounded
<1> HIDE DEF new
<1>3. CASE new \in DOMAIN p.prog
    <2>1. p.prog[new] = spec
        BY <1>3 DEF Grounded, OpIdsDistinct, new
    <2>2. DOMAIN q.prog = DOMAIN p.prog /\ \A o \in DOMAIN p.prog : q.prog[o] = p.prog[o]
        BY <1>1, <1>3, <2>1
    <2>3. \A S \in SUBSET DOMAIN q.prog : S # {} => Uncalled(q, S)
        BY <2>2 DEF Grounded, Uncalled
    <2>4. \A o \in DOMAIN q.prog : \A w \in ToSet(q.prog[o].words) : ResolvedIn(q, w)
        BY <2>2 DEF Grounded, ResolvedIn
    <2>5. \A o \in DOMAIN q.prog : q.prog[o] \in Sources /\ OpId(q.prog[o]) = o
        BY <2>2 DEF Grounded
    <2> QED BY <1>2, <2>3, <2>4, <2>5 DEF Grounded
<1>4. CASE new \notin DOMAIN p.prog
    <2>1. \A o \in DOMAIN q.prog : q.prog[o] \in Sources /\ OpId(q.prog[o]) = o
        BY <1>1, <1>4 DEF Grounded, new
    <2>2. \A w : ResolvedIn(p, w) => ResolvedIn(q, w)
        BY <1>1 DEF ResolvedIn
    <2>3. \A o \in DOMAIN q.prog : \A w \in ToSet(q.prog[o].words) : ResolvedIn(q, w)
        BY <1>1, <1>4, <2>2 DEF Grounded
    <2>4. ASSUME NEW S \in SUBSET DOMAIN q.prog, S # {}
          PROVE  Uncalled(q, S)
        <3> DEFINE R == S \ {new}
        <3>1. R \subseteq DOMAIN p.prog
            BY <1>1
        <3>2. CASE R = {}
            <4>1. S = {new}
                BY <2>4, <3>2
            <4>2. \A w \in ToSet(q.prog[new].words) : ~(w[1] = "call" /\ w[2] \in S)
                BY <1>1, <1>4, <4>1 DEF ResolvedIn
            <4> QED BY <4>1, <4>2 DEF Uncalled
        <3>3. CASE R # {}
            <4> HIDE DEF R
            <4>1. PICK o \in R : \A w \in ToSet(p.prog[o].words) : ~(w[1] = "call" /\ w[2] \in R)
                BY <3>1, <3>3 DEF Grounded, Uncalled
            <4>2. o \in DOMAIN p.prog /\ q.prog[o] = p.prog[o]
                BY <1>1, <1>4, <3>1, <4>1
            <4>3. \A w \in ToSet(p.prog[o].words) : w[1] = "call" => w[2] # new
                BY <1>4, <4>2 DEF Grounded, ResolvedIn
            <4>4. \A w \in ToSet(q.prog[o].words) : ~(w[1] = "call" /\ w[2] \in S)
                BY <4>1, <4>2, <4>3 DEF R
            <4> QED BY <4>1, <4>4 DEF Uncalled, R
        <3> QED BY <3>2, <3>3
    <2> QED BY <1>2, <2>1, <2>3, <2>4 DEF Grounded
<1> QED
    BY <1>3, <1>4

\* So does an operation line, when the identifiers are distinct.
LEMMA OpGrounded ==
    ASSUME NEW p, Shaped(p), Grounded(p), OpIdsDistinct, NEW l \in DefLines,
           \A w \in ToSet(l[5]) : w[1] # "value",
           NEW q \in AddOp(p, l[2], l[3], l[4], l[5])
    PROVE  Grounded(q)
<1> DEFINE f == [i \in DOMAIN l[5] |-> resolve_word(p, l[5][i])]
           Spec1(ws) == [arity |-> l[3], outputs |-> l[4], words |-> ws]
           X == ToSet(l[5]) \union ({"value"} \X Value) \union ({"call"} \X Nat)
<1>1. PICK ws \in OneOfEach(f) :
        q = [p EXCEPT !.prog = Inserted(@, OpId(Spec1(ws)), Spec1(ws)),
                      !.ops = Inserted(@, l[2], OpId(Spec1(ws)))]
    BY DEF AddOp
<1>2. DOMAIN ws = DOMAIN l[5] /\ ws \in [DOMAIN l[5] -> UNION ToSet(f)]
      /\ \A i \in DOMAIN l[5] : ws[i] \in resolve_word(p, l[5][i])
    BY DEF OneOfEach
<1>3. ASSUME NEW i \in DOMAIN l[5]
      PROVE  ResolvedIn(p, ws[i]) /\ ws[i] \in X
    <2>1. l[5][i] \in ToSet(l[5])
        BY DEF ToSet
    <2>2. ResolvedIn(p, ws[i])
          /\ ws[i] \in {l[5][i]} \union ({"value"} \X Value) \union ({"call"} \X Nat)
        BY <1>2, <2>1, ResolveWordGrounded
    <2> QED BY <2>1, <2>2
<1> HIDE DEF X
<1>4. ws \in [DOMAIN l[5] -> X]
    BY <1>2, <1>3
<1> DEFINE spec == Spec1(ws)
<1>5. spec \in Sources
    BY <1>4 DEF Sources, X
<1>6. \A w \in ToSet(spec.words) : ResolvedIn(p, w)
    <2>1. spec.words = ws
        OBVIOUS
    <2> QED BY <1>2, <1>3, <2>1 DEF ToSet
<1>7. q = [p EXCEPT !.prog = Inserted(p.prog, OpId(spec), spec),
                    !.ops = Inserted(p.ops, l[2], OpId(spec))]
    BY <1>1
<1> HIDE DEF spec, f
<1>8. /\ q.literals = p.literals /\ q.values = p.values /\ q.universes = p.universes
      /\ q.prog = Inserted(p.prog, OpId(spec), spec) /\ q.ops = Inserted(p.ops, l[2], OpId(spec))
    BY <1>7 DEF Shaped, Fields
<1> QED
    BY <1>5, <1>6, <1>8, AddGrounded

\* So does every line of a script.
LEMMA LineGrounded ==
    ASSUME NEW p, Shaped(p), Grounded(p), OpIdsDistinct, NEW b \in Scripts, NEW l \in ToSet(b),
           NEW q \in Line(p, l)
    PROVE  Grounded(q)
<1>1. CASE l[1] = "value"
    <2>1. q = AddValue(p, l[2], l[3]) /\ l[3] \in Value
        BY <1>1, ScriptsAssumption DEF Line
    <2> QED BY <2>1, ValueGrounded
<1>2. CASE l[1] = "universe"
    <2>1. q \in AddUniverse(p, l[2], l[3])
        BY <1>2 DEF Line
    <2> QED BY <2>1, UniverseGrounded
<1>3. CASE l[1] = "def"
    <2>1. q \in AddOp(p, l[2], l[3], l[4], l[5])
        BY <1>3 DEF Line
    <2>2. l \in DefLines /\ \A w \in ToSet(l[5]) : w[1] # "value"
        BY <1>3, ScriptsAssumption DEF DefLines
    <2> QED BY <2>1, <2>2, OpGrounded
<1>4. CASE l[1] = "link"
    <2>1. q \in Connect(p, l[2], l[3])
        BY <1>4 DEF Line
    <2>2. /\ q.literals = p.literals /\ q.values = p.values /\ q.universes = p.universes
          /\ q.ops = p.ops /\ q.prog = p.prog
        BY <2>1 DEF Connect, Shaped, Fields
    <2> QED BY <2>2, GroundedSame
<1>5. CASE l[1] = "stack"
    <2>1. \E s : q = [p EXCEPT !.stack = s]
        BY <1>5 DEF Line
    <2>2. /\ q.literals = p.literals /\ q.values = p.values /\ q.universes = p.universes
          /\ q.ops = p.ops /\ q.prog = p.prog
        BY <2>1 DEF Shaped, Fields
    <2> QED BY <2>2, GroundedSame
<1>6. CASE l[1] = "fires"
    <2>1. q = [p EXCEPT !.fires = l[2]]
        BY <1>6 DEF Line
    <2>2. /\ q.literals = p.literals /\ q.values = p.values /\ q.universes = p.universes
          /\ q.ops = p.ops /\ q.prog = p.prog
        BY <2>1 DEF Shaped, Fields
    <2> QED BY <2>2, GroundedSame
<1>7. CASE l[1] \notin {"value", "universe", "def", "link", "stack", "fires"}
    BY <1>7 DEF Line
<1> QED
    BY <1>1, <1>2, <1>3, <1>4, <1>5, <1>6, <1>7

\* The empty program is grounded.
LEMMA EmptyGrounded == Shaped(EmptyProgram) /\ Grounded(EmptyProgram)
<1>1. DOMAIN <<>> = {} /\ IsFiniteSet({})
    BY FS_EmptySet
<1>2. Range(<<>>) = {}
    BY <1>1 DEF Range
<1>3. Shaped(EmptyProgram)
    BY <1>1 DEF Shaped, Fields, EmptyProgram
<1> QED
    BY <1>1, <1>2, <1>3 DEF Grounded, EmptyProgram

\* The lines of a piece are lines of a script.
LEMMA PieceLines ==
    ASSUME NEW b \in Piece
    PROVE  Len(b) \in Nat /\ \A k \in 1..Len(b) : b \in Scripts /\ b[k] \in ToSet(b)
<1>1. CASE b \in Scripts
    <2>1. PICK L : b \in Seq(L)
        BY <1>1, ScriptsAssumption
    <2> QED BY <1>1, <2>1 DEF ToSet
<1>2. CASE b = <<>>
    BY <1>2
<1> QED
    BY <1>1, <1>2 DEF Piece, None

\* A compiled program is grounded.
LEMMA CompileGrounded ==
    ASSUME OpIdsDistinct, NEW b \in Piece, NEW p \in compile_boot(b)
    PROVE  Shaped(p) /\ Grounded(p)
<1>0. Len(b) \in Nat /\ \A k \in 1..Len(b) : b \in Scripts /\ b[k] \in ToSet(b)
    BY PieceLines
<1>1. PICK g : Readings(g, b)
    BY <1>0, CompileReads
<1>2. /\ compile_boot(b) = g[Len(b)] /\ g[0] = {EmptyProgram}
      /\ \A k \in 1..Len(b) : g[k] = UNION {Line(r, b[k]) : r \in g[k - 1]}
    BY <1>1 DEF Readings
<1> DEFINE T == {k \in 0..Len(b) : \A r \in g[k] : Shaped(r) /\ Grounded(r)}
<1>3. 0 \in T
    BY <1>0, <1>2, EmptyGrounded
<1>4. ASSUME NEW k \in 1..Len(b), k - 1 \in T
      PROVE  k \in T
    <2>1. \A r \in g[k - 1] : Shaped(r) /\ Grounded(r)
        BY <1>4
    <2>2. ASSUME NEW q \in g[k]
          PROVE  Shaped(q) /\ Grounded(q)
        <3>1. PICK r \in g[k - 1] : q \in Line(r, b[k])
            BY <1>2, <2>2
        <3>2. Shaped(r) /\ Grounded(r)
            BY <2>1
        <3> QED BY <1>0, <3>1, <3>2, LineOne, LineGrounded
    <2> QED BY <1>0, <2>2
<1> HIDE DEF T
<1>5. \A k \in 0..Len(b) : k \in T
    BY <1>0, <1>3, <1>4, Climb
<1> USE DEF T
<1>6. Len(b) \in T
    BY <1>0, <1>5
<1> QED
    BY <1>2, <1>6

-----------------------------------------------------------------------------
(* The graph that a process runs.                                           *)

\* A blob is the text of a boot file, or empty when a write was cut.
BlobTexts == \A b \in DOMAIN blobs : blobs[b] \in Piece

\* A stored text is a text.
LEMMA InsertedText ==
    ASSUME BlobTexts, NEW n, NEW v \in Piece, blobs' = Inserted(blobs, n, v)
    PROVE  BlobTexts'
BY DEF BlobTexts, Inserted

\* Every step keeps the stored texts.
LEMMA NextTexts ==
    ASSUME BootType, BlobTexts, [Next]_vars
    PROVE  BlobTexts'
<1>1. CASE put_boot
    <2>1. blobs' = Inserted(blobs, arg, arg) /\ arg \in Piece
        BY <1>1 DEF put_boot, BootType, Piece
    <2> QED BY <2>1, InsertedText
<1>2. CASE Crash
    <2>1. <<>> \in Piece
        BY DEF Piece, None
    <2>2. blobs' = blobs \/ blobs' = Inserted(blobs, arg, <<>>)
        BY <1>2 DEF Crash, DiesWriting
    <2> QED BY <2>1, <2>2, InsertedText DEF BlobTexts
<1>3. CASE ~put_boot /\ ~Crash
    <2>1. blobs' = blobs
        BY <1>3 DEF Next, vars, files, BootFile, BootCid, BootLatest, Starts, set_latest, Load,
            LoadFails, Dispatch, DispatchDone, BootFails, commit_record, Committed, save_state,
            log_boot, newline, rollback, rollback_previous, Points
    <2> QED BY <2>1 DEF BlobTexts
<1> QED
    BY <1>1, <1>2, <1>3

\* There is no text at the start.
LEMMA InitTexts == Init => BlobTexts
<1>1. CASE DefaultFile = None
    <2>1. DOMAIN <<>> = {}
        OBVIOUS
    <2> QED BY <1>1, <2>1 DEF Init, BlobTexts
<1>2. CASE DefaultFile # None
    <2>1. DefaultFile \in Piece /\ DOMAIN <<>> = {}
        BY <1>2, ScriptsAssumption DEF Piece
    <2> QED BY <1>2, <2>1 DEF Init, BlobTexts, Inserted
<1> QED
    BY <1>1, <1>2

\* What ProgramsGrounded says of a graph.
LEMMA GraphGrounded ==
    ASSUME NEW p, Grounded(p), graph = GraphOf(p)
    PROVE  ProgramsGrounded
BY DEF Grounded, ResolvedIn, Uncalled, GraphOf, ProgramsGrounded

RunsGrounded == \E p : Grounded(p) /\ graph = GraphOf(p)

\* Every step keeps the graph of the running process grounded.
LEMMA NextGraph ==
    ASSUME OpIdsDistinct, BootType, BlobTexts, RunsGrounded, [Next]_vars
    PROVE  RunsGrounded'
<1>1. ASSUME NEW n, Load(n)
      PROVE  RunsGrounded'
    <2>1. PICK b \in latest_cid : \E p \in compile_boot(blobs[b]) : graph' = GraphOf(p)
        BY <1>1 DEF Load
    <2>2. PICK p \in compile_boot(blobs[b]) : graph' = GraphOf(p)
        BY <2>1
    <2>3. blobs[b] \in Piece
        BY LatestStored DEF BlobTexts
    <2>4. Grounded(p)
        BY <2>2, <2>3, CompileGrounded
    <2> QED BY <2>2, <2>4 DEF RunsGrounded
<1>2. CASE Stopped
    BY <1>2, EmptyGrounded DEF Stopped, RunsGrounded
<1>3. CASE Dispatch
    <2>1. graph' = graph
        BY <1>3 DEF Dispatch, D!Pop, D!Drained, D!route_value, D!fire, D!FireStarved, D!FireFails,
                    D!StopAtFire
    <2> QED BY <2>1 DEF RunsGrounded
<1>4. CASE ~(\E n : Load(n)) /\ ~Stopped /\ ~Dispatch
    <2>1. graph' = graph
        BY <1>4 DEF Next, vars, dispatcher, BootFile, BootCid, BootLatest, Starts, put_boot,
            set_latest, LoadFails, DispatchDone, BootFails, commit_record, Committed, save_state,
            log_boot, newline, rollback, rollback_previous, Points, Crash
    <2> QED BY <2>1 DEF RunsGrounded
<1> QED
    BY <1>1, <1>2, <1>3, <1>4

\* A program that runs never meets a literal that is not stored, a callee that
\* is not in the table, or itself (dsl.rs resolves every name as it compiles),
\* through any sequence of boots, rollbacks and crashes, if no two sources have
\* one CID.
THEOREM BootProgramsGrounded ==
    ASSUME OpIdsDistinct
    PROVE  Spec => []ProgramsGrounded
<1>1. Init => BootType /\ BlobTexts /\ RunsGrounded
    BY InitBootType, InitTexts, EmptyGrounded DEF Init, RunsGrounded
<1>2. BootType /\ BlobTexts /\ RunsGrounded /\ [Next]_vars
        => (BootType /\ BlobTexts /\ RunsGrounded)'
    BY NextBootType, NextTexts, NextGraph
<1>3. RunsGrounded => ProgramsGrounded
    BY GraphGrounded DEF RunsGrounded
<1> QED
    BY <1>1, <1>2, <1>3, PTL DEF Spec

-----------------------------------------------------------------------------
(* The evaluator: more stored values, more outcomes.                        *)

\* The evaluator of this module is that of the dispatcher's proofs.
LEMMA SameOutcome ==
    ASSUME NEW prog, NEW o, NEW inputs, NEW stored
    PROVE  Facts!Outcome(prog, o, inputs, stored) = Outcome(prog, o, inputs, stored)
BY DEF Facts!Outcome, Outcome, Facts!Evaluated, Evaluated, Facts!Inlined, Inlined, Facts!After, After,
       Facts!Needs, Needs, Facts!Binary, Binary, Facts!exists_c, exists_c, Facts!forall_c, forall_c,
       Facts!Coord, Coord, Facts!Value, Value, Facts!Plane, Plane, Facts!FlattenSeq, FlattenSeq,
       Facts!ToSet, ToSet, Facts!Front, Front, Facts!Last, Last

\* A program that succeeds on what is stored succeeds with the same outputs when
\* more is stored.
LEMMA OutcomeMonotone ==
    ASSUME NEW prog, \A o \in DOMAIN prog : IsSequence(prog[o].words), NEW o \in DOMAIN prog,
           NEW inputs, NEW few, NEW more, few \subseteq more
    PROVE  Outcome(prog, o, inputs, few) \subseteq Outcome(prog, o, inputs, more)
<1>1. \A q \in DOMAIN prog : Facts!IsSequence(prog[q].words)
    BY DEF Facts!IsSequence, IsSequence
<1>2. Facts!Outcome(prog, o, inputs, few) \subseteq Facts!Outcome(prog, o, inputs, more)
    BY <1>1, Facts!OutcomeMonotone, FactsApply
<1> QED
    BY <1>2, SameOutcome

-----------------------------------------------------------------------------
(* The values a boot can hold.                                              *)

Made(p, V) ==
    UNION {UNION {UNION {ToSet(outs) : outs \in Outcome(p.prog, o, ins, Value)} :
                    ins \in [1..p.prog[o].arity -> V]} : o \in DOMAIN p.prog}

Expand(p, V) == V \union Made(p, V)

Own(p) == p.literals \union ToSet(p.stack)

IsReaching(g, n, p) == g = [k \in 0..n |-> IF k = 0 THEN Own(p) ELSE Expand(p, g[k - 1])]

\* So is the growth of the reachable values.
LEMMA ReachingExists ==
    ASSUME NEW p, NEW n \in Nat
    PROVE  \E g : IsReaching(g, n, p)
<1> DEFINE T == {k \in Nat : ~ \E g : IsReaching(g, k, p)}
<1>1. SUFFICES ASSUME n \in T PROVE FALSE
    OBVIOUS
<1>2. PICK m \in T : \A k \in T : m <= k
    <2>1. T \subseteq Nat
        OBVIOUS
    <2> HIDE DEF T
    <2> QED BY <1>1, <2>1, LeastNatural
<1>3. CASE m = 0
    <2> DEFINE g == [k \in 0..0 |-> Own(p)]
    <2>1. IsReaching(g, 0, p)
        BY DEF IsReaching
    <2> QED BY <1>2, <1>3, <2>1
<1>4. CASE m # 0
    <2>1. m - 1 \in Nat /\ m - 1 \notin T
        <3>1. m \in Nat
            BY <1>2
        <3> HIDE DEF T
        <3> QED BY <1>2, <1>4, <3>1
    <2>2. PICK g : IsReaching(g, m - 1, p)
        BY <2>1
    <2> DEFINE h == [k \in 0..m |-> IF k = 0 THEN Own(p) ELSE Expand(p, g[k - 1])]
    <2>3. ASSUME NEW k \in 0..(m - 1)
          PROVE  h[k] = g[k]
        <3>1. k \in 0..m
            BY <1>2, <2>1
        <3> QED BY <2>2, <3>1 DEF IsReaching
    <2>4. \A k \in 0..m : k # 0 => k - 1 \in 0..(m - 1)
        BY <1>2
    <2>5. IsReaching(h, m, p)
        BY <2>3, <2>4 DEF IsReaching
    <2> QED BY <1>2, <2>5
<1> QED
    BY <1>3, <1>4

\* Reach is the last of its rounds.
LEMMA ReachIs ==
    ASSUME NEW p, Cardinality(Value) \in Nat
    PROVE  \E g : IsReaching(g, Cardinality(Value), p) /\ Reach(p) = g[Cardinality(Value)]
<1> DEFINE n == Cardinality(Value)
           g == CHOOSE g : IsReaching(g, n, p)
<1>1. IsReaching(g, n, p)
    BY ReachingExists
<1>2. Reach(p) = g[n]
    BY DEF Reach, IsReaching, Expand, Made, Own
<1> QED
    BY <1>1, <1>2

\* What an operation puts out are values.
LEMMA OutcomeValues ==
    ASSUME NEW prog, NEW o, NEW ins, NEW stored, NEW outs \in Outcome(prog, o, ins, stored)
    PROVE  outs \in [1..prog[o].outputs -> Value] /\ ToSet(outs) \subseteq Value
<1>1. outs \in [1..prog[o].outputs -> Value]
    BY DEF Outcome, Evaluated
<1> QED
    BY <1>1 DEF ToSet

\* What a program makes are values.
LEMMA MadeValues ==
    ASSUME NEW p, NEW V
    PROVE  Made(p, V) \subseteq Value
<1> SUFFICES ASSUME NEW o \in DOMAIN p.prog, NEW ins, NEW outs \in Outcome(p.prog, o, ins, Value)
             PROVE  ToSet(outs) \subseteq Value
    BY DEF Made
<1> QED
    BY OutcomeValues

\* The iteration is long enough: nothing more can be made of what is reached.
LEMMA ReachClosed ==
    ASSUME IsFiniteSet(Value), NEW p
    PROVE  Own(p) \subseteq Reach(p) /\ Made(p, Reach(p)) \subseteq Reach(p)
<1> DEFINE n == Cardinality(Value)
<1>1. n \in Nat
    BY FS_CardinalityType
<1>2. PICK g : IsReaching(g, n, p) /\ Reach(p) = g[n]
    BY <1>1, ReachIs
<1> HIDE DEF n
<1>3. g[0] = Own(p) /\ \A k \in 1..n : g[k] = Expand(p, g[k - 1])
    <2>1. g[0] = Own(p)
        BY <1>1, <1>2 DEF IsReaching
    <2>2. ASSUME NEW k \in 1..n
          PROVE  g[k] = Expand(p, g[k - 1])
        <3>1. k \in 0..n /\ k # 0
            BY <1>1
        <3> QED BY <1>2, <3>1 DEF IsReaching
    <2> QED BY <2>1, <2>2
<1>4. \A k \in 0..n : g[0] \subseteq g[k]
    <2> DEFINE T == {k \in 0..n : g[0] \subseteq g[k]}
    <2>1. 0 \in T
        BY <1>1
    <2>2. ASSUME NEW k \in 1..n, k - 1 \in T
          PROVE  k \in T
        <3>1. g[k - 1] \subseteq g[k] /\ g[0] \subseteq g[k - 1] /\ k \in 0..n
            BY <1>1, <1>3, <2>2 DEF Expand
        <3> QED BY <3>1
    <2> HIDE DEF T
    <2>3. \A k \in 0..n : k \in T
        BY <1>1, <2>1, <2>2, Climb
    <2> QED BY <2>3 DEF T
<1>5. SUFFICES ASSUME ~(Made(p, g[n]) \subseteq g[n])
               PROVE  FALSE
    <2>1. Own(p) \subseteq g[n]
        BY <1>1, <1>3, <1>4
    <2> QED BY <1>2, <2>1
<1>6. ASSUME NEW k \in 0..n
      PROVE  ~(Made(p, g[k]) \subseteq g[k])
    <2> SUFFICES ASSUME Made(p, g[k]) \subseteq g[k]
                 PROVE  FALSE
        OBVIOUS
    <2> DEFINE T == {j \in 0..n : j < k \/ g[j] = g[k]}
    <2>1. 0 \in T
        BY <1>1
    <2>2. ASSUME NEW j \in 1..n, j - 1 \in T
          PROVE  j \in T
        <3>1. CASE j <= k
            BY <1>1, <3>1
        <3>2. CASE j > k
            <4>1. g[j - 1] = g[k]
                BY <1>1, <2>2, <3>2
            <4>2. g[j] = g[k]
                BY <1>3, <4>1 DEF Expand
            <4> QED BY <1>1, <4>2
        <3> QED BY <1>1, <3>1, <3>2
    <2> HIDE DEF T
    <2>3. \A j \in 0..n : j \in T
        BY <1>1, <2>1, <2>2, Climb
    <2>4. g[n] = g[k]
        BY <1>1, <2>3 DEF T
    <2> QED BY <1>5, <2>4
<1> DEFINE New(k) == g[k] \ g[0]
           T == {k \in 0..n : New(k) \subseteq Value /\ Cardinality(New(k)) >= k}
<1>7. 0 \in T
    <2>1. New(0) = {} /\ Cardinality({}) = 0
        BY FS_EmptySet
    <2> QED BY <1>1, <2>1
<1>8. ASSUME NEW k \in 1..n, k - 1 \in T
      PROVE  k \in T
    <2>1. New(k - 1) \subseteq Value /\ Cardinality(New(k - 1)) >= k - 1 /\ k - 1 \in 0..n
        BY <1>8
    <2>2. PICK x \in Made(p, g[k - 1]) : x \notin g[k - 1]
        BY <1>6, <2>1
    <2>3. x \in Value
        BY <2>2, MadeValues
    <2>4. g[k] = g[k - 1] \union Made(p, g[k - 1]) /\ g[0] \subseteq g[k - 1]
        BY <1>3, <1>4, <2>1 DEF Expand
    <2>5. /\ New(k - 1) \union {x} \subseteq New(k) /\ x \notin New(k - 1)
          /\ New(k) \subseteq Value
        BY <2>1, <2>2, <2>4, MadeValues
    <2> HIDE DEF New
    <2>6. IsFiniteSet(New(k)) /\ IsFiniteSet(New(k - 1))
        BY <2>1, <2>5, FS_Subset
    <2>7. /\ IsFiniteSet(New(k - 1) \union {x})
          /\ Cardinality(New(k - 1) \union {x}) = Cardinality(New(k - 1)) + 1
        BY <2>5, <2>6, FS_AddElement
    <2>8. Cardinality(New(k - 1) \union {x}) <= Cardinality(New(k))
        BY <2>5, <2>6, FS_Subset
    <2>9. Cardinality(New(k)) >= k
        <3>1. Cardinality(New(k)) \in Nat /\ Cardinality(New(k - 1)) \in Nat
            BY <2>6, FS_CardinalityType
        <3> QED BY <1>1, <2>1, <2>7, <2>8, <3>1
    <2> QED BY <1>1, <2>5, <2>9
<1> HIDE DEF T
<1>9. \A k \in 0..n : k \in T
    BY <1>1, <1>7, <1>8, Climb
<1>10. New(n) \subseteq Value /\ Cardinality(New(n)) >= n
    <2>1. n \in T
        BY <1>1, <1>9
    <2> QED BY <2>1 DEF T
<1>11. New(n) = Value
    <2> HIDE DEF New
    <2>1. Cardinality(New(n)) <= n /\ (Cardinality(New(n)) = n => New(n) = Value)
        BY <1>10, FS_Subset DEF n
    <2>2. Cardinality(New(n)) \in Nat
        BY <1>10, FS_Subset, FS_CardinalityType
    <2> QED BY <1>1, <1>10, <2>1, <2>2
<1> QED
    BY <1>5, <1>11, MadeValues

\* What the dispatcher needs of a compiled program.
Typed(p) ==
    /\ p.literals \subseteq Value
    /\ IsFiniteSet(p.edges)
    /\ IsSequence(p.stack)
    /\ \A o \in DOMAIN p.prog : /\ p.prog[o].arity \in Nat /\ p.prog[o].outputs \in Nat
                               /\ IsSequence(p.prog[o].words)

\* A choice of one candidate per position is a sequence.
LEMMA ChoiceSequence ==
    ASSUME NEW f, IsSequence(f), NEW s \in OneOfEach(f)
    PROVE  IsSequence(s)
<1> DEFINE V == UNION ToSet(f)
<1>1. s \in [DOMAIN f -> V]
    BY DEF OneOfEach
<1> HIDE DEF V
<1>2. DOMAIN f = 1..Len(f) /\ Len(f) \in Nat
    BY DEF IsSequence
<1>3. s \in Seq(V)
    BY <1>1, <1>2
<1> QED
    BY <1>3 DEF IsSequence

\* The lists of a line, resolved.
LEMMA ListSequence ==
    ASSUME NEW L, NEW l \in Seq(L), NEW f, DOMAIN f = DOMAIN l, f = [i \in DOMAIN l |-> f[i]]
    PROVE  IsSequence(f)
<1> DEFINE V == {f[i] : i \in DOMAIN l}
<1>1. DOMAIN l = 1..Len(l) /\ Len(l) \in Nat
    OBVIOUS
<1>2. f \in Seq(V)
    BY <1>1
<1> QED
    BY <1>2 DEF IsSequence

\* A line keeps a program's values and wires typed.
LEMMA LineTyped ==
    ASSUME NEW p, Shaped(p), Typed(p), NEW b \in Scripts, NEW l \in ToSet(b), NEW q \in Line(p, l)
    PROVE  Typed(q)
<1>1. CASE l[1] = "value"
    <2>1. q = AddValue(p, l[2], l[3]) /\ l[3] \in Value
        BY <1>1, ScriptsAssumption DEF Line
    <2>2. /\ q.literals = p.literals \union {l[3]} /\ q.edges = p.edges /\ q.stack = p.stack
          /\ q.prog = p.prog
        BY <2>1 DEF AddValue, Shaped, Fields
    <2> QED BY <2>1, <2>2 DEF Typed
<1>2. CASE l[1] = "universe"
    <2>1. q \in AddUniverse(p, l[2], l[3])
        BY <1>2 DEF Line
    <2>2. PICK us : /\ ToSet(us) \subseteq p.literals
                    /\ q = LET r == AddValue(p, l[2], UNION ToSet(us)) IN
                           [r EXCEPT !.universes = Inserted(@, l[2], UNION ToSet(us))]
        BY <2>1 DEF AddUniverse
    <2>3. UNION ToSet(us) \in Value
        BY <2>2 DEF Typed, Value
    <2>4. /\ q.literals = p.literals \union {UNION ToSet(us)} /\ q.edges = p.edges
          /\ q.stack = p.stack /\ q.prog = p.prog
        BY <2>2 DEF AddValue, Shaped, Fields
    <2> QED BY <2>3, <2>4 DEF Typed
<1>3. CASE l[1] = "def"
    <2> DEFINE f == [i \in DOMAIN l[5] |-> resolve_word(p, l[5][i])]
               Spec1(ws) == [arity |-> l[3], outputs |-> l[4], words |-> ws]
    <2>1. l[5] \in Seq(ToSet(l[5])) /\ l[3] \in Nat /\ l[4] \in Nat
        BY <1>3, ScriptsAssumption
    <2>2. IsSequence(f)
        BY <2>1, ListSequence
    <2>3. PICK ws \in OneOfEach(f) :
            q = [p EXCEPT !.prog = Inserted(@, OpId(Spec1(ws)), Spec1(ws)),
                          !.ops = Inserted(@, l[2], OpId(Spec1(ws)))]
        BY <1>3 DEF Line, AddOp
    <2> DEFINE spec == Spec1(ws)
    <2>4. IsSequence(ws)
        <3> HIDE DEF f
        <3> QED BY <2>2, <2>3, ChoiceSequence
    <2>5. spec.arity \in Nat /\ spec.outputs \in Nat /\ IsSequence(spec.words)
        BY <2>1, <2>4
    <2>6. q = [p EXCEPT !.prog = Inserted(@, OpId(spec), spec), !.ops = Inserted(@, l[2], OpId(spec))]
        BY <2>3
    <2> HIDE DEF spec, f
    <2>7. /\ q.literals = p.literals /\ q.edges = p.edges /\ q.stack = p.stack
          /\ q.prog = Inserted(p.prog, OpId(spec), spec)
        BY <2>6 DEF Shaped, Fields
    <2>8. \A o \in DOMAIN q.prog : q.prog[o] = spec \/ (o \in DOMAIN p.prog /\ q.prog[o] = p.prog[o])
        BY <2>7 DEF Inserted
    <2> QED BY <2>5, <2>7, <2>8 DEF Typed
<1>4. CASE l[1] = "link"
    <2>1. q \in Connect(p, l[2], l[3])
        BY <1>4 DEF Line
    <2> DEFINE from == l[2]
               Source == IF from[1] = "value"
                         THEN {<<"value", v>> : v \in resolve_ref(p, from[2])}
                         ELSE {<<"out", o, from[3]>> : o \in resolve_op(p, from[2])}
               e(s, o) == <<s, <<o, l[3][2]>>>>
               Q(s, o) == [p EXCEPT !.edges = @ \cup {e(s, o)}]
    <2>4. Connect(p, l[2], l[3]) = {Q(s, o) : s \in Source, o \in resolve_op(p, l[3][1])}
        BY DEF Connect
    <2> HIDE DEF Source, Q
    <2>5. PICK s \in Source, o \in resolve_op(p, l[3][1]) : q = Q(s, o)
        BY <2>1, <2>4
    <2>2. /\ q.literals = p.literals /\ q.stack = p.stack /\ q.prog = p.prog
          /\ q.edges = p.edges \union {e(s, o)}
        BY <2>5 DEF Q, Shaped, Fields
    <2> HIDE DEF e
    <2>3. IsFiniteSet(q.edges)
        BY <2>2, FS_AddElement, SMTT(40) DEF Typed
    <2> QED BY <2>2, <2>3 DEF Typed
<1>5. CASE l[1] = "stack"
    <2> DEFINE f == [i \in DOMAIN l[2] |-> resolve_ref(p, l[2][i])]
    <2>1. PICK s \in OneOfEach(f) : q = [p EXCEPT !.stack = s]
        BY <1>5 DEF Line
    <2>2. l[2] \in Seq(ToSet(l[2]))
        BY <1>5, ScriptsAssumption
    <2>3. IsSequence(f)
        BY <2>2, ListSequence
    <2> HIDE DEF f
    <2>4. IsSequence(s)
        BY <2>1, <2>3, ChoiceSequence
    <2>5. q.literals = p.literals /\ q.edges = p.edges /\ q.stack = s /\ q.prog = p.prog
        BY <2>1 DEF Shaped, Fields
    <2> QED BY <2>4, <2>5 DEF Typed
<1>6. CASE l[1] = "fires"
    <2>1. q = [p EXCEPT !.fires = l[2]]
        BY <1>6 DEF Line
    <2>2. q.literals = p.literals /\ q.edges = p.edges /\ q.stack = p.stack /\ q.prog = p.prog
        BY <2>1 DEF Shaped, Fields
    <2> QED BY <2>2 DEF Typed
<1>7. CASE l[1] \notin {"value", "universe", "def", "link", "stack", "fires"}
    BY <1>7 DEF Line
<1> QED
    BY <1>1, <1>2, <1>3, <1>4, <1>5, <1>6, <1>7

\* The empty program is typed.
LEMMA EmptyTyped == Typed(EmptyProgram)
<1>1. DOMAIN <<>> = {} /\ IsFiniteSet({}) /\ <<>> \in Seq({})
    BY FS_EmptySet
<1> QED
    BY <1>1 DEF Typed, EmptyProgram, IsSequence

\* A compiled program is typed.
LEMMA CompileTyped ==
    ASSUME NEW b \in Piece, NEW p \in compile_boot(b)
    PROVE  Typed(p)
<1>0. Len(b) \in Nat /\ \A k \in 1..Len(b) : b \in Scripts /\ b[k] \in ToSet(b)
    BY PieceLines
<1>1. PICK g : Readings(g, b)
    BY <1>0, CompileReads
<1>2. /\ compile_boot(b) = g[Len(b)] /\ g[0] = {EmptyProgram}
      /\ \A k \in 1..Len(b) : g[k] = UNION {Line(r, b[k]) : r \in g[k - 1]}
    BY <1>1 DEF Readings
<1> DEFINE T == {k \in 0..Len(b) : \A r \in g[k] : Shaped(r) /\ Typed(r)}
<1>3. 0 \in T
    BY <1>0, <1>2, EmptyGrounded, EmptyTyped
<1>4. ASSUME NEW k \in 1..Len(b), k - 1 \in T
      PROVE  k \in T
    <2>1. \A r \in g[k - 1] : Shaped(r) /\ Typed(r)
        BY <1>4
    <2>2. ASSUME NEW q \in g[k]
          PROVE  Shaped(q) /\ Typed(q)
        <3>1. PICK r \in g[k - 1] : q \in Line(r, b[k])
            BY <1>2, <2>2
        <3>2. Shaped(r) /\ Typed(r)
            BY <2>1
        <3> QED BY <1>0, <3>1, <3>2, LineOne, LineTyped
    <2> QED BY <1>0, <2>2
<1> HIDE DEF T
<1>5. \A k \in 0..Len(b) : k \in T
    BY <1>0, <1>3, <1>4, Climb
<1> USE DEF T
<1>6. Len(b) \in T
    BY <1>0, <1>5
<1> QED
    BY <1>2, <1>6

-----------------------------------------------------------------------------
(* The dispatcher handles only values that the boot can hold.               *)

\* Flattening sequences over a set stays over that set.
LEMMA FlattenOver ==
    ASSUME NEW S, NEW ss \in Seq(Seq(S))
    PROVE  FlattenSeq(ss) \in Seq(S)
<1> DEFINE n == Len(ss)
<1>1. n \in Nat /\ DOMAIN ss = 1..n /\ \A i \in 1..n : ss[i] \in Seq(S)
    OBVIOUS
<1>2. CASE n = 0
    <2>1. ss = <<>>
        BY <1>2
    <2> QED BY <1>2, <2>1 DEF FlattenSeq
<1>3. CASE n # 0
    <2> DEFINE g == CHOOSE f : Facts!IsFlattening(f, n, ss)
    <2>1. Facts!IsFlattening(g, n, ss)
        <3>1. \E f : Facts!IsFlattening(f, n, ss)
            <4> HIDE DEF n
            <4> QED BY <1>1, Facts!FlatteningExists, FactsApply
        <3> QED BY <3>1
    <2>2. FlattenSeq(ss) = g[n]
        BY <1>3 DEF FlattenSeq, Facts!IsFlattening
    <2> HIDE DEF g, n
    <2> DEFINE T == {k \in 0..n : k = 0 \/ g[k] \in Seq(S)}
    <2>3. ASSUME NEW k \in 1..n, k - 1 \in T
          PROVE  k \in T
        <3>1. CASE k = 1
            BY <1>1, <2>1, <3>1 DEF Facts!IsFlattening
        <3>2. CASE k # 1
            <4>1. g[k] = g[k - 1] \o ss[k]
                BY <2>1, <3>2 DEF Facts!IsFlattening
            <4>2. g[k - 1] \in Seq(S) /\ ss[k] \in Seq(S)
                BY <1>1, <2>3, <3>2
            <4>3. k \in 0..n /\ g[k] \in Seq(S)
                BY <4>1, <4>2
            <4> QED BY <4>3
        <3> QED BY <3>1, <3>2
    <2>4. 0 \in T
        BY <1>1
    <2> HIDE DEF T
    <2>5. \A k \in 0..n : k \in T
        BY <1>1, <2>3, <2>4, Climb
    <2> USE DEF T
    <2>6. n \in T
        BY <1>1, <2>5
    <2> QED BY <1>3, <2>2, <2>6
<1> QED
    BY <1>2, <1>3

Token(R) == ({"value"} \X R) \union ({"fire"} \X DOMAIN graph.prog)

\* A running process holds values of R only, and its programs make no other of them.
Within(R) ==
    /\ IsFiniteSet(graph.edges)
    /\ \A o \in DOMAIN graph.prog :
          /\ graph.prog[o].arity \in Nat /\ graph.prog[o].outputs \in Nat
          /\ IsSequence(graph.prog[o].words)
    /\ Made(graph, R) \subseteq R
    /\ values \subseteq R \intersect Value
    /\ stack \in Seq(Token(R))
    /\ Range(filled) \subseteq R
    /\ IsSequence(log) /\ \A i \in DOMAIN log : log[i].outputs \in Seq(R)
    /\ seeded \in Seq(R)

\* The definitions that the dispatcher shares.
LEMMA DispatcherOutcome ==
    ASSUME NEW prog, NEW o, NEW ins, NEW stored
    PROVE  D!Outcome(prog, o, ins, stored) = Outcome(prog, o, ins, stored)
BY DEF D!Outcome, Outcome, D!Evaluated, Evaluated, D!Inlined, Inlined, D!After, After, D!Needs, Needs,
       D!Binary, Binary, D!exists_c, exists_c, D!forall_c, forall_c, D!Coord, Coord, D!Value, Value,
       D!Plane, Plane, D!FlattenSeq, FlattenSeq, D!ToSet, ToSet, D!Front, Front, D!Last, Last

\* The dispatcher counts as this module does.
LEMMA DispatcherCardinality ==
    ASSUME NEW S
    PROVE  D!Cardinality(S) = Cardinality(S)
BY DEF D!Cardinality, Cardinality, D!IsFiniteSet, IsFiniteSet

\* The front and the last of a stack that is not empty.
LEMMA FrontLast ==
    ASSUME NEW S, NEW s \in Seq(S), s # <<>>
    PROVE  D!Front(s) \in Seq(S) /\ D!Last(s) \in S
<1>1. Len(s) \in 1..Len(s) /\ Len(s) - 1 \in 0..Len(s)
    OBVIOUS
<1>2. s[Len(s)] \in S
    BY <1>1
<1>3. SubSeq(s, 1, Len(s) - 1) \in Seq(S)
    <2>1. \A i \in 1..(Len(s) - 1) : s[i] \in S
        OBVIOUS
    <2> QED BY <1>1, <2>1
<1> QED
    BY <1>2, <1>3 DEF D!Front, D!Last

\* A value has finitely many consumers.
LEMMA ConsumersFinite ==
    ASSUME IsFiniteSet(graph.edges), NEW from
    PROVE  IsFiniteSet(D!consumers_of(graph, from))
<1> DEFINE F == {edge \in graph.edges : edge[1] = from}
           C == {e[2] : e \in F}
           h == [e \in F |-> e[2]]
<1>1. IsFiniteSet(F)
    BY FS_Subset
<1>2. h \in Surjection(F, C)
    BY DEF Surjection
<1>3. IsFiniteSet(C)
    BY <1>1, <1>2, FS_Surjection DEF ExistsSurjection
<1> QED
    BY <1>3 DEF D!consumers_of

\* They are all offered that value.
LEMMA OfferOf ==
    ASSUME IsFiniteSet(graph.edges), NEW from, NEW r, NEW v
    PROVE  /\ IsFiniteSet(D!Offer(D!consumers_of(graph, from), r, v))
           /\ \A d \in D!Offer(D!consumers_of(graph, from), r, v) : d.value = v
<1> DEFINE P == D!consumers_of(graph, from)
           h == [p \in P |-> [rank |-> r, to |-> p, value |-> v]]
<1>1. IsFiniteSet(P)
    BY ConsumersFinite
<1>2. h \in Surjection(P, D!Offer(P, r, v))
    BY DEF Surjection, D!Offer
<1>3. \A d \in D!Offer(P, r, v) : d.value = v
    BY DEF D!Offer
<1> HIDE DEF P, h
<1>4. IsFiniteSet(D!Offer(P, r, v))
    BY <1>1, <1>2, FS_Surjection DEF ExistsSurjection
<1> QED
    BY <1>3, <1>4 DEF P

\* The outputs of a firing are offered, and nothing else.
LEMMA OffersOf ==
    ASSUME IsFiniteSet(graph.edges), NEW o, NEW n \in Nat, NEW V, NEW outs \in [1..n -> V]
    PROVE  IsFiniteSet(D!Offers(o, outs)) /\ \A d \in D!Offers(o, outs) : d.value \in V
<1> DEFINE Out(i) == D!Offer(D!consumers_of(graph, <<"out", o, i - 1>>), i, outs[i])
           SS == {Out(i) : i \in 1..n}
           h == [i \in 1..n |-> Out(i)]
<1>1. \A i \in 1..n : IsFiniteSet(Out(i)) /\ \A d \in Out(i) : d.value \in V
    BY OfferOf
<1>2. UNION SS = D!Offers(o, outs)
    BY DEF D!Offers
<1> HIDE DEF Out
<1>3. h \in Surjection(1..n, SS)
    BY DEF Surjection
<1>4. IsFiniteSet(SS)
    <2>1. IsFiniteSet(1..n)
        BY FS_Interval
    <2> QED BY <1>3, <2>1, FS_Surjection DEF ExistsSurjection
<1>5. \A S \in SS : IsFiniteSet(S)
    BY <1>1
<1>6. \A d \in UNION SS : d.value \in V
    BY <1>1
<1> HIDE DEF SS
<1>7. IsFiniteSet(UNION SS)
    BY <1>4, <1>5, FS_UNION
<1> QED
    BY <1>2, <1>6, <1>7

\* A loop of deliveries of values of R.
LEMMA RouteWithin ==
    ASSUME NEW R, NEW D1, IsFiniteSet(D1), \A d \in D1 : d.value \in R,
           NEW f, Range(f) \subseteq R, NEW base \in Seq(Token(R)), D!Route(D1, f, base)
    PROVE  stack' \in Seq(Token(R)) /\ Range(filled') \subseteq R
<1> DEFINE A == D!Accepted(D1, f)
           T == D!Triggers(f, A)
<1>1. A \subseteq D1
    BY DEF D!Accepted
<1>2. T \subseteq A /\ \A d \in T : d.to[1] \in DOMAIN graph.prog
    BY DEF D!Triggers
<1>3. filled' = D!FilledWith(f, A)
    BY DEF D!Route
<1>4. PICK s \in D!SetToSeqs(T) : stack' = base \o [i \in DOMAIN s |-> <<"fire", s[i].to[1]>>]
    BY DEF D!Route
<1>5. IsFiniteSet(T)
    BY <1>1, <1>2, FS_Subset
<1> HIDE DEF T, A
<1>6. Cardinality(T) \in Nat
    BY <1>5, FS_CardinalityType
<1>7. s \in [1..Cardinality(T) -> T]
    BY DispatcherCardinality DEF D!SetToSeqs
<1> DEFINE fires == [i \in DOMAIN s |-> <<"fire", s[i].to[1]>>]
<1>8. fires \in Seq(Token(R))
    <2>1. \A i \in 1..Cardinality(T) : <<"fire", s[i].to[1]>> \in Token(R)
        BY <1>2, <1>7 DEF Token
    <2> QED BY <1>6, <1>7, <2>1
<1>9. stack' \in Seq(Token(R))
    <2> HIDE DEF fires
    <2>1. stack' = base \o fires
        BY <1>4 DEF fires
    <2> QED BY <1>8, <2>1
<1>10. Range(filled') \subseteq R
    <2> DEFINE g == D!FilledWith(f, A)
    <2>1. \A p \in DOMAIN g : g[p] \in R
        <3> SUFFICES ASSUME NEW p \in DOMAIN g
                     PROVE  g[p] \in R
            OBVIOUS
        <3>1. CASE p \in DOMAIN f
            <4>1. g[p] = f[p]
                BY <3>1 DEF D!FilledWith
            <4> QED BY <3>1, <4>1 DEF Range
        <3>2. CASE p \notin DOMAIN f
            <4>1. \E d \in A : d.to = p
                BY <3>2 DEF D!FilledWith
            <4>2. g[p] = (CHOOSE d \in A : d.to = p).value
                BY <3>2, <4>1 DEF D!FilledWith
            <4>3. (CHOOSE d \in A : d.to = p) \in A
                BY <4>1
            <4> QED BY <1>1, <4>2, <4>3
        <3> QED BY <3>1, <3>2
    <2> HIDE DEF g
    <2>2. Range(g) \subseteq R
        BY <2>1 DEF Range
    <2> QED BY <1>3, <2>2 DEF g
<1> QED
    BY <1>9, <1>10

\* What a step of the dispatcher has to keep.
LEMMA WithinAfter ==
    ASSUME NEW R, Within(R), graph' = graph, seeded' = seeded,
           values' \subseteq R \intersect Value, stack' \in Seq(Token(R)), Range(filled') \subseteq R,
           IsSequence(log') /\ \A i \in DOMAIN log' : log'[i].outputs \in Seq(R)
    PROVE  Within(R)'
<1>1. Token(R)' = Token(R) /\ Made(graph, R)' = Made(graph, R)
    BY DEF Token, Made
<1>2. Range(filled)' \subseteq R /\ IsSequence(log)'
    BY DEF Range, IsSequence
<1> QED
    BY <1>1, <1>2 DEF Within

\* The top token of a stack within R carries a value of R, or an operation of
\* the program.
LEMMA TopToken ==
    ASSUME NEW R, Within(R), stack # <<>>
    PROVE  /\ D!Front(stack) \in Seq(Token(R))
           /\ D!Last(stack)[1] = "value" => D!Last(stack)[2] \in R
           /\ D!Last(stack)[1] = "fire" => D!Last(stack)[2] \in DOMAIN graph.prog
<1>1. D!Front(stack) \in Seq(Token(R)) /\ D!Last(stack) \in Token(R)
    BY FrontLast DEF Within
<1> QED
    BY <1>1 DEF Token

\* Clearing the ports brings in no value.
LEMMA ClearedWithin ==
    ASSUME NEW R, Within(R), NEW o
    PROVE  Range(D!Cleared(o)) \subseteq R
BY DEF D!Cleared, Range, Within

\* A firing makes values that the boot can hold.
LEMMA FiredWithin ==
    ASSUME NEW R, Within(R), NEW o \in DOMAIN graph.prog, D!InPorts(graph, o) \subseteq DOMAIN filled,
           NEW outs \in D!Outcome(graph.prog, o, D!Inputs(o), values)
    PROVE  /\ outs \in [1..graph.prog[o].outputs -> Value]
           /\ \A i \in DOMAIN outs : outs[i] \in R
           /\ D!ToSet(outs) \subseteq R \intersect Value
<1> DEFINE ins == D!Inputs(o)
<1>1. graph.prog[o].arity \in Nat
    BY DEF Within
<1>2. ins \in [1..graph.prog[o].arity -> R]
    <2>1. \A i \in 1..graph.prog[o].arity : filled[<<o, i - 1>>] \in R
        <3> SUFFICES ASSUME NEW i \in 1..graph.prog[o].arity
                     PROVE  filled[<<o, i - 1>>] \in R
            OBVIOUS
        <3>1. i - 1 \in 0..graph.prog[o].arity - 1
            BY <1>1
        <3>2. <<o, i - 1>> \in DOMAIN filled
            BY <3>1 DEF D!InPorts
        <3> QED BY <3>2 DEF Range, Within
    <2> QED BY <2>1 DEF D!Inputs
<1>3. outs \in Outcome(graph.prog, o, ins, values)
    BY DispatcherOutcome
<1> HIDE DEF ins
<1>4. outs \in Outcome(graph.prog, o, ins, Value)
    BY <1>3, OutcomeMonotone DEF Within
<1>5. outs \in [1..graph.prog[o].outputs -> Value] /\ ToSet(outs) \subseteq Value
    BY <1>3, OutcomeValues
<1>6. ToSet(outs) \subseteq Made(graph, R)
    BY <1>2, <1>4 DEF Made
<1>7. ToSet(outs) \subseteq R
    BY <1>6 DEF Within
<1> QED
    BY <1>5, <1>7 DEF ToSet, D!ToSet

\* A firing stays within what the program reaches.
LEMMA FireWithin ==
    ASSUME NEW R, Within(R), D!fire
    PROVE  Within(R)'
<1> DEFINE o == D!Last(stack)[2]
<1>1. stack # <<>> /\ D!Last(stack)[1] = "fire"
    BY DEF D!fire, D!FireReached, D!Popped
<1>2. o \in DOMAIN graph.prog /\ D!Front(stack) \in Seq(Token(R))
    BY <1>1, TopToken
<1>3. PICK outs \in D!Outcome(graph.prog, o, D!Inputs(o), values) :
        /\ values' = values \union D!ToSet(outs)
        /\ D!Route(D!Offers(o, outs), D!Cleared(o),
                   D!Front(stack) \o [i \in DOMAIN outs |-> <<"value", outs[i]>>])
        /\ log' = log \/ log' = Append(log, D!Record(o, D!Inputs(o), outs))
    BY DEF D!fire
<1>4. D!InPorts(graph, o) \subseteq DOMAIN filled /\ graph' = graph /\ seeded' = seeded
    BY DEF D!fire
<1> HIDE DEF o
<1>5. /\ outs \in [1..graph.prog[o].outputs -> Value]
      /\ \A i \in DOMAIN outs : outs[i] \in R
      /\ D!ToSet(outs) \subseteq R \intersect Value
    BY <1>2, <1>3, <1>4, FiredWithin
<1>6. PICK n \in Nat : DOMAIN outs = 1..n
    <2>1. graph.prog[o].outputs \in Nat
        BY <1>2 DEF Within
    <2> QED BY <1>5, <2>1
<1>7. outs \in [1..n -> R] /\ outs \in Seq(R)
    <2>1. outs = [i \in 1..n |-> outs[i]] /\ \A i \in 1..n : outs[i] \in R
        BY <1>5, <1>6
    <2>2. outs \in [1..n -> R]
        BY <2>1
    <2> QED BY <2>2
<1> DEFINE tokens == [i \in DOMAIN outs |-> <<"value", outs[i]>>]
<1>8. tokens \in Seq(Token(R))
    <2>1. \A i \in 1..n : <<"value", outs[i]>> \in Token(R)
        BY <1>7 DEF Token
    <2> QED BY <1>6, <2>1
<1> HIDE DEF tokens
<1>9. D!Front(stack) \o tokens \in Seq(Token(R))
    BY <1>2, <1>8
<1>10. IsFiniteSet(D!Offers(o, outs)) /\ \A d \in D!Offers(o, outs) : d.value \in R
    BY <1>7, OffersOf DEF Within
<1>11. stack' \in Seq(Token(R)) /\ Range(filled') \subseteq R
    <2>1. D!Route(D!Offers(o, outs), D!Cleared(o), D!Front(stack) \o tokens)
        BY <1>3 DEF tokens
    <2>2. Range(D!Cleared(o)) \subseteq R
        BY ClearedWithin
    <2> QED BY <1>9, <1>10, <2>1, <2>2, RouteWithin
<1>12. values' \subseteq R \intersect Value
    BY <1>3, <1>5 DEF Within
<1>13. IsSequence(log') /\ \A i \in DOMAIN log' : log'[i].outputs \in Seq(R)
    <2>1. CASE log' = log
        BY <2>1 DEF Within
    <2>2. CASE log' # log
        <3> DEFINE r == [op |-> o, inputs |-> D!Inputs(o), outputs |-> outs]
        <3>1. log' = Append(log, r)
            BY <1>3, <2>2 DEF D!Record
        <3>2. r.outputs \in Seq(R)
            BY <1>7
        <3> HIDE DEF r
        <3>3. IsSequence(log') /\ Len(log) \in Nat
            BY <3>1, AppendSequence DEF Within
        <3>4. PICK S : log \in Seq(S)
            BY DEF Within, IsSequence
        <3>5. /\ DOMAIN Append(log, r) = 1..(Len(log) + 1) /\ DOMAIN log = 1..Len(log)
              /\ Append(log, r)[Len(log) + 1] = r
              /\ \A i \in 1..Len(log) : Append(log, r)[i] = log[i]
            <4> DEFINE U == S \union {r}
            <4>1. log \in Seq(U) /\ r \in U
                BY <3>4
            <4> HIDE DEF U
            <4> QED BY <4>1
        <3>6. \A i \in DOMAIN log : log[i].outputs \in Seq(R)
            BY DEF Within
        <3>7. ASSUME NEW i \in 1..(Len(log) + 1)
              PROVE  Append(log, r)[i].outputs \in Seq(R)
            <4>1. CASE i = Len(log) + 1
                BY <3>2, <3>5, <4>1
            <4>2. CASE i # Len(log) + 1
                <5>1. i \in 1..Len(log)
                    BY <3>3, <4>2
                <5> QED BY <3>5, <3>6, <5>1
            <4> QED BY <4>1, <4>2
        <3> QED BY <3>1, <3>3, <3>5, <3>7
    <2> QED BY <2>1, <2>2
<1> QED
    BY <1>4, <1>11, <1>12, <1>13, WithinAfter

\* Taking a token stays within it.
LEMMA PopWithin ==
    ASSUME NEW R, Within(R), D!Pop
    PROVE  Within(R)'
<1>0. /\ values \subseteq R \intersect Value /\ stack \in Seq(Token(R)) /\ Range(filled) \subseteq R
      /\ IsSequence(log) /\ \A i \in DOMAIN log : log[i].outputs \in Seq(R)
    BY DEF Within
<1>1. CASE D!Drained \/ D!StopAtFire
    <2>1. UNCHANGED <<graph, values, stack, filled, log, seeded>>
        BY <1>1 DEF D!Drained, D!StopAtFire
    <2> QED BY <1>0, <2>1, WithinAfter
<1>2. CASE D!route_value
    <2> DEFINE v == D!Last(stack)[2]
               D1 == D!Offer(D!consumers_of(graph, <<"value", v>>), 0, v)
    <2>1. /\ stack # <<>> /\ D!Last(stack)[1] = "value"
          /\ D!Route(D1, filled, D!Front(stack)) /\ UNCHANGED <<graph, values, log, seeded>>
        BY <1>2 DEF D!route_value, D!Popped
    <2>2. v \in R /\ D!Front(stack) \in Seq(Token(R))
        BY <2>1, TopToken
    <2>3. IsFiniteSet(D1) /\ \A d \in D1 : d.value \in R
        <3> HIDE DEF v
        <3> QED BY <2>2, OfferOf DEF Within
    <2> HIDE DEF D1, v
    <2>4. stack' \in Seq(Token(R)) /\ Range(filled') \subseteq R
        BY <1>0, <2>1, <2>2, <2>3, RouteWithin
    <2> QED BY <1>0, <2>1, <2>4, WithinAfter
<1>3. CASE D!fire
    BY <1>3, FireWithin
<1>4. CASE D!FireStarved \/ D!FireFails
    <2>1. /\ stack # <<>> /\ stack' = D!Front(stack) /\ UNCHANGED <<graph, values, log, seeded>>
          /\ filled' = filled \/ \E o : filled' = D!Cleared(o)
        BY <1>4 DEF D!FireStarved, D!FireFails, D!FireReached, D!Popped
    <2>2. stack' \in Seq(Token(R))
        BY <2>1, TopToken
    <2>3. Range(filled') \subseteq R
        BY <1>0, <2>1, ClearedWithin
    <2> QED BY <1>0, <2>1, <2>2, <2>3, WithinAfter
<1> QED
    BY <1>1, <1>2, <1>3, <1>4 DEF D!Pop

\* What a boot can hold bounds what its processes hold and what they leave on file.
BlobOwn == \A b \in DOMAIN blobs : blobs[b] \in {b, None}

HoldsOwn ==
    /\ BlobOwn
    /\ phase \in {"idle", "put_boot", "set_latest", "load"} => filled = <<>> /\ log = <<>>
    /\ phase \in {"dispatch", "commit", "save_state"} => Within(Reachable[boot])
    /\ state # <<>> => state[2] \in Seq(Reachable[state[1]])

\* A blob filed under its own name, whole or cut, is its own.
LEMMA InsertedOwn ==
    ASSUME BlobOwn, NEW n, NEW v \in {n, None}, blobs' = Inserted(blobs, n, v)
    PROVE  BlobOwn'
BY DEF BlobOwn, Inserted

\* Every step keeps it so.
LEMMA NextOwn ==
    ASSUME BootType, BlobOwn, [Next]_vars
    PROVE  BlobOwn'
<1>1. CASE put_boot
    <2>1. blobs' = Inserted(blobs, arg, arg)
        BY <1>1 DEF put_boot
    <2> QED BY <2>1, InsertedOwn
<1>2. CASE Crash
    <2>1. blobs' = blobs \/ blobs' = Inserted(blobs, arg, <<>>)
        BY <1>2 DEF Crash, DiesWriting
    <2> QED BY <2>1, InsertedOwn DEF BlobOwn, None
<1>3. CASE ~put_boot /\ ~Crash
    <2>1. blobs' = blobs
        BY <1>3 DEF Next, vars, files, BootFile, BootCid, BootLatest, Starts, set_latest, Load,
            LoadFails, Dispatch, DispatchDone, BootFails, commit_record, Committed, save_state,
            log_boot, newline, rollback, rollback_previous, Points
    <2> QED BY <2>1 DEF BlobOwn
<1> QED
    BY <1>1, <1>2, <1>3

\* A boot starts from values of its own.
LEMMA LoadWithin ==
    ASSUME IsFiniteSet(Value), BootType, HoldsOwn, NEW n, Load(n)
    PROVE  Within(Reachable[boot])'
<1>1. PICK b \in latest_cid : \E p \in compile_boot(blobs[b]) :
        /\ boot' = b /\ graph' = GraphOf(p) /\ values' = p.literals
        /\ seeded' = seed_stack(b, p)
        /\ stack' = [i \in DOMAIN seeded' |-> <<"value", seeded'[i]>>]
    BY DEF Load
<1>2. PICK p \in compile_boot(blobs[b]) :
        /\ boot' = b /\ graph' = GraphOf(p) /\ values' = p.literals
        /\ seeded' = seed_stack(b, p)
        /\ stack' = [i \in DOMAIN seeded' |-> <<"value", seeded'[i]>>]
    BY <1>1
<1>3. b \in Scripts /\ blobs[b] \in {b, None} /\ Len(b) \in Nat
    <2>1. b \in Scripts /\ blobs[b] \in {b, None}
        BY LatestStored DEF HoldsOwn, BlobOwn
    <2> QED BY <2>1, PieceLines DEF Piece
<1>4. UNCHANGED <<filled, log>> /\ filled = <<>> /\ log = <<>>
    BY DEF Load, HoldsOwn
<1>5. Typed(p)
    BY <1>2, <1>3, CompileTyped DEF Piece
<1>6. PICK R : R = Reachable[b]
    OBVIOUS
<1>7. Own(p) \subseteq R /\ Made(p, R) \subseteq R
    <2>1. CASE blobs[b] = b
        <3>1. p = Compiled(b) /\ Compiles(b)
            BY <1>2, <1>3, <2>1, CompiledOnly DEF Compiles
        <3>2. R = Reach(p)
            BY <1>3, <1>6, <3>1 DEF Reachable
        <3> QED BY <3>2, ReachClosed
    <2>2. CASE blobs[b] = <<>>
        <3>1. p = EmptyProgram
            <4>1. Len(<<>>) = 0
                OBVIOUS
            <4>2. PICK g : Readings(g, <<>>)
                BY <4>1, CompileReads
            <4> QED BY <1>2, <2>2, <4>1, <4>2 DEF Readings
        <3>2. DOMAIN <<>> = {}
            OBVIOUS
        <3>3. Own(p) = {} /\ Made(p, R) = {}
            BY <3>1, <3>2 DEF EmptyProgram, Own, Made, ToSet
        <3> QED BY <3>3
    <2> QED BY <1>3, <2>1, <2>2 DEF None
<1>8. seeded' \in Seq(R)
    <2>1. CASE Resumes(b)
        <3>1. seeded' = state[2] /\ state # <<>> /\ state[1] = b
            BY <1>2, <2>1 DEF seed_stack, Resumes
        <3> QED BY <1>6, <3>1 DEF HoldsOwn
    <2>2. CASE ~Resumes(b)
        <3>1. seeded' = p.stack
            BY <1>2, <2>2 DEF seed_stack
        <3>2. PICK S : p.stack \in Seq(S)
            BY <1>5 DEF Typed, IsSequence
        <3>3. \A i \in DOMAIN p.stack : p.stack[i] \in R
            BY <1>7 DEF Own, ToSet
        <3>4. p.stack \in Seq(R)
            BY <3>2, <3>3
        <3> QED BY <3>1, <3>4
    <2> QED BY <2>1, <2>2
<1>9. stack' \in Seq(Token(R)')
    <2> DEFINE T == Token(R)'
    <2>1. \A v \in R : <<"value", v>> \in T
        BY DEF Token
    <2> HIDE DEF T
    <2>2. [i \in DOMAIN seeded' |-> <<"value", seeded'[i]>>] \in Seq(T)
        BY <1>8, <2>1
    <2> QED BY <1>2, <2>2 DEF T
<1>10. Made(graph, R)' \subseteq R
    <2>1. graph'.prog = p.prog
        BY <1>2 DEF GraphOf
    <2>2. Made(graph, R)' = Made(p, R)
        BY <2>1 DEF Made
    <2> QED BY <1>7, <2>2
<1>11. /\ IsFiniteSet(graph.edges)'
       /\ (\A o \in DOMAIN graph.prog : /\ graph.prog[o].arity \in Nat /\ graph.prog[o].outputs \in Nat
                                        /\ IsSequence(graph.prog[o].words))'
    <2>1. graph'.prog = p.prog /\ graph'.edges = p.edges
        BY <1>2 DEF GraphOf
    <2> QED BY <1>5, <2>1 DEF Typed, IsSequence
<1>12. values' \subseteq R \intersect Value
    BY <1>2, <1>5, <1>7 DEF Typed, Own
<1>13. /\ Range(filled)' \subseteq R /\ IsSequence(log)'
       /\ \A i \in DOMAIN log' : log'[i].outputs \in Seq(R)
    <2>1. DOMAIN <<>> = {} /\ <<>> \in Seq({})
        OBVIOUS
    <2> QED BY <1>4, <2>1 DEF Range, IsSequence
<1>14. Within(R)'
    BY <1>8, <1>9, <1>10, <1>11, <1>12, <1>13 DEF Within
<1>15. R = Reachable[boot']
    BY <1>2, <1>6
<1> QED
    BY <1>14, <1>15

\* The stack that a run leaves is within what the program reaches.
LEMMA NewStackWithin ==
    ASSUME NEW R, Within(R)
    PROVE  new_stack \in Seq(R)
<1> DEFINE outs == [i \in DOMAIN log |-> log[i].outputs]
<1>1. PICK S : log \in Seq(S)
    BY DEF Within, IsSequence
<1>2. \A i \in DOMAIN log : log[i].outputs \in Seq(R)
    BY DEF Within
<1>3. outs \in Seq(Seq(R))
    BY <1>1, <1>2
<1> HIDE DEF outs
<1>4. FlattenSeq(outs) \in Seq(R)
    BY <1>3, FlattenOver
<1> QED
    BY <1>4 DEF new_stack, produced_values, outs, Within

\* Every step keeps the run within what its boot reaches.
LEMMA NextHolds ==
    ASSUME IsFiniteSet(Value), BootType, HoldsOwn, [Next]_vars
    PROVE  HoldsOwn'
<1>0. BlobOwn'
    BY NextOwn DEF HoldsOwn
<1>1. (state' = state \/ state' = <<>>) => (state # <<>> => state[2] \in Seq(Reachable[state[1]]))'
    BY DEF HoldsOwn
<1>2. CASE Stopped
    <2>1. /\ phase' = "idle" /\ filled' = <<>> /\ log' = <<>>
        BY <1>2 DEF Stopped
    <2>2. state' = state \/ state' = <<>>
        BY <1>2 DEF Next, vars, files, BootFile, BootCid, BootLatest, Starts, put_boot, set_latest,
            Load, LoadFails, Dispatch, DispatchDone, BootFails, commit_record, Committed, save_state,
            log_boot, newline, rollback, rollback_previous, Points, Crash, DiesWriting, Stopped
    <2> QED BY <1>0, <1>1, <2>1, <2>2 DEF HoldsOwn
<1>3. ASSUME NEW n, Load(n)
      PROVE  HoldsOwn'
    <2>1. Within(Reachable[boot])'
        BY <1>3, LoadWithin
    <2>2. phase' = "dispatch" /\ state' = state
        BY <1>3 DEF Load, files
    <2> QED BY <1>0, <1>1, <2>1, <2>2 DEF HoldsOwn
<1>4. CASE Dispatch
    <2>1. phase = "dispatch" /\ UNCHANGED <<phase, state, boot>> /\ D!Pop
        BY <1>4 DEF Dispatch, files, local
    <2>2. PICK R : R = Reachable[boot]
        OBVIOUS
    <2>3. Within(R)
        BY <2>1, <2>2 DEF HoldsOwn
    <2>4. Within(R)'
        BY <2>1, <2>3, PopWithin
    <2>5. R = Reachable[boot']
        BY <2>1, <2>2
    <2>6. Within(Reachable[boot])'
        BY <2>4, <2>5
    <2> QED BY <1>0, <1>1, <2>1, <2>6 DEF HoldsOwn
<1>5. CASE DispatchDone \/ commit_record \/ Committed
    <2>1. /\ UNCHANGED <<dispatcher, boot, state>> /\ phase \in {"dispatch", "commit"}
          /\ phase' \in {"commit", "save_state"}
        BY <1>5 DEF DispatchDone, commit_record, Committed, files
    <2>2. PICK R : R = Reachable[boot]
        OBVIOUS
    <2>3. Within(R)
        BY <2>1, <2>2 DEF HoldsOwn
    <2>4. Within(R)'
        BY <2>1, <2>3, WithinAfter DEF Within, dispatcher
    <2>5. R = Reachable[boot']
        BY <2>1, <2>2
    <2>6. Within(Reachable[boot])'
        BY <2>4, <2>5
    <2> QED BY <1>0, <1>1, <2>1, <2>6 DEF HoldsOwn
<1>6. CASE save_state
    <2>1. phase = "save_state" /\ state' = <<boot, new_stack>> /\ phase' = "log_boot"
        BY <1>6 DEF save_state
    <2>2. PICK R : R = Reachable[boot]
        OBVIOUS
    <2>3. new_stack \in Seq(R)
        BY <2>1, <2>2, NewStackWithin DEF HoldsOwn
    <2>4. state'[1] = boot /\ state'[2] = new_stack
        BY <2>1
    <2>5. (state # <<>> => state[2] \in Seq(Reachable[state[1]]))'
        BY <2>2, <2>3, <2>4
    <2> QED BY <1>0, <2>1, <2>5 DEF HoldsOwn
<1>7. CASE log_boot
    <2>1. state' = state /\ phase' = "newline"
        BY <1>7 DEF log_boot
    <2> QED BY <1>0, <1>1, <2>1 DEF HoldsOwn
<1>8. CASE put_boot \/ set_latest
    <2>1. /\ UNCHANGED <<state, filled, log>> /\ phase \in {"put_boot", "set_latest"}
          /\ phase' \in {"set_latest", "load"}
        BY <1>8 DEF put_boot, set_latest, files, dispatcher
    <2> QED BY <1>0, <1>1, <2>1 DEF HoldsOwn
<1>10. ASSUME NEW b, NEW r, NEW first \in {"put_boot", "set_latest", "load"}, Starts(first, b, r)
       PROVE  HoldsOwn'
    <2>1. /\ UNCHANGED <<state, filled, log>> /\ phase = "idle"
          /\ phase' \in {"put_boot", "set_latest", "load"}
        BY <1>10 DEF Starts, files, dispatcher
    <2> QED BY <1>0, <1>1, <2>1 DEF HoldsOwn
<1>11. ASSUME UNCHANGED <<dispatcher, boot, state, phase>>
       PROVE  HoldsOwn'
    <2>2. Within(Reachable[boot])' = Within(Reachable[boot])
        BY <1>11 DEF Within, dispatcher, Token, Made, Range, IsSequence
    <2> QED BY <1>0, <1>1, <1>11, <2>2 DEF HoldsOwn, dispatcher
<1>12. CASE UNCHANGED vars
    <2>1. UNCHANGED <<dispatcher, boot, state, phase>>
        BY <1>12 DEF vars, local, files
    <2> QED BY <1>11, <2>1
<1>13. ASSUME NEW b, Points(b)
       PROVE  HoldsOwn'
    <2>1. UNCHANGED <<dispatcher, boot, state, phase>>
        BY <1>13 DEF Points, local
    <2> QED BY <1>11, <2>1
<1>14. CASE LoadFails \/ BootFails \/ newline \/ Crash
    BY <1>2, <1>14 DEF LoadFails, BootFails, newline, Crash
<1>15. CASE \E b \in Scripts, r \in BOOLEAN : BootFile(b, r) \/ BootCid(b, r)
    BY <1>10, <1>15 DEF BootFile, BootCid
<1>16. CASE \E r \in BOOLEAN : BootLatest(r)
    BY <1>10, <1>16 DEF BootLatest
<1>17. CASE (\E b \in Scripts : rollback(b)) \/ rollback_previous
    BY <1>13, <1>17 DEF rollback, rollback_previous
<1> QED
    BY <1>3, <1>4, <1>5, <1>6, <1>7, <1>8, <1>12, <1>14, <1>15, <1>16, <1>17 DEF Next

\* No run at the start.
LEMMA InitHolds == Init => HoldsOwn
<1> SUFFICES ASSUME Init
             PROVE  HoldsOwn
    OBVIOUS
<1>1. BlobOwn
    <2>1. DOMAIN <<>> = {}
        OBVIOUS
    <2>2. CASE DefaultFile = None
        BY <2>1, <2>2 DEF Init, BlobOwn
    <2>3. CASE DefaultFile # None
        BY <2>1, <2>3 DEF Init, BlobOwn, Inserted
    <2> QED BY <2>2, <2>3
<1> QED
    BY <1>1 DEF Init, HoldsOwn

\* The persisted stack belongs to the boot it is filed under: only values that
\* the boot's own programs can make of its own values (main.rs boot, boot.rs
\* save_state), through changes of the boot file, rollbacks, failing boots
\* and crashes, over every finite plane.
THEOREM BootStateBelongs ==
    ASSUME IsFiniteSet(Regs), IsFiniteSet(Tzs)
    PROVE  Spec => []StateBelongs
<1>0. IsFiniteSet(Value)
    BY FS_Product, FS_SUBSET DEF Value, Plane
<1>1. Init => BootType /\ HoldsOwn
    BY InitBootType, InitHolds
<1>2. BootType /\ HoldsOwn /\ [Next]_vars => (BootType /\ HoldsOwn)'
    BY <1>0, NextBootType, NextHolds
<1>3. HoldsOwn => StateBelongs
    BY DEF HoldsOwn, StateBelongs, ToSet
<1> QED
    BY <1>1, <1>2, <1>3, PTL DEF Spec

=============================================================================
