--------------------------- MODULE ExtendedCache ----------------------------
(* The extended cache (crates/ewm-cache): one directory of content-addressed *)
(* objects, tables that are rewritten by name and a manifest that seals      *)
(* their hashes.  Workers share the directory; each has an Ingest of         *)
(* hllset-morphisms in memory.  A file is read in one step and written in    *)
(* two, as fs::write truncates it first; what a worker holds between two     *)
(* steps may be stale.  A hash is the content it names.                      *)
EXTENDS TokenLut, SequencesExt

CONSTANTS Workers,     \* handles on the directory, in one process or several
          Tokens,
          Seeds,       \* the encodings, which are the channels too
          Pos(_, _),   \* the bit of a token under a seed
          MaxTokens,   \* bound: tokens one worker ingests
          MaxCalls,    \* bound: calls of the cache's methods
          MaxCrashes   \* bound: workers that die

ASSUME CacheBounds == {MaxTokens, MaxCalls, MaxCrashes} \subseteq Nat

\* A token is a number: its place in the order of byte strings, which sorts rows.
ASSUME CacheNumbers ==
    /\ IsFiniteSet(Seeds) /\ Tokens \subseteq Nat
    /\ \A s \in Seeds, t \in Tokens : Pos(s, t) \in Nat

VARIABLES
    disk,      \* path -> [whole, data]; an absent path is not in its domain
    ing,       \* worker -> its Ingest: sketches, LUTs and TF
    reg,       \* worker -> its HllsetLut: <<name, key>> -> touch count
    man,       \* worker -> the manifest it builds or has opened
    call,      \* worker -> the call in progress
    answer,    \* worker -> what the last call returned
    merged,    \* history: rows <<seed, bit, token>> that merge_lut answered Ok for
    raced,     \* history: a table was written over a change its writer had not read
    calls, crashes

disk_vars == <<disk, merged, raced, crashes>>
vars == <<disk, ing, reg, man, call, answer, merged, raced, calls, crashes>>

-----------------------------------------------------------------------------
(* Ingest and HllsetLut (hllset-morphisms/src/ingest.rs, hllset_lut.rs).     *)

\* A map in which k is now bound to v.
Insert(f, k, v) == [x \in DOMAIN f \cup {k} |-> IF x = k THEN v ELSE f[x]]

NewIngest == [hllsets |-> [s \in Seeds |-> {}], luts |-> [s \in Seeds |-> {}],
              tf |-> [t \in Tokens |-> 0], touched |-> 0]

ingest_token(I, t) ==
    [hllsets |-> [s \in Seeds |-> I.hllsets[s] \cup {Pos(s, t)}],
     luts    |-> [s \in Seeds |-> insert_token_at(I.luts[s], t, Pos(s, t))],
     tf      |-> [I.tf EXCEPT ![t] = @ + 1],
     touched |-> I.touched + 1]

Projection(I) == UNION {I.hllsets[s] : s \in Seeds}

touch_named(R, name, key) ==
    LET old == IF <<name, key>> \in DOMAIN R THEN R[<<name, key>>] ELSE 0
    IN  Insert(R, <<name, key>>, old + 1)

\* The rows of a registry, which a batch sorts.
ranked(R) == {<<e[1], e[2], R[e]>> : e \in DOMAIN R}

-----------------------------------------------------------------------------
(* Batches (schema.rs): rows in a canonical order, so that equal tables have *)
(* equal bytes.                                                              *)

RowBefore(r, q) == r[1] < q[1] \/ (r[1] = q[1] /\ r[2] < q[2])

lut_batch(batch) ==
    LET order == CHOOSE p \in [DOMAIN batch -> DOMAIN batch] :
            /\ IsInjective(p)
            /\ \A i, j \in DOMAIN batch : i < j => ~RowBefore(batch[p[j]], batch[p[i]])
    IN  [i \in DOMAIN batch |-> batch[order[i]]]

lut_rows(batch) == batch

hllset_lut_batch(rows) == SetToSeq(rows)

sparse_slice_batch(bits) == SetToSortSeq(bits, <)

lut_name(s) == <<"ns", s>>
Registry == <<"hllset_lut", 0>>
Slice == <<"slice", 0>>

\* Manifest::rows, to_ipc and from_ipc.
NoManifest == [objects |-> <<>>, tables |-> <<>>]

rows(m) == {<<"object", n, m.objects[n]>> : n \in DOMAIN m.objects}
           \cup {<<"table", n, m.tables[n]>> : n \in DOMAIN m.tables}

Column(R, kind) ==
    [n \in {r[2] : r \in {q \in R : q[1] = kind}} |->
        (CHOOSE r \in R : r[1] = kind /\ r[2] = n)[3]]

from_rows(R) == [objects |-> Column(R, "object"), tables |-> Column(R, "table")]

\* Entries in the order the code goes through them: objects, then tables.
Entries(m) ==
    SetToSeq({<<"object", n>> : n \in DOMAIN m.objects})
    \o SetToSeq({<<"table", n>> : n \in DOMAIN m.tables})

Expected(m, e) == IF e[1] = "object" THEN m.objects[e[2]] ELSE m.tables[e[2]]

\* An object's path is its hash, a table's its name.
PathOf(m, e) == IF e[1] = "object" THEN <<"object", m.objects[e[2]]>> ELSE e

Paths(m) == {PathOf(m, e) : e \in Range(Entries(m))}

ManifestPath == <<"manifest", <<>>>>

Exists(p) == p \in DOMAIN disk
Whole(p) == Exists(p) /\ disk[p].whole
Holds(p, d) == Whole(p) /\ disk[p].data = d

-----------------------------------------------------------------------------
Idle == [op |-> "idle"]
NoAnswer == [res |-> "none"]

Init ==
    /\ disk = <<>>
    /\ ing = [w \in Workers |-> NewIngest]
    /\ reg = [w \in Workers |-> <<>>]
    /\ man = [w \in Workers |-> NoManifest]
    /\ call = [w \in Workers |-> Idle]
    /\ answer = [w \in Workers |-> NoAnswer]
    /\ merged = {} /\ raced = FALSE
    /\ calls = 0 /\ crashes = 0

\* Those who use the cache have ingested something or opened a manifest.
Enter(w) ==
    /\ call[w] = Idle
    /\ ing[w].touched > 0 \/ man[w] # NoManifest
    /\ calls < MaxCalls
    /\ calls' = calls + 1

Return(w, r) ==
    /\ call' = [call EXCEPT ![w] = Idle]
    /\ answer' = [answer EXCEPT ![w] = [res |-> r]]

Ingest(w, t) ==
    /\ call[w] = Idle
    /\ ing[w].touched < MaxTokens
    /\ ing' = [ing EXCEPT ![w] = ingest_token(@, t)]
    /\ UNCHANGED <<disk_vars, reg, man, call, answer, calls>>

-----------------------------------------------------------------------------
(* Writers.  A call computes what it writes, then fs::write truncates the    *)
(* file and fills it.                                                        *)

Writes(w, path, data, entry, base) ==
    /\ Enter(w)
    /\ call' = [call EXCEPT ![w] = [op |-> "write", path |-> path, data |-> data, cut |-> FALSE,
                                    entry |-> entry, base |-> base]]
    /\ UNCHANGED <<disk_vars, ing, man, answer>>

put_hllset(w, s) ==
    /\ Writes(w, <<"object", <<"hllset", ing[w].hllsets[s]>>>>, ing[w].hllsets[s],
              <<"object", <<"G", s>>>>, {})
    /\ reg' = [reg EXCEPT ![w] = touch_named(@, s, ing[w].hllsets[s])]

put_tfvec(w) ==
    /\ Writes(w, <<"object", <<"tfvec", ing[w].tf>>>>, ing[w].tf, <<"object", <<"tf_vec", 0>>>>, {})
    /\ UNCHANGED reg

\* write_table of the batches a worker makes from what it has in memory.
write_table(w) ==
    /\ \/ Writes(w, <<"table", Registry>>, hllset_lut_batch(ranked(reg[w])),
                 <<"table", Registry>>, {})
       \/ Writes(w, <<"table", Slice>>, sparse_slice_batch(Projection(ing[w])),
                 <<"table", Slice>>, {})
    /\ UNCHANGED reg

\* What read_table finds: no file is no rows.
read_table(p) == IF Exists(p) THEN disk[p].data ELSE <<>>

\* Mutation of NewRows: the rows are appended, not joined as sets.
AllRows(w, s) == SetToSeq(ing[w].luts[s])

\* Rows of the index that the table does not have yet.
NewRows(w, s) == SetToSeq(ing[w].luts[s] \ ToSet(lut_rows(read_table(<<"table", lut_name(s)>>))))

\* Mutation of merge_lut: the table is written without being read.
merge_lut_over(w, s) ==
    LET p == <<"table", lut_name(s)>>
    IN  /\ Exists(p) => Whole(p)
        /\ Writes(w, p, lut_batch(SetToSeq(ing[w].luts[s])), p, ToSet(read_table(p)))
        /\ UNCHANGED reg

\* merge_lut reads the table, adds the rows of the index and writes all back.
merge_lut(w, s) ==
    LET p == <<"table", lut_name(s)>>
    IN  /\ Exists(p) => Whole(p)
        /\ Writes(w, p, lut_batch(lut_rows(read_table(p)) \o NewRows(w, s)), p, ToSet(read_table(p)))
        /\ UNCHANGED reg

\* A table that cannot be parsed is an error, now and at every later merge.
merge_lut_fails(w, s) ==
    /\ Exists(<<"table", lut_name(s)>>) /\ ~Whole(<<"table", lut_name(s)>>)
    /\ Enter(w)
    /\ Return(w, "arrow")
    /\ UNCHANGED <<disk_vars, ing, reg, man>>

seal(w) ==
    /\ Writes(w, ManifestPath, rows(man[w]), ManifestPath, {})
    /\ UNCHANGED reg

IsLut(path) == path[1] = "table" /\ path[2][1] = "ns"
Unread(c) ==
    IsLut(c.path) /\ ((Exists(c.path) /\ ~Whole(c.path)) \/ c.base # ToSet(read_table(c.path)))

\* Two writers of one file at a time.
Overlaps(w) == \E v \in Workers \ {w} :
    call[v].op = "write" /\ call[v].cut /\ call[v].path = call[w].path

\* A snapshot that another worker takes while a file of it changes.
Disturbed(w, p) ==
    [v \in Workers |->
        IF v # w /\ call[v].op = "snapshot" /\ p \in Paths(call[v].man)
        THEN [call[v] EXCEPT !.calm = FALSE] ELSE call[v]]

Truncate(w) ==
    LET c == call[w] IN
    /\ c.op = "write" /\ ~c.cut
    /\ disk' = Insert(disk, c.path, [whole |-> FALSE, data |-> <<>>])
    /\ raced' = (raced \/ Overlaps(w) \/ Unread(c))
    /\ call' = [Disturbed(w, c.path) EXCEPT ![w].cut = TRUE]
    /\ UNCHANGED <<ing, reg, man, answer, merged, calls, crashes>>

\* The entry of the manifest that a call has written.
Listed(m, c) ==
    CASE c.entry[1] = "object" -> [m EXCEPT !.objects = Insert(@, c.entry[2], c.path[2])]
      [] c.entry[1] = "table"  -> [m EXCEPT !.tables = Insert(@, c.entry[2], c.data)]
      [] OTHER -> m

\* The bytes arrive.  Of two overlapping writers the later may leave a tail of the
\* earlier behind, which makes the file unreadable.
Fill(w) ==
    LET c == call[w] IN
    /\ c.op = "write" /\ c.cut
    /\ \E whole \in {TRUE} \cup (IF disk[c.path].whole THEN {FALSE} ELSE {}) :
          disk' = [disk EXCEPT ![c.path] = [whole |-> whole, data |-> IF whole THEN c.data ELSE <<>>]]
    /\ merged' = merged \cup IF IsLut(c.path) THEN {<<c.path[2][2], r[1], r[2]>> : r \in ing[w].luts[c.path[2][2]]} ELSE {}
    /\ man' = [man EXCEPT ![w] = Listed(@, c)]
    /\ raced' = (raced \/ Overlaps(w))
    /\ call' = [Disturbed(w, c.path) EXCEPT ![w] = Idle]
    /\ answer' = [answer EXCEPT ![w] = [res |-> "ok"]]
    /\ UNCHANGED <<ing, reg, calls, crashes>>

-----------------------------------------------------------------------------
(* Readers.                                                                  *)

open_manifest(w) ==
    /\ call[w] = Idle
    /\ calls < MaxCalls /\ calls' = calls + 1
    /\ Exists(ManifestPath)
    /\ IF Whole(ManifestPath)
       THEN man' = [man EXCEPT ![w] = from_rows(disk[ManifestPath].data)] /\ Return(w, "ok")
       ELSE UNCHANGED man /\ Return(w, "arrow")
    /\ UNCHANGED <<disk_vars, ing, reg>>

\* Somebody is writing a file of the manifest.
Busy(m) == \E v \in Workers : call[v].op = "write" /\ call[v].cut /\ call[v].path \in Paths(m)

\* snapshot: validate goes through every entry, then every file is read again.
snapshot(w) ==
    /\ Enter(w)
    /\ man[w] # NoManifest
    /\ call' = [call EXCEPT ![w] = [op |-> "snapshot", man |-> man[w], at |-> 1, pass |-> "validate",
                                    got |-> <<>>, calm |-> ~Busy(man[w])]]
    /\ UNCHANGED <<disk_vars, ing, reg, man, answer>>

\* Mutation of Validated: only what has a hash for a name is compared.
ValidatedObjects(m, e) == e[1] = "table" \/ Holds(PathOf(m, e), Expected(m, e)[2])

Validated(m, e) ==
    Holds(PathOf(m, e), IF e[1] = "object" THEN Expected(m, e)[2] ELSE Expected(m, e))

\* validate, one entry: read the file, compare its hash.
ValidateOne(w) ==
    LET c == call[w]
        es == Entries(c.man)
        e == es[c.at]
    IN  /\ c.op = "snapshot" /\ c.pass = "validate"
        /\ IF Validated(c.man, e)
           THEN /\ call' = [call EXCEPT ![w].at = IF c.at = Len(es) THEN 1 ELSE c.at + 1,
                                        ![w].pass = IF c.at = Len(es) THEN "read" ELSE "validate"]
                /\ UNCHANGED answer
           ELSE /\ call' = [call EXCEPT ![w] = Idle]
                /\ answer' = [answer EXCEPT ![w] =
                     [res |-> "invalid", path |-> PathOf(c.man, e), expected |-> Expected(c.man, e), calm |-> c.calm]]
        /\ UNCHANGED <<disk_vars, ing, reg, man, calls>>

\* A tf vector is cut into eight bytes wherever its file ends, and whatever is left
\* of it is returned; a sketch or a table must parse.
Parses(p) == Whole(p) \/ (Exists(p) /\ p[1] = "object" /\ p[2][1] = "tfvec")

\* The second pass: get_hllset, get_tfvec, read_table.
ReadOne(w) ==
    LET c == call[w]
        es == Entries(c.man)
        e == es[c.at]
        p == PathOf(c.man, e)
        got == Insert(c.got, e, IF Exists(p) THEN disk[p] ELSE <<>>)
    IN  /\ c.op = "snapshot" /\ c.pass = "read"
        /\ IF ~Parses(p) THEN Return(w, "missing")
           ELSE IF c.at < Len(es)
           THEN call' = [call EXCEPT ![w].at = @ + 1, ![w].got = got] /\ UNCHANGED answer
           ELSE /\ call' = [call EXCEPT ![w] = Idle]
                /\ answer' = [answer EXCEPT ![w] = [res |-> "snapshot", man |-> c.man, got |-> got, calm |-> c.calm]]
        /\ UNCHANGED <<disk_vars, ing, reg, man, calls>>

\* A worker dies with all it has in memory; the file it was writing stays as it is.
Crash(w) ==
    /\ crashes < MaxCrashes
    /\ call[w] # Idle
    /\ crashes' = crashes + 1
    /\ ing' = [ing EXCEPT ![w] = NewIngest]
    /\ reg' = [reg EXCEPT ![w] = <<>>]
    /\ man' = [man EXCEPT ![w] = NoManifest]
    /\ Return(w, "none")
    /\ UNCHANGED <<disk, merged, raced, calls>>

Next == \E w \in Workers :
    \/ \E t \in Tokens : Ingest(w, t)
    \/ \E s \in Seeds : put_hllset(w, s) \/ merge_lut(w, s) \/ merge_lut_fails(w, s)
    \/ put_tfvec(w) \/ write_table(w) \/ seal(w)
    \/ Truncate(w) \/ Fill(w)
    \/ open_manifest(w) \/ snapshot(w) \/ ValidateOne(w) \/ ReadOne(w)
    \/ Crash(w)

Spec == Init /\ [][Next]_vars

-----------------------------------------------------------------------------
(* Materialization from the shared tables, without a live Ingest.            *)

materialize_lut(H, name) == candidates(ToSet(lut_rows(read_table(<<"table", name>>))), H)

\* Every token that a merge was answered Ok for comes back from the shared table, for
\* whoever asks, unless writers of that table overlapped: also after crashes of those
\* who merged it, and with one token under the bit of another (merge_lut,
\* materialize_lut).  Only a crash or a write in progress leaves a table unreadable.
RestoresMerged ==
    ~raced =>
        \A r \in merged :
            LET p == <<"table", lut_name(r[1])>>
                busy == \E w \in Workers : call[w].op = "write" /\ call[w].path = p /\ call[w].cut
            IN  /\ Whole(p) => r[3] \in materialize_lut({r[2]}, lut_name(r[1]))
                /\ ~Whole(p) => busy \/ crashes > 0

\* A sealed table stays valid until it gains rows: merging what it has already, in
\* whatever order and by whomever, keeps its hash (seal and validate against merge_lut).
SealedUntilGrown ==
    ~raced /\ crashes = 0 =>
        \A w \in Workers :
            /\ answer[w].res = "invalid" /\ IsLut(answer[w].path) /\ answer[w].calm
            /\ Whole(answer[w].path)
            => ToSet(answer[w].expected) # ToSet(disk[answer[w].path].data)

\* A snapshot that is answered Ok is the one that was sealed, file by file, unless
\* somebody wrote one of its files between the first file validated and the last file
\* read (snapshot reads every file twice).
SnapshotIsSealed ==
    \A w \in Workers :
        answer[w].res = "snapshot" /\ answer[w].calm =>
            \A e \in DOMAIN answer[w].got :
                /\ answer[w].got[e].whole
                /\ answer[w].got[e].data =
                      IF e[1] = "object" THEN answer[w].man.objects[e[2]][2]
                      ELSE answer[w].man.tables[e[2]]
=============================================================================
