---------------------------- MODULE SnapshotStore ----------------------------
(***************************************************************************)
(* A snapshot root and the processes that use it: builders running         *)
(* market_data.pipeline.run, and consumers running SnapshotReader or       *)
(* verify_snapshot.  A build writes the trade, quote and bar files at      *)
(* their final paths, one after the other, and manifest.json last.  There  *)
(* is no lock, no temporary file, no rename and no transaction, so every   *)
(* file operation below is a step of its own.                              *)
(*                                                                         *)
(* A table stands for the logical content of a file and therefore for its  *)
(* content_sha256; the bytes of a file are a table in the encoding of one  *)
(* parquet writer version and stand for its file_sha256.                   *)
(***************************************************************************)
EXTENDS Naturals, FiniteSets

CONSTANTS Builders, Readers,
          Inputs,           \* a raw partition, its reference data and context
          Tables,           \* the contents a contract file can have
          Encodings,        \* parquet writer versions
          Dates,            \* session dates
          Rejected,         \* tables the writer refuses or no build can produce
          Date(_),          \* the session date of an input
          Normalized(_, _), \* the trade or quote table of an input
          BarsOf(_, _),     \* the bar table made of a trade table for an input
          Rows(_),          \* the number of rows of a table
          Absent, Partial, Mixed,   \* no file; truncated; interleaved writes
          MaxBuilds, MaxCrashes, MaxDamage   \* bounds of the exploration

Kinds == {"trade", "quote", "bar"}
Path == Kinds \X Dates
PathOf(k, i) == <<k, Date(i)>>

ASSUME BoundsAreNat == MaxBuilds \in Nat /\ MaxCrashes \in Nat /\ MaxDamage \in Nat
ASSUME TablesOfInputs ==
    \A i \in Inputs :
        /\ Date(i) \in Dates
        /\ \A k \in Kinds : Normalized(k, i) \in Tables
        /\ \A t \in Tables : BarsOf(t, i) \in Tables

Bytes == [table : Tables, enc : Encodings]
ASSUME SpecialFiles == {Absent, Partial, Mixed} \cap Bytes = {}
ASSUME SpecialDistinct == Absent # Partial /\ Absent # Mixed /\ Partial # Mixed

File == Bytes \cup {Absent, Partial, Mixed}

\* One FileEntry: the receipt's content hash and its file hash.  row_count is
\* Rows(table), and the contract is the path's first component.
Entry == [path : Path, table : Tables, file : File]
Manifest == SUBSET Entry

\* Mutant: the identity includes the file hash.
SnapshotIdWithBytes(m) == m

\* SnapshotManifest.snapshot_id: the paths and contents, never the bytes.
SnapshotId(m) == {[path |-> e.path, table |-> e.table] : e \in m}

\* The table an input gives for each kind, bars from its own trades.
TableOf(k, i) == IF k = "bar" THEN BarsOf(Normalized("trade", i), i)
                              ELSE Normalized(k, i)
SnapshotOf(i) == {[path |-> PathOf(k, i), table |-> TableOf(k, i)] : k \in Kinds}
ASSUME SnapshotsAreManifests == \A i \in Inputs : SnapshotOf(i) # Absent
Accepted(i) == \A k \in Kinds : TableOf(k, i) \notin Rejected

VARIABLES files,      \* what each path of the root holds
          manifest,   \* what manifest.json holds
          builder,    \* the local state of each run of the pipeline
          reader,     \* the local state of each consumer
          sealed,     \* history: the manifests sealed, with their inputs
          builds, crashes, damage   \* how much of each bound is spent

\* manifest.json is there and parses.
Loadable == manifest \notin {Absent, Partial, Mixed}

store == <<files, manifest>>
counts == <<builds, crashes, damage>>
vars == <<files, manifest, builder, reader, sealed, builds, crashes, damage>>

Phases == {"check", "write", "hash", "readback", "seal", "sealing"}
Idle == [pc |-> "idle"]
Building == [pc : Phases, kind : Kinds, input : Inputs, enc : Encodings,
             receipts : Manifest, trades : Tables]
Closed == [pc |-> "closed"]
Reading == [pc : {"reading"}, held : Manifest, got : SUBSET (Path \X Tables)]
Verifying == [pc : {"verifying"}, held : Manifest, checked : 0..3,
              findings : SUBSET Path]

TypeOK ==
    /\ files \in [Path -> File]
    /\ manifest \in Manifest \cup {Absent, Partial, Mixed}
    /\ builder \in [Builders -> Building \cup {Idle}]
    /\ reader \in [Readers -> Reading \cup Verifying \cup {Closed}]
    /\ sealed \subseteq [input : Inputs, manifest : Manifest]
    /\ builds \in 0..MaxBuilds /\ crashes \in 0..MaxCrashes /\ damage \in 0..MaxDamage

Init ==
    /\ files = [p \in Path |-> Absent]
    /\ manifest = Absent
    /\ builder = [b \in Builders |-> Idle]
    /\ reader = [r \in Readers |-> Closed]
    /\ sealed = {}
    /\ builds = 0 /\ crashes = 0 /\ damage = 0

-----------------------------------------------------------------------------
(* The pipeline.                                                           *)

\* The table about to be written, its path, and the bytes it becomes.
Current(b) == IF builder[b].kind = "bar"
              THEN BarsOf(builder[b].trades, builder[b].input)
              ELSE Normalized(builder[b].kind, builder[b].input)
Target(b) == PathOf(builder[b].kind, builder[b].input)
Encoded(b) == [table |-> Current(b), enc |-> builder[b].enc]

At(b, phase) == builder[b].pc = phase

\* run is called; parsing and normalization of the whole partition precede the
\* first write.  Before the read-back, trades holds what normalization gave.
Start(b, i, enc) ==
    /\ At(b, "idle")
    /\ builds < MaxBuilds
    /\ builds' = builds + 1
    /\ builder' = [builder EXCEPT ![b] =
            [pc |-> "check", kind |-> "trade", input |-> i, enc |-> enc,
             receipts |-> {}, trades |-> Normalized("trade", i)]]
    /\ UNCHANGED <<files, manifest, reader, sealed, crashes, damage>>

\* Mutant: a refused run leaves its receipts behind.
RefuseKeeping(b) ==
    /\ At(b, "check")
    /\ Current(b) \in Rejected
    /\ builder' = [builder EXCEPT ![b].pc = "idle"]
    /\ UNCHANGED <<files, manifest, reader, sealed, counts>>

\* A contract check refuses the table, or building it raises: run ends with an
\* exception and whatever it wrote before stays where it is.
Refuse(b) ==
    /\ At(b, "check")
    /\ Current(b) \in Rejected
    /\ builder' = [builder EXCEPT ![b] = Idle]
    /\ UNCHANGED <<files, manifest, reader, sealed, counts>>

\* Mutant: the writer refuses to replace a file, so a retry cannot succeed.
BeginWriteExclusive(b) ==
    /\ At(b, "check")
    /\ Current(b) \notin Rejected
    /\ IF files[Target(b)] = Absent
       THEN /\ files' = [files EXCEPT ![Target(b)] = Partial]
            /\ builder' = [builder EXCEPT ![b].pc = "write"]
       ELSE builder' = [builder EXCEPT ![b] = Idle] /\ UNCHANGED files
    /\ UNCHANGED <<manifest, reader, sealed, counts>>

\* The checks pass and the writer opens the final path, truncating it.
BeginWrite(b) ==
    /\ At(b, "check")
    /\ Current(b) \notin Rejected
    /\ files' = [files EXCEPT ![Target(b)] = Partial]
    /\ builder' = [builder EXCEPT ![b].pc = "write"]
    /\ UNCHANGED <<manifest, reader, sealed, counts>>

\* Another process writes the same path, or has since this one truncated it.
Interfered(b) ==
    \/ files[Target(b)] # Partial
    \/ \E c \in Builders \ {b} : At(c, "write") /\ Target(c) = Target(b)

FinishWrite(b) ==
    /\ At(b, "write")
    /\ \/ files' = [files EXCEPT ![Target(b)] = Encoded(b)]
       \/ Interfered(b) /\ files' = [files EXCEPT ![Target(b)] = Mixed]
    /\ builder' = [builder EXCEPT ![b].pc = "hash"]
    /\ UNCHANGED <<manifest, reader, sealed, counts>>

\* Mutant: the manifest is written before the bars are built.
AfterReceiptSealEarly(k) == CASE k = "trade" -> [pc |-> "check", kind |-> "quote"]
                              [] k = "quote" -> [pc |-> "seal", kind |-> "quote"]

\* Where a build goes once it has the receipt of a kind.
AfterReceipt(k) == CASE k = "trade" -> [pc |-> "check", kind |-> "quote"]
                     [] k = "quote" -> [pc |-> "readback", kind |-> "quote"]
                     [] k = "bar" -> [pc |-> "seal", kind |-> "bar"]

\* Mutants: the file hash is that of another serialization of the table; the
\* content hash is that of the file read back.
ReceiptReserialized(b) ==
    [path |-> Target(b), table |-> Current(b),
     file |-> [table |-> Current(b), enc |-> CHOOSE enc \in Encodings : TRUE]]
ReceiptOfFile(b) ==
    LET file == files[Target(b)] IN
    [path |-> Target(b), file |-> file,
     table |-> IF file \in Bytes THEN file.table ELSE Current(b)]

\* The receipt hashes the table in memory and whatever the path holds by now.
Receipt(b) == [path |-> Target(b), table |-> Current(b), file |-> files[Target(b)]]

TakeReceipt(b) ==
    /\ At(b, "hash")
    /\ LET next == AfterReceipt(builder[b].kind)
       IN builder' = [builder EXCEPT ![b].receipts = @ \cup {Receipt(b)},
                                     ![b].pc = next.pc, ![b].kind = next.kind]
    /\ UNCHANGED <<files, manifest, reader, sealed, counts>>

\* Mutants: the bars are built from the quotes; an unreadable trade file is waited
\* for.
TradesOnDiskQuotes(b) == files[PathOf("quote", builder[b].input)]
ReadBackWaits(b) ==
    /\ At(b, "readback")
    /\ LET trades == files[PathOf("trade", builder[b].input)] IN
       /\ trades \in Bytes
       /\ builder' = [builder EXCEPT
            ![b].pc = "check", ![b].kind = "bar", ![b].trades = trades.table]
    /\ UNCHANGED <<files, manifest, reader, sealed, counts>>

\* Bars are built from the trade file as it is on disk now.  A file that is
\* not a whole parquet file cannot be read and ends the run.
TradesOnDisk(b) == files[PathOf("trade", builder[b].input)]

WithTrades(b, file) ==
    [builder[b] EXCEPT !.pc = "check", !.kind = "bar", !.trades = file.table]

ReadBack(b) ==
    /\ At(b, "readback")
    /\ builder' = [builder EXCEPT ![b] = IF TradesOnDisk(b) \in Bytes
                                         THEN WithTrades(b, TradesOnDisk(b)) ELSE Idle]
    /\ UNCHANGED <<files, manifest, reader, sealed, counts>>

\* write_manifest: open and truncate manifest.json, then write it whole.
BeginSeal(b) ==
    /\ At(b, "seal")
    /\ manifest' = Partial
    /\ builder' = [builder EXCEPT ![b].pc = "sealing"]
    /\ UNCHANGED <<files, reader, sealed, counts>>

FinishSeal(b) ==
    /\ At(b, "sealing")
    /\ \/ manifest' = builder[b].receipts
       \/ /\ manifest # Partial \/ \E c \in Builders \ {b} : At(c, "sealing")
          /\ manifest' = Mixed
    /\ sealed' = sealed \cup {[input |-> builder[b].input,
                               manifest |-> builder[b].receipts]}
    /\ builder' = [builder EXCEPT ![b] = Idle]
    /\ UNCHANGED <<files, reader, counts>>

\* The process dies.  Nothing cleans up; a half-written file stays half
\* written, over another writer's bytes if there is one.
Crash(b) ==
    /\ ~At(b, "idle")
    /\ crashes < MaxCrashes
    /\ crashes' = crashes + 1
    /\ builder' = [builder EXCEPT ![b] = Idle]
    /\ \/ UNCHANGED files
       \/ /\ At(b, "write") /\ Interfered(b)
          /\ files' = [files EXCEPT ![Target(b)] = Mixed]
    /\ UNCHANGED <<manifest, reader, sealed, builds, damage>>

BuilderStep(b) ==
    \/ Refuse(b) \/ BeginWrite(b) \/ FinishWrite(b) \/ TakeReceipt(b)
    \/ ReadBack(b) \/ BeginSeal(b) \/ FinishSeal(b)

-----------------------------------------------------------------------------
(* Consumers.                                                              *)

\* load_manifest raises unless manifest.json is there and parses, which is the
\* guard of both consumers.
Open(r) ==
    /\ reader[r].pc = "closed"
    /\ Loadable
    /\ reader' = [reader EXCEPT ![r] = [pc |-> "reading", held |-> manifest, got |-> {}]]
    /\ UNCHANGED <<store, builder, sealed, counts>>

\* SnapshotReader.read: listed, whole, and as many rows as the entry says.
Read(r) ==
    /\ reader[r].pc = "reading"
    /\ \E e \in reader[r].held :
        /\ files[e.path] \in Bytes
        /\ Rows(files[e.path].table) = Rows(e.table)
        /\ reader' = [reader EXCEPT ![r].got = @ \cup {<<e.path, files[e.path].table>>}]
    /\ UNCHANGED <<store, builder, sealed, counts>>

\* The consumer finishes, or a read raised and it gives up.
Close(r) ==
    /\ reader[r].pc # "closed"
    /\ reader' = [reader EXCEPT ![r] = Closed]
    /\ UNCHANGED <<store, builder, sealed, counts>>

\* verify_snapshot, entry by entry in the manifest's (path) order.
VerifyOrder == <<"bar", "quote", "trade">>

BeginVerify(r) ==
    /\ reader[r].pc = "closed"
    /\ Loadable
    /\ reader' = [reader EXCEPT ![r] =
            [pc |-> "verifying", held |-> manifest, checked |-> 0, findings |-> {}]]
    /\ UNCHANGED <<store, builder, sealed, counts>>

\* Mutant: only the presence of a file is checked.
EntryIsPresent(e) == files[e.path] # Absent

EntryIsIntact(e) == files[e.path] = e.file

VerifyEntry(r) ==
    /\ reader[r].pc = "verifying"
    /\ reader[r].checked < 3
    /\ \E e \in reader[r].held :
        /\ e.path[1] = VerifyOrder[reader[r].checked + 1]
        /\ reader' = [reader EXCEPT
                ![r].checked = @ + 1,
                ![r].findings = IF EntryIsIntact(e) THEN @ ELSE @ \cup {e.path}]
    /\ UNCHANGED <<store, builder, sealed, counts>>

-----------------------------------------------------------------------------
\* A file is lost or corrupted at rest, while no build is running.
Damage(p) ==
    /\ \A b \in Builders : At(b, "idle")
    /\ damage < MaxDamage
    /\ files[p] \in Bytes
    /\ \E left \in {Absent, Mixed} : files' = [files EXCEPT ![p] = left]
    /\ damage' = damage + 1
    /\ UNCHANGED <<manifest, builder, reader, sealed, builds, crashes>>

Next ==
    \/ \E b \in Builders :
        \/ \E i \in Inputs, enc \in Encodings : Start(b, i, enc)
        \/ BuilderStep(b)
        \/ Crash(b)
    \/ \E r \in Readers :
        \/ Open(r) \/ Read(r) \/ Close(r) \/ BeginVerify(r) \/ VerifyEntry(r)
    \/ \E p \in Path : Damage(p)

Spec == Init /\ [][Next]_vars

\* A running build keeps running: nothing in run waits for another process.
FairSpec == Spec /\ \A b \in Builders : WF_vars(BuilderStep(b))

-----------------------------------------------------------------------------
(* Properties.                                                             *)

Matches(m) == \A e \in m : EntryIsIntact(e)
Intact == Loadable /\ Matches(manifest)

\* A sealed manifest identifies exactly the three tables of the build that
\* sealed it, with bars made of the listed trades, whatever writer version
\* encoded the files and whatever crashes and refusals came before
\* (pipeline.run, SnapshotManifest.snapshot_id).
SealedIsOneBuild == \A s \in sealed : SnapshotId(s.manifest) = SnapshotOf(s.input)

\* Even with several builds in one root, the trade and quote contents a build
\* seals are its own and passed the contract checks: receipts hash the table
\* the writer validated, not what the path holds (WriteReceipt.content_sha256).
ContentHashesAreOwn ==
    \A s \in sealed : \A e \in s.manifest :
        /\ e.table \notin Rejected
        /\ e.path[1] # "bar" => e.table = TableOf(e.path[1], s.input)

\* The manifest becomes readable only once every file it lists is in place
\* with the listed bytes: manifest.json is written last.
SealsIntact ==
    [][Loadable' /\ manifest' # manifest => Intact']_vars

\* The wrong table never passes verification: when verify_snapshot checks an
\* entry whose file does not hold the listed content, it reports that path.
VerifyCatchesWrongTable ==
    [][\A r \in Readers :
          /\ reader[r].pc = "verifying" /\ reader'[r].pc = "verifying"
          /\ reader'[r].checked = reader[r].checked + 1
          => \A e \in reader[r].held :
                e.path[1] = VerifyOrder[reader'[r].checked] =>
                    \/ files[e.path] \in Bytes /\ files[e.path].table = e.table
                    \/ e.path \in reader'[r].findings]_reader

\* The manifest and the bytes of an undisturbed build.
Whole(k, i, enc) == [table |-> TableOf(k, i), enc |-> enc]
EntryOf(k, i, enc) ==
    [path |-> PathOf(k, i), table |-> TableOf(k, i), file |-> Whole(k, i, enc)]
ManifestOf(i, enc) == {EntryOf(k, i, enc) : k \in Kinds}

\* The kinds a running build has a receipt for.
Done(b) == IF builder[b].pc \in {"seal", "sealing"} THEN Kinds
           ELSE IF builder[b].pc = "readback" \/ builder[b].kind = "bar"
           THEN {"trade", "quote"}
           ELSE IF builder[b].kind = "quote" THEN {"trade"} ELSE {}

BuildInv(b) ==
    LET i == builder[b].input
        enc == builder[b].enc
    IN  /\ builder[b].pc \in {"seal", "sealing"} => builder[b].kind = "bar"
        /\ builder[b].pc = "readback" => builder[b].kind = "quote"
        /\ builder[b].trades = Normalized("trade", i)
        /\ builder[b].receipts = {EntryOf(k, i, enc) : k \in Done(b)}
        /\ \A k \in Done(b) : files[PathOf(k, i)] = Whole(k, i, enc)
        /\ builder[b].pc = "write" => files[PathOf(builder[b].kind, i)] = Partial
        /\ builder[b].pc = "hash" =>
                files[PathOf(builder[b].kind, i)] = Whole(builder[b].kind, i, enc)
        /\ builder[b].pc = "sealing" => manifest = Partial

\* With one builder per root, every manifest anywhere (on disk, sealed before,
\* or held by a consumer) is that of one undisturbed build, and a running
\* build's receipts describe the files as they are (pipeline.run).
SoleBuilderInv ==
    /\ \A b \in Builders : builder[b].pc # "idle" => BuildInv(b)
    /\ Loadable => \E i \in Inputs, enc \in Encodings : manifest = ManifestOf(i, enc)
    /\ \A s \in sealed : \E enc \in Encodings : s.manifest = ManifestOf(s.input, enc)
    /\ \A r \in Readers : reader[r].pc # "closed" =>
            \E i \in Inputs, enc \in Encodings : reader[r].held = ManifestOf(i, enc)

\* What a careful consumer sees of the root, and that it is all or nothing.
VerifiedNow == IF Intact THEN SnapshotId(manifest) ELSE Absent
View == INSTANCE VerifiedView WITH
            view <- VerifiedNow, Nothing <- Absent,
            Snapshots <- {SnapshotOf(i) : i \in Inputs}
ImplementsView == View!Spec

\* A build of acceptable input that is not killed seals its own snapshot, also
\* after a crash left half-written files behind.
BuildSeals ==
    \A b \in Builders, i \in Inputs, n \in 0..MaxCrashes :
        /\ builder[b].pc # "idle" /\ builder[b].input = i
        /\ Accepted(i) /\ crashes = n
        ~> \/ crashes > n
           \/ Loadable /\ SnapshotId(manifest) = SnapshotOf(i)

\* Every build ends by itself, sealed or with an exception, whatever another
\* build does to the same paths.
BuildEnds == \A b \in Builders : builder[b].pc # "idle" ~> builder[b].pc = "idle"

-----------------------------------------------------------------------------
(* Claims of the code's text that do not hold.                             *)

\* reader.py: the as-was invariant is made structural by SnapshotReader, so
\* every table it returns is the one the held manifest names.
AsWasReads ==
    \A r \in Readers : reader[r].pc = "reading" =>
        \A g \in reader[r].got : \E e \in reader[r].held :
            e.path = g[1] /\ e.table = g[2]
=============================================================================
