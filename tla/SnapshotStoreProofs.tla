------------------------- MODULE SnapshotStoreProofs -------------------------
(***************************************************************************)
(* Proofs about SnapshotStore, for every set of builders, readers, inputs, *)
(* encodings and dates and every bound.                                    *)
(***************************************************************************)
EXTENDS SnapshotStore, TLAPS

\* A running builder's state is a Building record.
LEMMA RunningBuilder ==
    ASSUME TypeOK, NEW b \in Builders, builder[b].pc # "idle"
    PROVE  builder[b] \in Building
BY DEF TypeOK, Idle, Building

\* The table a running builder writes, its path and its bytes have their types.
LEMMA CurrentType ==
    ASSUME TypeOK, NEW b \in Builders, builder[b].pc # "idle"
    PROVE  /\ Current(b) \in Tables
           /\ Target(b) \in Path
           /\ Encoded(b) \in Bytes
<1>1. builder[b] \in Building
  BY RunningBuilder
<1>2. /\ builder[b].kind \in Kinds /\ builder[b].input \in Inputs
      /\ builder[b].trades \in Tables /\ builder[b].enc \in Encodings
  BY <1>1 DEF Building
<1>3. Current(b) \in Tables
  BY <1>2, TablesOfInputs DEF Current
<1>4. Target(b) \in Path
  BY <1>2, TablesOfInputs DEF Target, PathOf, Path
<1>5. Encoded(b) \in Bytes
  BY <1>2, <1>3 DEF Encoded, Bytes
<1> QED
  BY <1>3, <1>4, <1>5

LEMMA InitType == Init => TypeOK
BY BoundsAreNat DEF Init, TypeOK, File, Idle, Closed

\* Every step of a builder keeps the types.
LEMMA BuilderType ==
    ASSUME TypeOK, NEW b \in Builders
    PROVE  /\ \A i \in Inputs, enc \in Encodings : Start(b, i, enc) => TypeOK'
           /\ BuilderStep(b) => TypeOK'
           /\ Crash(b) => TypeOK'
<1>1. ASSUME NEW i \in Inputs, NEW enc \in Encodings, Start(b, i, enc)
      PROVE  TypeOK'
  <2>1. Normalized("trade", i) \in Tables
    BY TablesOfInputs DEF Kinds
  <2>2. [pc |-> "check", kind |-> "trade", input |-> i, enc |-> enc,
         receipts |-> {}, trades |-> Normalized("trade", i)] \in Building
    BY <2>1 DEF Building, Phases, Kinds, Manifest
  <2>3. builds' \in 0..MaxBuilds
    BY <1>1, BoundsAreNat DEF TypeOK, Start
  <2> QED
    BY <1>1, <2>2, <2>3 DEF TypeOK, Start
<1>2. CASE Refuse(b)
  BY <1>2 DEF TypeOK, Refuse, counts
<1>3. CASE BeginWrite(b)
  <2>1. builder[b] \in Building /\ Target(b) \in Path
    BY <1>3, RunningBuilder, CurrentType DEF BeginWrite, At
  <2>2. builder' \in [Builders -> Building \cup {Idle}]
    BY <1>3, <2>1 DEF BeginWrite, TypeOK, Building, Phases
  <2>3. files' \in [Path -> File]
    BY <1>3, <2>1 DEF BeginWrite, TypeOK, File
  <2> QED
    BY <1>3, <2>2, <2>3 DEF BeginWrite, TypeOK, counts
<1>4. CASE FinishWrite(b)
  <2>1. builder[b] \in Building /\ Target(b) \in Path /\ Encoded(b) \in Bytes
    BY <1>4, RunningBuilder, CurrentType DEF FinishWrite, At
  <2>2. builder' \in [Builders -> Building \cup {Idle}]
    BY <1>4, <2>1 DEF FinishWrite, TypeOK, Building, Phases
  <2>3. files' \in [Path -> File]
    BY <1>4, <2>1 DEF FinishWrite, TypeOK, File
  <2> QED
    BY <1>4, <2>2, <2>3 DEF FinishWrite, TypeOK, counts
<1>5. CASE TakeReceipt(b)
  <2> DEFINE entry == Receipt(b)
  <2>1. builder[b] \in Building /\ Target(b) \in Path /\ Current(b) \in Tables
    BY <1>5, RunningBuilder, CurrentType DEF TakeReceipt, At
  <2>2. entry \in Entry
    BY <2>1 DEF Entry, TypeOK, Receipt
  <2>3. builder[b].receipts \cup {entry} \in Manifest
    BY <2>1, <2>2 DEF Building, Manifest
  <2>4. builder' \in [Builders -> Building \cup {Idle}]
    <3>1. CASE builder[b].kind = "trade"
      BY <1>5, <2>1, <2>3, <3>1 DEF TakeReceipt, AfterReceipt, TypeOK, Building, Phases, Kinds
    <3>2. CASE builder[b].kind = "quote"
      BY <1>5, <2>1, <2>3, <3>2 DEF TakeReceipt, AfterReceipt, TypeOK, Building, Phases, Kinds
    <3>3. CASE builder[b].kind = "bar"
      BY <1>5, <2>1, <2>3, <3>3 DEF TakeReceipt, AfterReceipt, TypeOK, Building, Phases, Kinds
    <3> QED
      BY <2>1, <3>1, <3>2, <3>3 DEF Building, Kinds
  <2> QED
    BY <1>5, <2>4 DEF TakeReceipt, TypeOK, counts
<1>6. CASE ReadBack(b)
  <2>1. builder[b] \in Building
    BY <1>6, RunningBuilder DEF ReadBack, At
  <2>2. builder' \in [Builders -> Building \cup {Idle}]
    BY <1>6, <2>1 DEF ReadBack, TradesOnDisk, WithTrades, TypeOK, Building, Phases, Kinds, Bytes
  <2> QED
    BY <1>6, <2>2 DEF ReadBack, TypeOK, counts
<1>7. CASE BeginSeal(b)
  <2>1. builder[b] \in Building
    BY <1>7, RunningBuilder DEF BeginSeal, At
  <2>2. builder' \in [Builders -> Building \cup {Idle}]
    BY <1>7, <2>1 DEF BeginSeal, TypeOK, Building, Phases
  <2> QED
    BY <1>7, <2>2 DEF BeginSeal, TypeOK, counts
<1>8. CASE FinishSeal(b)
  <2>1. builder[b].input \in Inputs /\ builder[b].receipts \in Manifest
    BY <1>8, RunningBuilder DEF FinishSeal, At, Building
  <2>2. /\ manifest' \in Manifest \cup {Absent, Partial, Mixed}
        /\ sealed' \subseteq [input : Inputs, manifest : Manifest]
    BY <1>8, <2>1 DEF FinishSeal, TypeOK
  <2> QED
    BY <1>8, <2>2 DEF FinishSeal, TypeOK, counts
<1>9. CASE Crash(b)
  <2>1. Target(b) \in Path
    BY <1>9, CurrentType DEF Crash, At
  <2>2. files' \in [Path -> File] /\ crashes' \in 0..MaxCrashes
    BY <1>9, <2>1, BoundsAreNat DEF Crash, TypeOK, File
  <2> QED
    BY <1>9, <2>2 DEF Crash, TypeOK
<1> QED
  BY <1>1, <1>2, <1>3, <1>4, <1>5, <1>6, <1>7, <1>8, <1>9 DEF BuilderStep

\* Every step of a consumer keeps the types.
LEMMA ReaderType ==
    ASSUME TypeOK, NEW r \in Readers
    PROVE  Open(r) \/ Read(r) \/ Close(r) \/ BeginVerify(r) \/ VerifyEntry(r) => TypeOK'
<1>1. CASE Open(r)
  BY <1>1 DEF TypeOK, Open, Loadable, Reading, store, counts
<1>2. CASE Read(r)
  <2>1. reader[r] \in Reading
    BY <1>2 DEF Read, TypeOK, Closed, Verifying
  <2>2. PICK e \in reader[r].held :
            /\ files[e.path] \in Bytes
            /\ reader' = [reader EXCEPT ![r].got = @ \cup {<<e.path, files[e.path].table>>}]
    BY <1>2 DEF Read
  <2>3. e.path \in Path /\ files[e.path].table \in Tables
    BY <2>1, <2>2 DEF Reading, Manifest, Entry, Bytes
  <2>4. reader' \in [Readers -> Reading \cup Verifying \cup {Closed}]
    BY <2>1, <2>2, <2>3 DEF TypeOK, Reading
  <2> QED
    BY <1>2, <2>4 DEF Read, TypeOK, store, counts
<1>3. CASE Close(r)
  BY <1>3 DEF TypeOK, Close, store, counts
<1>4. CASE BeginVerify(r)
  BY <1>4 DEF TypeOK, BeginVerify, Loadable, Verifying, store, counts
<1>5. CASE VerifyEntry(r)
  <2>1. reader[r] \in Verifying
    BY <1>5 DEF VerifyEntry, TypeOK, Closed, Reading
  <2>2. PICK e \in reader[r].held :
            reader' = [reader EXCEPT
                ![r].checked = @ + 1,
                ![r].findings = IF EntryIsIntact(e) THEN @ ELSE @ \cup {e.path}]
    BY <1>5 DEF VerifyEntry
  <2>3. e.path \in Path
    BY <2>1, <2>2 DEF Verifying, Manifest, Entry
  <2>4. reader[r].checked + 1 \in 0..3
    BY <1>5, <2>1 DEF VerifyEntry, Verifying
  <2>5. reader' \in [Readers -> Reading \cup Verifying \cup {Closed}]
    BY <2>1, <2>2, <2>3, <2>4 DEF TypeOK, Verifying
  <2> QED
    BY <1>5, <2>5 DEF VerifyEntry, TypeOK, store, counts
<1> QED
  BY <1>1, <1>2, <1>3, <1>4, <1>5

LEMMA DamageType ==
    ASSUME TypeOK, NEW p \in Path, Damage(p)
    PROVE  TypeOK'
BY BoundsAreNat DEF TypeOK, Damage, File

\* The state keeps its types: every file is absent, torn, interleaved or whole,
\* every manifest lists entries, every process is where its program can be.
THEOREM TypeCorrect == Spec => []TypeOK
<1>1. Init => TypeOK
  BY InitType
<1>2. TypeOK /\ [Next]_vars => TypeOK'
  <2> SUFFICES ASSUME TypeOK, [Next]_vars PROVE TypeOK'
    OBVIOUS
  <2>1. CASE Next
    BY <2>1, BuilderType, ReaderType, DamageType DEF Next
  <2>2. CASE UNCHANGED vars
    BY <2>2 DEF TypeOK, vars
  <2> QED
    BY <2>1, <2>2
<1> QED
  BY <1>1, <1>2, PTL DEF Spec

-----------------------------------------------------------------------------
(* One builder per root.                                                   *)

SoleBuilder == \A b, c \in Builders : b = c

Inv == TypeOK /\ SoleBuilderInv

\* Paths of different kinds are different.
LEMMA PathsDiffer ==
    ASSUME NEW j \in Kinds, NEW k \in Kinds, NEW i \in Inputs
    PROVE  PathOf(j, i) = PathOf(k, i) => j = k
BY DEF PathOf

\* The kinds done are kinds, and the kind under way is not yet done.
LEMMA DoneKinds ==
    ASSUME TypeOK, NEW b \in Builders, builder[b].pc # "idle"
    PROVE  /\ Done(b) \subseteq Kinds
           /\ builder[b].pc \in {"check", "write", "hash"} => builder[b].kind \notin Done(b)
<1>1. builder[b].pc \in Phases /\ builder[b].kind \in Kinds
  BY RunningBuilder DEF Building
<1> QED
  BY <1>1 DEF Done, Kinds, Phases

\* While the invariant holds, a builder writes what its input gives.
LEMMA CurrentIsOwn ==
    ASSUME TypeOK, NEW b \in Builders, builder[b].pc # "idle", BuildInv(b)
    PROVE  /\ Current(b) = TableOf(builder[b].kind, builder[b].input)
           /\ Encoded(b) = Whole(builder[b].kind, builder[b].input, builder[b].enc)
BY DEF BuildInv, Current, Encoded, TableOf, Whole

\* The bytes of a build are bytes, so no file that is torn or missing has them.
LEMMA WholeIsBytes ==
    ASSUME NEW k \in Kinds, NEW i \in Inputs, NEW enc \in Encodings
    PROVE  /\ TableOf(k, i) \in Tables
           /\ Whole(k, i, enc) \in Bytes
           /\ Whole(k, i, enc).table = TableOf(k, i)
           /\ Whole(k, i, enc) \notin {Absent, Partial, Mixed}
<1>1. TableOf(k, i) \in Tables
  BY TablesOfInputs DEF TableOf, Kinds
<1>2. Whole(k, i, enc) \in Bytes
  BY <1>1 DEF Whole, Bytes
<1> QED
  BY <1>1, <1>2, SpecialFiles DEF Whole

\* A step that leaves the consumers, the manifest and the history alone keeps
\* their part of the invariant.
LEMMA RestKept ==
    ASSUME SoleBuilderInv, UNCHANGED <<manifest, reader, sealed>>,
           \A b \in Builders : builder'[b].pc # "idle" => BuildInv(b)'
    PROVE  SoleBuilderInv'
BY DEF SoleBuilderInv, Loadable

LEMMA BuilderKeepsInv ==
    ASSUME SoleBuilder, Inv, NEW b \in Builders,
           BuilderStep(b) \/ Crash(b)
               \/ \E i \in Inputs, enc \in Encodings : Start(b, i, enc)
    PROVE  SoleBuilderInv'
<1> USE DEF Inv, At
<1>a. \A c \in Builders : c = b
  BY DEF SoleBuilder
<1>b. builder[b].pc # "idle" => /\ builder[b] \in Building
                               /\ BuildInv(b)
                               /\ builder[b].input \in Inputs
                               /\ builder[b].enc \in Encodings
                               /\ builder[b].kind \in Kinds
  BY RunningBuilder DEF SoleBuilderInv, Building
<1>c. b \in DOMAIN builder /\ builder \in [Builders -> Building \cup {Idle}]
  BY DEF TypeOK
<1>1. ASSUME NEW i \in Inputs, NEW enc \in Encodings, Start(b, i, enc)
      PROVE  SoleBuilderInv'
  <2>1. builder'[b] = [pc |-> "check", kind |-> "trade", input |-> i, enc |-> enc,
                       receipts |-> {}, trades |-> Normalized("trade", i)]
    BY <1>1, <1>c DEF Start
  <2>2. Done(b)' = {}
    BY <2>1 DEF Done
  <2>3. BuildInv(b)'
    BY <2>1, <2>2 DEF BuildInv
  <2> QED
    BY <1>1, <1>a, <2>3, RestKept DEF Start
<1>2. CASE Refuse(b)
  <2>1. builder'[b] = Idle
    BY <1>2, <1>c DEF Refuse
  <2> QED
    BY <1>2, <1>a, <2>1, RestKept DEF Refuse, Idle
<1>3. CASE BeginWrite(b)
  <2> DEFINE i == builder[b].input
             k == builder[b].kind
  <2>1. builder'[b] = [builder[b] EXCEPT !.pc = "write"] /\ builder[b].pc = "check"
    BY <1>3, <1>c DEF BeginWrite
  <2>2. /\ builder'[b].pc = "write" /\ builder'[b].kind = k
        /\ builder'[b].input = i /\ builder'[b].enc = builder[b].enc
        /\ builder'[b].trades = builder[b].trades
        /\ builder'[b].receipts = builder[b].receipts
    BY <2>1, <1>b DEF Building
  <2>3. Done(b)' = Done(b)
    BY <2>1, <2>2 DEF Done
  <2>4. files' = [files EXCEPT ![PathOf(k, i)] = Partial] /\ PathOf(k, i) \in Path
    BY <1>3, <2>1, CurrentType DEF BeginWrite, Target
  <2>5. \A j \in Done(b) : files'[PathOf(j, i)] = files[PathOf(j, i)]
    BY <1>b, <2>1, <2>4, DoneKinds, PathsDiffer DEF TypeOK
  <2>6. files'[PathOf(k, i)] = Partial
    BY <2>4 DEF TypeOK
  <2>7. BuildInv(b)'
    BY <1>b, <2>1, <2>2, <2>3, <2>5, <2>6 DEF BuildInv
  <2> QED
    BY <1>3, <1>a, <2>7, RestKept DEF BeginWrite
<1>4. CASE FinishWrite(b)
  <2> DEFINE i == builder[b].input
             k == builder[b].kind
  <2>1. builder'[b] = [builder[b] EXCEPT !.pc = "hash"] /\ builder[b].pc = "write"
    BY <1>4, <1>c DEF FinishWrite
  <2>2. /\ builder'[b].pc = "hash" /\ builder'[b].kind = k
        /\ builder'[b].input = i /\ builder'[b].enc = builder[b].enc
        /\ builder'[b].trades = builder[b].trades
        /\ builder'[b].receipts = builder[b].receipts
    BY <2>1, <1>b DEF Building
  <2>3. Done(b)' = Done(b)
    BY <2>1, <2>2 DEF Done
  <2>4. ~Interfered(b)
    BY <1>a, <1>b, <2>1 DEF Interfered, BuildInv, Target
  <2>5. /\ files' = [files EXCEPT ![PathOf(k, i)] = Whole(k, i, builder[b].enc)]
        /\ PathOf(k, i) \in Path
    BY <1>4, <1>b, <2>1, <2>4, CurrentType, CurrentIsOwn DEF FinishWrite, Target
  <2>6. \A j \in Done(b) : files'[PathOf(j, i)] = files[PathOf(j, i)]
    BY <1>b, <2>1, <2>5, DoneKinds, PathsDiffer DEF TypeOK
  <2>7. files'[PathOf(k, i)] = Whole(k, i, builder[b].enc)
    BY <2>5 DEF TypeOK
  <2>8. BuildInv(b)'
    BY <1>b, <2>1, <2>2, <2>3, <2>6, <2>7 DEF BuildInv
  <2> QED
    BY <1>4, <1>a, <2>8, RestKept DEF FinishWrite
<1>5. CASE TakeReceipt(b)
  <2> DEFINE i == builder[b].input
             k == builder[b].kind
             enc == builder[b].enc
  <2>1. builder[b].pc = "hash" /\ BuildInv(b) /\ files' = files
    BY <1>5, <1>b DEF TakeReceipt
  <2>2. Receipt(b) = EntryOf(k, i, enc)
    BY <1>b, <2>1, CurrentIsOwn DEF Receipt, EntryOf, Target, BuildInv
  <2>3. /\ builder'[b].receipts = builder[b].receipts \cup {EntryOf(k, i, enc)}
        /\ builder'[b].input = i /\ builder'[b].enc = enc
        /\ builder'[b].trades = builder[b].trades
        /\ \/ k = "trade" /\ builder'[b].pc = "check" /\ builder'[b].kind = "quote"
           \/ k = "quote" /\ builder'[b].pc = "readback" /\ builder'[b].kind = "quote"
           \/ k = "bar" /\ builder'[b].pc = "seal" /\ builder'[b].kind = "bar"
    <3> DEFINE step(pc, kind) ==
            builder'[b] = [builder[b] EXCEPT
                !.receipts = @ \cup {EntryOf(k, i, enc)}, !.pc = pc, !.kind = kind]
    <3>1. CASE k = "trade"
      <4>1. step("check", "quote")
        BY <1>5, <1>c, <2>2, <3>1 DEF TakeReceipt, AfterReceipt
      <4> QED
        BY <1>b, <2>1, <3>1, <4>1 DEF Building
    <3>2. CASE k = "quote"
      <4>1. step("readback", "quote")
        BY <1>5, <1>c, <2>2, <3>2 DEF TakeReceipt, AfterReceipt
      <4> QED
        BY <1>b, <2>1, <3>2, <4>1 DEF Building
    <3>3. CASE k = "bar"
      <4>1. step("seal", "bar")
        BY <1>5, <1>c, <2>2, <3>3 DEF TakeReceipt, AfterReceipt
      <4> QED
        BY <1>b, <2>1, <3>3, <4>1 DEF Building
    <3> QED
      BY <1>b, <2>1, <3>1, <3>2, <3>3 DEF Kinds
  <2>4. Done(b)' = Done(b) \cup {k}
    BY <2>1, <2>3 DEF Done, Kinds
  <2>5. builder'[b].receipts = {EntryOf(j, i, enc) : j \in Done(b)'}
    BY <2>1, <2>3, <2>4 DEF BuildInv
  <2>6. \A j \in Done(b)' : files'[PathOf(j, i)] = Whole(j, i, enc)
    BY <2>1, <2>4 DEF BuildInv
  <2>7. BuildInv(b)'
    BY <2>1, <2>3, <2>5, <2>6 DEF BuildInv
  <2> QED
    BY <1>5, <1>a, <2>7, RestKept DEF TakeReceipt
<1>6. CASE ReadBack(b)
  <2> DEFINE i == builder[b].input
             enc == builder[b].enc
  <2>1. builder[b].pc = "readback" /\ BuildInv(b) /\ files' = files
    BY <1>6, <1>b DEF ReadBack
  <2>2. Done(b) = {"trade", "quote"}
    BY <2>1 DEF Done
  <2>3. /\ files[PathOf("trade", i)] = Whole("trade", i, enc)
        /\ Whole("trade", i, enc) \in Bytes
        /\ Whole("trade", i, enc).table = Normalized("trade", i)
    BY <1>b, <2>1, <2>2, WholeIsBytes DEF BuildInv, Kinds, TableOf
  <2>4. builder'[b] = [builder[b] EXCEPT !.pc = "check", !.kind = "bar",
                                         !.trades = Normalized("trade", i)]
    BY <1>6, <1>c, <2>3 DEF ReadBack, TradesOnDisk, WithTrades
  <2>5. /\ builder'[b].pc = "check" /\ builder'[b].kind = "bar"
        /\ builder'[b].trades = Normalized("trade", i)
        /\ builder'[b].input = i /\ builder'[b].enc = enc
        /\ builder'[b].receipts = builder[b].receipts
    BY <1>b, <2>1, <2>4 DEF Building
  <2>6. Done(b)' = Done(b)
    BY <2>2, <2>5 DEF Done
  <2>7. BuildInv(b)'
    BY <2>1, <2>5, <2>6 DEF BuildInv
  <2> QED
    BY <1>6, <1>a, <2>7, RestKept DEF ReadBack
<1>7. CASE BeginSeal(b)
  <2>1. builder'[b] = [builder[b] EXCEPT !.pc = "sealing"] /\ builder[b].pc = "seal"
    BY <1>7, <1>c DEF BeginSeal
  <2>2. /\ builder'[b].pc = "sealing" /\ builder'[b].kind = builder[b].kind
        /\ builder'[b].input = builder[b].input /\ builder'[b].enc = builder[b].enc
        /\ builder'[b].trades = builder[b].trades
        /\ builder'[b].receipts = builder[b].receipts
    BY <2>1, <1>b DEF Building
  <2>3. Done(b)' = Done(b)
    BY <2>1, <2>2 DEF Done
  <2>4. BuildInv(b)'
    BY <1>7, <1>b, <2>1, <2>2, <2>3 DEF BuildInv, BeginSeal
  <2> QED
    BY <1>7, <1>a, <2>4 DEF BeginSeal, SoleBuilderInv, Loadable
<1>8. CASE FinishSeal(b)
  <2>1. builder[b].pc = "sealing" /\ builder'[b] = Idle
    BY <1>8, <1>c DEF FinishSeal
  <2>2. Done(b) = Kinds
    BY <2>1 DEF Done
  <2>3. builder[b].receipts = ManifestOf(builder[b].input, builder[b].enc)
    BY <1>b, <2>1, <2>2 DEF BuildInv, ManifestOf
  <2>4. manifest' = builder[b].receipts
    BY <1>8, <1>a, <1>b, <2>1 DEF FinishSeal, BuildInv
  <2>5. \A s \in sealed' : \E enc \in Encodings : s.manifest = ManifestOf(s.input, enc)
    BY <1>8, <1>b, <2>1, <2>3 DEF FinishSeal, SoleBuilderInv
  <2>6. \A c \in Builders : builder'[c].pc = "idle"
    BY <1>a, <2>1 DEF Idle
  <2>7. UNCHANGED reader
    BY <1>8 DEF FinishSeal
  <2> QED
    BY <1>b, <2>1, <2>3, <2>4, <2>5, <2>6, <2>7 DEF SoleBuilderInv
<1>9. CASE Crash(b)
  <2>1. builder'[b] = Idle
    BY <1>9, <1>c DEF Crash
  <2> QED
    BY <1>9, <1>a, <2>1, RestKept DEF Crash, Idle
<1> QED
  BY <1>1, <1>2, <1>3, <1>4, <1>5, <1>6, <1>7, <1>8, <1>9 DEF BuilderStep

\* What a consumer is doing decides the shape of its state.
LEMMA ReaderState ==
    ASSUME TypeOK, NEW r \in Readers
    PROVE  /\ reader[r].pc = "reading" => reader[r] \in Reading
           /\ reader[r].pc = "verifying" => reader[r] \in Verifying
BY DEF TypeOK, Reading, Verifying, Closed

\* A consumer only ever holds a manifest that was on disk.
LEMMA ReaderKeepsInv ==
    ASSUME Inv, NEW r \in Readers,
           Open(r) \/ Read(r) \/ Close(r) \/ BeginVerify(r) \/ VerifyEntry(r)
    PROVE  SoleBuilderInv'
<1>1. UNCHANGED <<files, manifest, builder, sealed>>
  BY DEF Open, Read, Close, BeginVerify, VerifyEntry, store
<1>2. \A q \in Readers : reader'[q].pc # "closed" =>
          \/ reader'[q].held = manifest /\ Loadable
          \/ reader[q].pc # "closed" /\ reader'[q].held = reader[q].held
  <2>1. CASE Open(r)
    BY <2>1 DEF Open, Inv, TypeOK
  <2>2. CASE Read(r)
    <3>1. reader[r] \in Reading
      BY <2>2, ReaderState DEF Read, Inv
    <3>2. PICK e \in reader[r].held :
            reader' = [reader EXCEPT ![r].got = @ \cup {<<e.path, files[e.path].table>>}]
      BY <2>2 DEF Read
    <3> QED
      BY <3>1, <3>2 DEF Inv, TypeOK, Reading
  <2>3. CASE Close(r)
    BY <2>3 DEF Close, Closed, Inv, TypeOK
  <2>4. CASE BeginVerify(r)
    BY <2>4 DEF BeginVerify, Inv, TypeOK
  <2>5. CASE VerifyEntry(r)
    <3>1. reader[r] \in Verifying
      BY <2>5, ReaderState DEF VerifyEntry, Inv
    <3>2. PICK e \in reader[r].held :
            reader' = [reader EXCEPT
                ![r].checked = @ + 1,
                ![r].findings = IF EntryIsIntact(e) THEN @ ELSE @ \cup {e.path}]
      BY <2>5 DEF VerifyEntry
    <3> QED
      BY <3>1, <3>2 DEF Inv, TypeOK, Verifying
  <2> QED
    BY <2>1, <2>2, <2>3, <2>4, <2>5
<1>3. \A b \in Builders : builder'[b].pc # "idle" => BuildInv(b)'
  BY <1>1 DEF Inv, SoleBuilderInv, BuildInv, Done
<1> QED
  BY <1>1, <1>2, <1>3 DEF Inv, SoleBuilderInv, Loadable

\* The invariant of a root with one builder is inductive.
LEMMA NextKeepsInv ==
    ASSUME SoleBuilder, Inv, [Next]_vars
    PROVE  SoleBuilderInv'
<1>1. CASE UNCHANGED vars
  <2>1. \A b \in Builders : builder'[b].pc # "idle" => BuildInv(b)'
    BY <1>1 DEF vars, Inv, SoleBuilderInv, BuildInv, Done
  <2> QED
    BY <1>1, <2>1, RestKept DEF vars, Inv
<1>2. ASSUME NEW p \in Path, Damage(p) PROVE SoleBuilderInv'
  <2>1. \A b \in Builders : builder'[b].pc = "idle"
    BY <1>2 DEF Damage, At
  <2> QED
    BY <1>2, <2>1, RestKept DEF Damage, Inv
<1> QED
  BY <1>1, <1>2, BuilderKeepsInv, ReaderKeepsInv DEF Next

THEOREM SoleBuilderInvariant == SoleBuilder => (Spec => []SoleBuilderInv)
<1> SUFFICES ASSUME SoleBuilder PROVE Spec => []SoleBuilderInv
  OBVIOUS
<1>1. Init => SoleBuilderInv
  BY DEF Init, SoleBuilderInv, Loadable, Idle, Closed
<1>2. TypeOK /\ SoleBuilderInv /\ [Next]_vars => SoleBuilderInv'
  BY NextKeepsInv DEF Inv
<1> QED
  BY <1>1, <1>2, TypeCorrect, PTL DEF Spec

-----------------------------------------------------------------------------
(* What follows from the invariant.                                        *)

LEMMA IdOfManifest ==
    ASSUME NEW i \in Inputs, NEW enc \in Encodings
    PROVE  SnapshotId(ManifestOf(i, enc)) = SnapshotOf(i)
<1> DEFINE Id(k) == [path |-> PathOf(k, i), table |-> TableOf(k, i)]
<1>1. \A k : EntryOf(k, i, enc).path = PathOf(k, i) /\ EntryOf(k, i, enc).table = TableOf(k, i)
  BY DEF EntryOf
<1>2. SnapshotOf(i) = {Id(k) : k \in Kinds}
  BY DEF SnapshotOf
<1> HIDE DEF Id
<1>3. SnapshotId(ManifestOf(i, enc)) = {Id(k) : k \in Kinds}
  BY <1>1 DEF SnapshotId, ManifestOf, Id
<1> QED
  BY <1>2, <1>3

\* The identity a build seals depends on its input alone: not on the writer
\* version, nor on what earlier builds and crashes left in the root.
THEOREM SealedIdentity == SoleBuilder => (Spec => []SealedIsOneBuild)
<1> SUFFICES ASSUME SoleBuilder PROVE Spec => []SealedIsOneBuild
  OBVIOUS
<1>1. TypeOK /\ SoleBuilderInv => SealedIsOneBuild
  BY IdOfManifest DEF TypeOK, SoleBuilderInv, SealedIsOneBuild
<1> QED
  BY <1>1, TypeCorrect, SoleBuilderInvariant, PTL

\* manifest.json becomes loadable only when every file it lists is in place.
THEOREM SealedWhenIntact == SoleBuilder => (Spec => SealsIntact)
<1> SUFFICES ASSUME SoleBuilder PROVE Spec => SealsIntact
  OBVIOUS
<1>1. Inv /\ [Next]_vars => [Loadable' /\ manifest' # manifest => Intact']_vars
  <2> SUFFICES ASSUME Inv, Next, Loadable', manifest' # manifest
               PROVE  Intact'
    BY DEF vars
  <2>1. PICK b \in Builders : FinishSeal(b)
    BY DEF Next, BuilderStep, Start, Refuse, BeginWrite, FinishWrite, TakeReceipt,
           ReadBack, BeginSeal, Crash, Open, Read, Close, BeginVerify, VerifyEntry,
           Damage, store, Loadable
  <2>2. /\ BuildInv(b) /\ builder[b].pc = "sealing" /\ files' = files
        /\ builder[b].input \in Inputs
    BY <2>1, RunningBuilder DEF FinishSeal, At, Inv, SoleBuilderInv, Building
  <2>3. manifest' = {EntryOf(k, builder[b].input, builder[b].enc) : k \in Kinds}
    BY <2>1, <2>2 DEF FinishSeal, BuildInv, Done, Loadable
  <2>4. \A k \in Kinds : files[PathOf(k, builder[b].input)]
                            = Whole(k, builder[b].input, builder[b].enc)
    BY <2>2 DEF BuildInv, Done
  <2> QED
    BY <2>2, <2>3, <2>4 DEF Intact, Matches, EntryIsIntact, EntryOf
<1> QED
  BY <1>1, TypeCorrect, SoleBuilderInvariant, PTL DEF Spec, SealsIntact, Inv

\* verify_snapshot compares bytes only, and with one builder that is enough to
\* report every file that does not hold the listed content.
THEOREM VerifyIsSound == SoleBuilder => (Spec => VerifyCatchesWrongTable)
<1> SUFFICES ASSUME SoleBuilder PROVE Spec => VerifyCatchesWrongTable
  OBVIOUS
<1> DEFINE Caught(r) ==
        /\ reader[r].pc = "verifying" /\ reader'[r].pc = "verifying"
        /\ reader'[r].checked = reader[r].checked + 1
        => \A e \in reader[r].held :
              e.path[1] = VerifyOrder[reader'[r].checked] =>
                  \/ files[e.path] \in Bytes /\ files[e.path].table = e.table
                  \/ e.path \in reader'[r].findings
<1>1. Inv /\ [Next]_vars => [\A r \in Readers : Caught(r)]_reader
  <2> SUFFICES ASSUME Inv, Next, NEW r \in Readers,
                      reader[r].pc = "verifying", reader'[r].pc = "verifying",
                      reader'[r].checked = reader[r].checked + 1,
                      NEW e \in reader[r].held,
                      e.path[1] = VerifyOrder[reader'[r].checked],
                      ~(files[e.path] \in Bytes /\ files[e.path].table = e.table)
               PROVE  e.path \in reader'[r].findings
    BY DEF vars
  <2>1. reader[r] \in Verifying
    BY DEF Inv, TypeOK, Closed, Reading
  <2>2. VerifyEntry(r)
    <3>1. reader'[r] # reader[r]
      BY <2>1 DEF Verifying
    <3>2. \E q \in Readers :
              Open(q) \/ Read(q) \/ Close(q) \/ BeginVerify(q) \/ VerifyEntry(q)
      BY <3>1 DEF Next, BuilderStep, Start, Refuse, BeginWrite, FinishWrite,
             TakeReceipt, ReadBack, BeginSeal, FinishSeal, Crash, Damage
    <3>3. PICK q \in Readers : VerifyEntry(q)
      BY <2>1, <3>1, <3>2 DEF Open, Read, Close, BeginVerify, Closed, Verifying, Inv, TypeOK
    <3> QED
      BY <3>1, <3>3 DEF VerifyEntry, Inv, TypeOK
  <2>3. PICK f \in reader[r].held :
            /\ f.path[1] = VerifyOrder[reader[r].checked + 1]
            /\ reader' = [reader EXCEPT
                ![r].checked = @ + 1,
                ![r].findings = IF EntryIsIntact(f) THEN @ ELSE @ \cup {f.path}]
    BY <2>2 DEF VerifyEntry
  <2>4. PICK i \in Inputs, enc \in Encodings : reader[r].held = ManifestOf(i, enc)
    BY DEF Inv, SoleBuilderInv
  <2>5. PICK j \in Kinds : f = EntryOf(j, i, enc)
    BY <2>4 DEF ManifestOf
  <2>6. PICK k \in Kinds : e = EntryOf(k, i, enc)
    BY <2>4 DEF ManifestOf
  <2>7. e = f
    BY <2>3, <2>5, <2>6 DEF EntryOf, PathOf
  <2>8. files[e.path] # e.file
    BY <2>6, WholeIsBytes DEF EntryOf
  <2> QED
    BY <2>1, <2>3, <2>7, <2>8 DEF Inv, TypeOK, Verifying, EntryIsIntact
<1> QED
  BY <1>1, TypeCorrect, SoleBuilderInvariant, PTL DEF Spec, VerifyCatchesWrongTable, Inv

\* A root with one builder implements the all-or-nothing view: a consumer who
\* verifies sees no snapshot or one input's whole snapshot, and no step turns
\* one into another.
THEOREM StoreImplementsView == SoleBuilder => (Spec => ImplementsView)
<1> SUFFICES ASSUME SoleBuilder PROVE Spec => ImplementsView
  OBVIOUS
<1> DEFINE Ids == {SnapshotOf(i) : i \in Inputs}
<1>1. Init => View!Init
  BY DEF Init, View!Init, VerifiedNow, Intact, Loadable
<1>2. Inv => VerifiedNow \in Ids \cup {Absent}
  BY IdOfManifest DEF Inv, SoleBuilderInv, VerifiedNow, Intact
<1>3. Inv /\ Inv' /\ [Next]_vars => [View!Next]_VerifiedNow
  <2> SUFFICES ASSUME Inv, Inv', [Next]_vars PROVE [View!Next]_VerifiedNow
    OBVIOUS
  <2>1. manifest' = manifest \/ ~Loadable' \/ ~Loadable
    <3>1. ASSUME NEW b \in Builders, FinishSeal(b) PROVE ~Loadable
      BY <3>1 DEF FinishSeal, At, Inv, SoleBuilderInv, BuildInv, Loadable
    <3> QED
      BY <3>1 DEF Next, vars, BuilderStep, Start, Refuse, BeginWrite, FinishWrite,
             TakeReceipt, ReadBack, BeginSeal, Crash, Open, Read, Close,
             BeginVerify, VerifyEntry, Damage, store, Loadable
  <2>2. VerifiedNow \in Ids \cup {Absent}
    BY <1>2
  <2>3. VerifiedNow' \in Ids \cup {Absent}
    BY IdOfManifest DEF Inv, SoleBuilderInv, VerifiedNow, Intact
  <2>4. VerifiedNow' = VerifiedNow \/ VerifiedNow = Absent \/ VerifiedNow' = Absent
    BY <2>1 DEF VerifiedNow, Intact
  <2> QED
    BY <2>2, <2>3, <2>4 DEF View!Next, View!Publish, View!Withdraw
<1> QED
  BY <1>1, <1>3, TypeCorrect, SoleBuilderInvariant, PTL DEF Spec, ImplementsView, View!Spec, Inv

-----------------------------------------------------------------------------
(* Any number of builders.                                                 *)

\* An entry whose contract checks passed, and which is the input's own table
\* unless it is made of trades read back.
OwnEntry(e, i) == /\ e.table \notin Rejected
                  /\ e.path[1] # "bar" => e.table = TableOf(e.path[1], i)

OwnReceipts(b) ==
    /\ \A e \in builder[b].receipts : OwnEntry(e, builder[b].input)
    /\ builder[b].pc \in {"write", "hash"} => Current(b) \notin Rejected

OwnInv == /\ \A b \in Builders : builder[b].pc # "idle" => OwnReceipts(b)
          /\ ContentHashesAreOwn

LEMMA StepKeepsOwn ==
    ASSUME TypeOK, OwnInv, NEW b \in Builders,
           BuilderStep(b) \/ Crash(b)
               \/ \E i \in Inputs, enc \in Encodings : Start(b, i, enc)
    PROVE  OwnInv'
<1> USE DEF At
<1>a. builder[b].pc # "idle" => /\ builder[b] \in Building
                               /\ OwnReceipts(b)
                               /\ builder[b].kind \in Kinds
  BY RunningBuilder DEF OwnInv, Building
<1>b. b \in DOMAIN builder /\ builder \in [Builders -> Building \cup {Idle}]
  BY DEF TypeOK
<1>c. ASSUME NEW c \in Builders, c # b, builder'[c].pc # "idle"
      PROVE  OwnReceipts(c)'
  <2>1. builder'[c] = builder[c]
    BY <1>b, <1>c DEF BuilderStep, Start, Refuse, BeginWrite, FinishWrite, TakeReceipt,
           ReadBack, BeginSeal, FinishSeal, Crash
  <2> QED
    BY <1>c, <2>1 DEF OwnInv, OwnReceipts, Current
<1>1. ASSUME NEW i \in Inputs, NEW enc \in Encodings, Start(b, i, enc) PROVE OwnInv'
  <2>1. builder'[b] = [pc |-> "check", kind |-> "trade", input |-> i, enc |-> enc,
                       receipts |-> {}, trades |-> Normalized("trade", i)]
    BY <1>1, <1>b DEF Start
  <2> QED
    BY <1>1, <1>c, <2>1 DEF Start, OwnInv, OwnReceipts, ContentHashesAreOwn
<1>2. ASSUME builder'[b] = Idle, sealed' = sealed PROVE OwnInv'
  BY <1>2, <1>c DEF OwnInv, ContentHashesAreOwn, Idle
<1>3. ASSUME builder'[b].receipts = builder[b].receipts,
             builder'[b].input = builder[b].input,
             builder'[b].pc \in {"write", "hash"} => Current(b)' \notin Rejected,
             builder[b].pc # "idle", sealed' = sealed
      PROVE  OwnInv'
  BY <1>3, <1>a, <1>c DEF OwnInv, OwnReceipts, ContentHashesAreOwn
<1>4. CASE Refuse(b)
  BY <1>4, <1>2, <1>b DEF Refuse
<1>5. CASE BeginWrite(b)
  <2>1. builder'[b] = [builder[b] EXCEPT !.pc = "write"] /\ builder[b].pc = "check"
    BY <1>5, <1>b DEF BeginWrite
  <2>2. /\ builder'[b].receipts = builder[b].receipts
        /\ builder'[b].input = builder[b].input /\ Current(b)' = Current(b)
    BY <2>1, <1>a DEF Building, Current
  <2> QED
    BY <1>5, <1>3, <2>1, <2>2 DEF BeginWrite
<1>6. CASE FinishWrite(b)
  <2>1. builder'[b] = [builder[b] EXCEPT !.pc = "hash"] /\ builder[b].pc = "write"
    BY <1>6, <1>b DEF FinishWrite
  <2>2. /\ builder'[b].receipts = builder[b].receipts
        /\ builder'[b].input = builder[b].input /\ Current(b)' = Current(b)
    BY <2>1, <1>a DEF Building, Current
  <2> QED
    BY <1>6, <1>a, <1>3, <2>1, <2>2 DEF FinishWrite, OwnReceipts
<1>7. CASE TakeReceipt(b)
  <2> DEFINE entry == Receipt(b)
  <2>1. builder[b].pc = "hash" /\ Current(b) \notin Rejected /\ sealed' = sealed
    BY <1>7, <1>a DEF TakeReceipt, OwnReceipts
  <2>2. entry.path[1] = builder[b].kind /\ entry.table = Current(b)
    BY DEF Receipt, Target, PathOf
  <2>3. OwnEntry(entry, builder[b].input)
    BY <2>1, <2>2 DEF OwnEntry, Current, TableOf
  <2> HIDE DEF entry
  <2>4. \E next \in [pc : {"check", "readback", "seal"}, kind : Kinds] :
            builder'[b] = [builder[b] EXCEPT !.receipts = @ \cup {entry},
                                             !.pc = next.pc, !.kind = next.kind]
    <3> DEFINE nxt == AfterReceipt(builder[b].kind)
    <3>1. nxt \in [pc : {"check", "readback", "seal"}, kind : Kinds]
      BY <1>a, <2>1 DEF Kinds, AfterReceipt
    <3>2. builder'[b] = [builder[b] EXCEPT !.receipts = @ \cup {entry},
                                           !.pc = nxt.pc, !.kind = nxt.kind]
      BY <1>7, <1>b DEF TakeReceipt, entry
    <3> QED
      BY <3>1, <3>2
  <2>5. /\ builder'[b].receipts = builder[b].receipts \cup {entry}
        /\ builder'[b].input = builder[b].input
        /\ builder'[b].pc \in {"check", "readback", "seal"}
    BY <1>a, <2>1, <2>4 DEF Building
  <2> QED
    BY <1>a, <1>c, <2>1, <2>3, <2>5 DEF OwnInv, OwnReceipts, ContentHashesAreOwn
<1>8. CASE ReadBack(b)
  <2> DEFINE trades == files[PathOf("trade", builder[b].input)]
  <2>1. builder[b].pc = "readback" /\ sealed' = sealed
    BY <1>8 DEF ReadBack
  <2>2. CASE trades \in Bytes
    <3>1. builder'[b] = [builder[b] EXCEPT !.pc = "check", !.kind = "bar",
                                           !.trades = trades.table]
      BY <1>8, <1>b, <2>2 DEF ReadBack, TradesOnDisk, WithTrades
    <3> QED
      BY <1>a, <1>3, <2>1, <3>1 DEF Building
  <2>3. CASE trades \notin Bytes
    <3>1. builder'[b] = Idle
      BY <1>8, <1>b, <2>3 DEF ReadBack, TradesOnDisk
    <3> QED
      BY <1>2, <2>1, <3>1
  <2> QED
    BY <2>2, <2>3
<1>9. CASE BeginSeal(b)
  <2>1. builder'[b] = [builder[b] EXCEPT !.pc = "sealing"] /\ builder[b].pc = "seal"
    BY <1>9, <1>b DEF BeginSeal
  <2> QED
    BY <1>9, <1>a, <1>3, <2>1 DEF BeginSeal, Building
<1>10. CASE FinishSeal(b)
  <2>1. builder'[b] = Idle /\ OwnReceipts(b)
    BY <1>10, <1>a, <1>b DEF FinishSeal
  <2>2. ContentHashesAreOwn'
    BY <1>10, <2>1 DEF FinishSeal, OwnInv, OwnReceipts, OwnEntry, ContentHashesAreOwn
  <2> QED
    BY <1>c, <2>1, <2>2 DEF OwnInv, Idle
<1>11. CASE Crash(b)
  BY <1>11, <1>2, <1>b DEF Crash
<1> QED
  BY <1>1, <1>4, <1>5, <1>6, <1>7, <1>8, <1>9, <1>10, <1>11 DEF BuilderStep

\* However many builds share a root, the trade and quote contents a manifest
\* names are its own input's and were checked before they were written.
THEOREM OwnContentHashes == Spec => []ContentHashesAreOwn
<1>1. Init => OwnInv
  BY DEF Init, OwnInv, ContentHashesAreOwn, Idle
<1>2. TypeOK /\ OwnInv /\ [Next]_vars => OwnInv'
  <2> SUFFICES ASSUME TypeOK, OwnInv, [Next]_vars PROVE OwnInv'
    OBVIOUS
  <2>1. ASSUME UNCHANGED <<builder, sealed>> PROVE OwnInv'
    BY <2>1 DEF OwnInv, OwnReceipts, Current, ContentHashesAreOwn
  <2> QED
    BY <2>1, StepKeepsOwn DEF Next, vars, Open, Read, Close, BeginVerify, VerifyEntry,
           Damage
<1>3. OwnInv => ContentHashesAreOwn
  BY DEF OwnInv
<1> QED
  BY <1>1, <1>2, <1>3, TypeCorrect, PTL DEF Spec
=============================================================================
