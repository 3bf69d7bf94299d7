# TLA+ models of the trading system's data layer

The repository is the first stage of a larger trading system. What it implements
is the data layer: contracts for every table, a pipeline that turns raw market
data into a sealed snapshot, a reader that replays from one, a migration applier
for the operational database, and the tools that keep the declared contracts and
their checked-in lock in step. Brokers, orders, risk, features and backtests are
packages with one docstring each, but the tables, the checks and the arithmetic that
they will share are there: the order event log and the experiment table, the operating
states, exact money, the determinism envelope.

The modules here model the parts of that layer that keep state across steps, that
several processes share, or that must survive a killed process, and the rules that the
planned packages will have to live by. Paths are given
below `src/`; `schemas/`, `market_data/`, `memory/` and `runtime/` stand for
`packages/<p>/src/trading/<p>/`.

## 1. The system

| Component | State | Operations | Works with |
|---|---|---|---|
| Snapshot pipeline `market_data/pipeline.py`, `snapshot/builder.py`, `schemas/documents.py`, `apps/cli` | the files below one root, `manifest.json`, the locals of a run | `run`: normalize and write trades, then quotes; read the trades back; write the bars; build and write the manifest | writes through the contract writer, read by readers and verifiers |
| Snapshot reader and verification `snapshot/reader.py`, `builder.verify_snapshot` | a manifest held in memory, the entries checked so far | `load_manifest`, `read`, `read_contract`, `verify_snapshot` | shares the root with builders, without a lock |
| Contract writer and reader `schemas/io.py` | a file per path | `write_contract_table`: check, write in place, hash; `read_contract_table` | contracts from the registry |
| Migration applier `memory/migrate.py`, `infra/migrations/0000_*.sql` | files of `infra/migrations`, ledger `schema_migration`, the schema | `discover`, `applied_migrations`, `pending`, `apply` | PostgreSQL; callers own the commit |
| Contract registry `schemas/registry.py`, `spec.py`, `tools/schema_registry.py` | declared contracts, the kind-to-Arrow mapping, the lock file with its history of breaks | register, `check`, `--accept`, `--break-frozen` | every file written and read |
| Normalizer `normalize.py`, `alpaca_raw.py` | none | raw lines to rows with ordering key, knowledge time and instrument | ordering, money, reference data |
| Bar builder `bars.py` | none | rows to windows, VWAP, completeness | the rows of one trade file |
| Ordering `ordering.py`, money `money.py`, time `time.py`, tickers `instrument.py`, `reference.py`, canonical JSON | none | pure functions | all of the above |
| Operating state `operating_state.py` | one of seven modes | `require_transition_allowed` | nothing calls it yet |
| Order event log `0002_order_event.sql`, columns in `execution.py` | the table `order_event` | its checks and unique keys: no code writes it yet | broker adapters, accounting |
| Experiment table `0001_experiment_registry.sql` | one row per trial | its checks and its key | the determinism envelope, snapshots |
| Determinism `runtime/` | process environment, lock file, named streams | `require_deterministic_environment`, `container_identity`, `compute_environment_fingerprint`, `SeedEnvelope.stream` | experiment rows |
| Tools, generated models, CI, images | none | source generation and scanning | the source tree |

### Interactions

`run` calls the contract writer three times and then writes the manifest. The
only thing builders and consumers share is the directory: a consumer that opened a
snapshot holds the manifest it loaded, and goes to the files one at a time, later.
The reader takes the contract to validate against from the registry as it is
declared now. The applier and the database share the ledger with other appliers;
the migration directory is edited by developers between, and during, runs. The
lock file is the only memory the registry has of what earlier trees declared.

### What is hard

* **Writes in place.** No lock, temporary file or rename: a build that dies, or is
  refused by the writer on its third table, has already replaced files that an
  older manifest lists. Two builds into one root write the same paths.
* **State read at one time and used at another.** The file hash of a receipt is
  read back from the path while its content hash comes from memory; bars are made
  from what the trade path holds at read-back; a reader's manifest can be older than
  the files; the applier works from files and ledger rows it read before.
* **Who owns the commit.** `apply` never begins or commits, so the caller's
  autocommit setting decides what a dead applier leaves.
* **Long histories.** The lock must tell of every break of a frozen contract
  through any sequence of edits, promotions, version bumps and accepts.
* **Numeric edges and order** in the pure functions: half-open windows and
  assignments, ties in the ordering key, rounding by sign, the storable bound, fractions
  of a second and offsets.
* **Redelivery.** Brokers report late, twice, in any order and under several identities,
  by clocks that are not ours; the keys of the log must drop repeats and nothing else.
* **What was read when.** The environment is compared as it is, not as the interpreter and
  the libraries read it; a fingerprint hashes what was locked, not what is installed.

### What makes each part correct

* Snapshot: a manifest that can be loaded is that of one build; it appears only
  when its files are in place; verification reports every wrong file; a snapshot's
  identity does not depend on the parquet writer; a build after a crash succeeds.
* Migrations: the ledger says what the schema is; once it has a version, no text of that version
  runs again; a script finds the tables of the lower-numbered files of
  its checkout; a run that is not killed completes.
* Registry: nothing drifts unreported; a frozen version keeps the shape its files
  were written in, or the lock says why not; the history is never rewritten.
* Rows: a strict total order that replay does not change, every print at its instant, under
  its instrument and in one bar, nothing known before it happened, a complete bar is final.
* Account: an execution is counted and charged once, the position in
  an instrument is the broker's own, rounding neither makes nor loses money nor favours us, no capital state is reached.
* Experiments: trials of a family are numbered without a gap; rows that refer to the same
  data, code, environment, configuration, specification and seed have the same result.

## 2. Modules

| Module | What it is |
|---|---|
| `SnapshotStore` | root, builders, readers, verifiers, crashes, damage at rest |
| `VerifiedView` | the abstract specification of a root: what a verifying consumer sees |
| `SnapshotStoreProofs` | theorems about `SnapshotStore` |
| `Migrations` | migration directory, appliers, transactions, ledger |
| `MigrationsProofs` | theorems about `Migrations` |
| `ContractRegistry` | declarations, lock, accepts, files written and read |
| `ContractRegistryProofs` | theorems about `ContractRegistry` |
| `RawPartition` | the rows of one trade partition: capture, normalization, row checks, bars |
| `RawPartitionProofs` | theorems about `RawPartition` |
| `Time` | instants and time stamps, used by `RawPartition` |
| `Money` | storable amounts and rounding, used by `RawPartition` and `PaperAccount` |
| `MoneyProofs` | theorems about `Money` |
| `OrderEventLog` | brokers, adapter, the keys of the order event log, fills and positions |
| `Executions` | the abstract specification of the log: a set of executions that are counted once |
| `OperatingState` | the operating states and their check |
| `PaperAccount` | the composition of the three above: an account with a ledger |
| `PaperAccountProofs` | theorems about `PaperAccount` |
| `CanonicalJson` | what the frozen encoder makes of a document |
| `Experiments` | processes, their environment and build, random streams, rows of the experiment table |
| `ExperimentsProofs` | theorems about `Experiments` |
| `FiniteSums` | lemmas about sums, least elements and sizes of finite sets, for the proofs about rows and accounts |
| `MCSnapshotStore`, `MCMigrations`, `MCContractRegistry`, `MCRawPartition`, `MCPaperAccount`, `MCExperiments` | small instances for TLC |

### SnapshotStore

`files` maps the three paths per session date to what they hold: the bytes of one
table in one writer's encoding, nothing (`Absent`), a truncated file (`Partial`), or
interleaved bytes of two writers (`Mixed`). `manifest` is `manifest.json`, with the
same damaged states. A table is a model value and stands for its `content_sha256`;
a table with an encoding stands for its `file_sha256`. `builder[b].pc` is where a run
is:

| `pc` | Code | Action |
|---|---|---|
| `idle` | before and after `run` | `Start` |
| `check` | the checks of `write_contract_table` | `Refuse`, or `BeginWrite`, which truncates the path |
| `write` | `pq.write_table` | `FinishWrite` |
| `hash` | the `WriteReceipt` | `TakeReceipt` |
| `readback` | `_bars_from` | `ReadBack` |
| `seal`, `sealing` | `build_manifest`, `write_manifest` | `BeginSeal`, `FinishSeal` |

Everything `run` does in memory between two file operations belongs to the next
file operation. `Crash` ends a run anywhere and cleans nothing up. The writer's row
checks, and an exception while a table is computed, are the set `Rejected`.
`Interfered` says when two writes to one path may mix. Readers hold a manifest
and read entries one at a time (`Open`, `Read`, `Close`), a verifier walks the
manifest in its path order (`BeginVerify`, `VerifyEntry`). `sealed` is a history
variable; no action reads it.

A manifest is its set of file entries. Its other fields (calendar version and the
like) come from the arguments of `run`, distinguish no state here, and are left out.
A file that is damaged is damaged when no build runs.

### VerifiedView

A consumer who verifies before reading sees nothing or one whole snapshot, and two
different snapshots have a moment of nothing between them. `SnapshotStore` is
compared with it through `VerifiedNow`: the identity of the manifest if it can be
loaded and every listed file has the listed bytes, otherwise nothing.

### Migrations

`repo` is the directory, a set of `<<version, text>>`; `tables` the scripts whose DDL
is committed; `ledger` the committed rows. An applier is at `query` after `discover`
(the two error paths of `discover` that leave no state are not enabled), at `ddl`
before a script, at `row` between a script and its `INSERT`, at `commit` when `apply`
has returned. `Creates` says which objects the script of a file makes: it belongs to the text, so two texts of
one version may make the same objects or others, and two versions may collide. `Execute` runs whatever the
file says, as `migrate.py:166` does. With `Autocommit` each statement takes effect at once; without it,
`ddl` and `rows` of the applier are its open transaction, lost by `Crash` or an error.
PostgreSQL is external: a script is atomic, creating an object that exists is an
error, creating one that another open transaction creates waits for it (`Awaits`), so does inserting a
version that another one has inserted, of two that wait for each other (`Deadlocked`) it ends one, the version
is the ledger's primary key. `AddFile`, `RemoveFile`, `EditFile` happen at any time.

### ContractRegistry

`declared` is what the source declares, `lock` what the checked-in file says, `emitter`
the hash of the kind-to-Arrow mapping. A shape is a whole field list; `Columns` is the
part of it that Arrow sees. A contract's hash covers version, maturity and shape.
`Reviewed` is `check` without findings; `Accept` is `--accept`, refused without a reason when
a frozen contract changed. `WriteFile` is a build of a tree that passes `make verify`.
A lock file that is missing is the initial `EmptyLock`; one deleted later is not modelled.

### RawPartition, Time

Where `SnapshotStore` has tables as model values, this module says what a table of trades
or bars is. `raw` is the partition: files in name order, each a sequence of records. It
only grows: a capture appends to the newest file or starts another (`Receive`,
`Rotate`; the capture is not in the repository, and `assign_ingest_index` states this
of it). `Build(ctx)` is the whole of `run` on what has been captured, for any of the settings in
`Contexts`: every record is parsed and normalized (`AllReadable`, `Normalized`), then come the
writer's checks (`TotallyOrdered`, `TimesChecked`, `MoneyChecked`), `Bars`, and the check of the
bars. It is not enabled when the code would raise. `sealed` holds what the last build that
succeeded wrote. The two modules share the order of steps of `run` and nothing else; a build
that raises here is one of the `Rejected` inputs there.

A record has the stamp that the venue wrote and, beside it, the `instant` that it meant, which no
code sees. A stamp is the fields of a local time (as seconds, since the calendar is
`calendar.timegm`), the digits of a fraction and an offset; `ParseRfc3339` is exact integer
arithmetic on them. `Denotes` is, beside it, what RFC 3339 says that a text means, without padding or a
case for the sign of the arithmetic; the venue is assumed to write the instant it means (`StampsDenote`). A price is a rational, from which `Dollars` makes nano-dollars and which `IsDollars`
refuses below one. The exact product stands for a Decimal one that the code rounds at the context's 28
digits: it is the same for any amount within 2^62 whose text has up to 28 digits. Sizes are
naturals, as the specification asks of them (`docs/specification/spec.txt:162`); the code only applies
`int()` (`alpaca_raw.py:107`), so a negative size is not refused there and is not modelled.
A partition holds the prints of several tickers: no raw path names one.

Rows are a set because a table is its rows in key order and no two keys are the same
when the writer accepts it. Left out: source rank and venue sequence, the same for all
trades; the `announcement` policy, which the normalizer treats as `backfill`; quotes, which
take the same path and feed nothing.

### Money, OrderEventLog, OperatingState, PaperAccount

`Money` is `money.py` operator by operator: `RoundAgainstUs` returns the value and the
remainder, a numerator over the denominator of the exact amount. `narrow` is the predicate
`Storable`, a guard of whoever stores. The word width is the constant `StorableMax`.

`OrderEventLog` is the table: `Checked` its two checks, `Conflicts` its three unique keys.
The world around it is external and as free as can be: a broker reports what it likes in any order
(`Happen`), by a clock up to `Skew` ahead of ours; what it has reported stays deliverable for ever,
which is loss, duplication, delay and reordering at once. The adapter inserts (`Store`), or
takes a violated key for an event it has (`Repeat`); a violated check is an error that leaves nothing: for an event stamped ahead of our clock
until time has passed, for a fill without an execution id for ever (`0002_order_event.sql:53-55`). `answered` is
what it then believes to be logged. `Position` is the signed sum of the logged fills of an account in an instrument, as the contract
`execution.position` says of itself.

`OperatingState` has an operator who checks a target and enters it in a second step, since
`require_transition_allowed` changes nothing, and a monitor that trips into `SAFE` between the two.
`PaperAccount` puts these together: storing a fill charges each cost component through
`ApplyRate` and carries the remainder, as `RoundedMoney` asks of accounting; repeats charge nothing.

### Experiments, CanonicalJson

`Experiments` follows a process from its start to a result. At its start the interpreter reads
some pinned variables and at the import of `trading.runtime` numpy reads the others
(`Start`, `Import`); a variable that is unset leaves any value in use. `Write` is a process that writes
`os.environ` late, `Check` is `require_deterministic_environment`. The row is made of
`container_identity` (`Identified`), `Fingerprint`, the hash of the document, the commit, the seed and the
three versions that are pinned before the run (gate policy, cost model, risk policy), and inserted in a
transaction that read the family's count before (`Take`, then `Insert` or `Conflict`): the
comment on the key demands an index that two racing experiments cannot share, and it is the key, not
the isolation level, that keeps them apart here. No code allocates an index: that it is one more than the
count (`TrialIndex`) is the rule of the plan (`docs/IMPLEMENTATION_PLAN.md:176`; the example of
`spec.txt:542` has index 37 at a count of 36). The table asks for an integer that the family has not used, and
its integration test inserts index 0 (`test_postgres_schema.py:263`).
A setup has the code that runs beside the commit that is recorded, because nothing compares them. `Draw` hands out named streams in any order.
No runner exists yet: the order of the steps is the one that the docstrings ask for.

`CanonicalJson` has the one thing about the encoding that a document's hash depends on: strings, keys included,
are brought to normal form, and of two keys that become one the last in code point order is kept. The
hash is injective on what is encoded.

## 3. Runs

TLC explores every state of each passing run.

| Run | Instance | Shows |
|---|---|---|
| `SnapshotSolo` | 1 builder, 1 consumer, 4 inputs, 2 encodings, 2 builds, 1 crash, 1 damage | one undisturbed build per manifest, sealed only when intact, verification sound, implements `VerifiedView`, a build after a crash seals |
| `SnapshotPair` | 2 builders in one root, 2 builds, 1 crash | content hashes of trades and quotes stay a build's own; both builds end |
| `MigrateTransaction` | 2 appliers, one transaction each, 3 numbers, 2 texts, 3 edits, 1 crash | ledger equals schema in every state; prerequisites are there; runs complete |
| `MigrateAutocommit` | 1 applier, autocommit, 3 edits, 1 crash | a row means its text was applied; no text of a recorded version runs again; nothing is applied on a drifted schema |
| `RegistryForward` | 2 contracts, 2 versions, 2 shapes, 2 mappings, 3 accepts, 1 file | frozen shapes kept or their break recorded, no silent drift, history append-only |
| `PartitionReplay` | 12 records of 2 tickers, 3 per partition in 2 files, windows of 2 s, 5 settings | order survives replay, a backfill is writable, instants and instruments are right, bars partition prints, nothing known early, complete bars stand |
| `AccountReconciles` | 2 accounts, 2 instruments, 6 events, 3 executions, 2 cost components, the 7 states | every execution counted and charged once, positions reconcile, an acceptable event arrives and a refused one stands in nobody's way, capital unreachable |
| `ReproducibleRuns` | 2 processes, 7 setups, 6 plans, 2 pinned variables, 2 streams | trials without gaps, equal references mean equal results, specifications told apart |
| `AsWasReads`, `OneTransactionPerFile`, `LockedFrozenIsBreak`, `ReadUnderItsContract` | the smallest instance each | a statement of the code's text that the code does not keep: section 6 |

### Bounds

`MaxBuilds` = 2: what goes wrong in a root goes wrong between one build and the next, or
between two at once; the second build starts from every state the first can leave,
killed, refused or damaged. The four inputs are a day, the same day
with revised prices and as many rows (the case row counts miss), another day
(other paths, same manifest), and a capture whose bars are refused after its trades
and quotes are on disk. Two encodings tell a revised table from a reserialized one. The readers
are left out of `SnapshotPair`, which asks only about builders.

Versions 0 to 2 with file 0 at the start leave one to add on top and, once 2 is applied, one to slip in
below. Two texts are enough for a file to differ from what was
applied: those of version 0 make the same object, those of version 1 different ones, and one text of
version 2 makes what a text of version 1 makes, so an edited file that is applied again fails or runs, as its text
has it. Three edits allow add, edit and add again. The autocommit run has one applier, because `RecordedStands` and
`NoDriftedApply` are false of two; that `RowMeansApplied` holds of any number is a theorem. One crash suffices because a dead
applier leaves only what it committed.

Three accepts allow lock, break and a further change; two contracts show that a
break of one is not taken for the other's; one file is enough since each file is
judged alone. Shapes, versions and mappings are two each, the fewest that differ.

`MaxRecords` = 3 in `MaxFiles` = 2 files is the least that has a file boundary with records on
both sides and one captured after a build. The records have the cases that differ: two
that tie in time with a sequence the other way round, two that tie without one, a
print before the open, one of size zero, one stamped with the epoch that is not eligible, one in a zone
ahead of UTC and one behind, fractions of no, one and two digits, hand-overs of a ticker inside a window and on its
edge, a second ticker in the same windows and at an instant where nobody holds it, a stamp without an offset, a price below the smallest unit. A second
has a hundred instants (`Digits` = 2). The settings lie at the end of a window and after all of them, so
bars are complete and not, live captures accepted and refused; one has its times in the wrong order.

The six events of `AccountReconciles` are two partial fills of one order at one instant, the first of
them again from a source that has no sequence numbers and another event id, a fill of another
account with the same ids, a fill in another instrument that has no execution id and is refused for ever, and an
unsolicited cancellation. One tick of the clock and a skew of one let a
report arrive before its event is in our past. The rates leave a rest of each fill, on a cost and on a credit.

The seven setups are an image, the same built again, one of the same lock and another commit, one of another lock, one
of a changed working tree, a container without a digest and a
host with stale libraries; one variable of either kind is pinned or unset; the plans spell one document in two ways,
one key twice, differ in kind, differ in the cost model only, or hold a float. The two processes are symmetric: no property names one.

`CHECK_DEADLOCK FALSE` is set where the system does come to rest: builds,
edits and accepts are bounded, and an idle system with the bounds spent is finished; a
full partition with a record that does not resolve can never be built; each process runs one experiment.
`AccountReconciles` is checked for deadlock: a report can always be repeated.

### Fairness

`FairSpec` assumes that a builder that can take its next step eventually does, and the
same of an applier: the process keeps running unless it is killed, which the
bounded `Crash` allows. No step of `run` waits for another process. `apply` waits only
for a transaction creating the same object or inserting the same version; that transaction ends
because its own applier is fair, and of two that wait for each other the database ends one, after its
`deadlock_timeout`. Nothing is assumed of readers, of edits, or that a
build or an apply is started.

`PaperAccount` assumes that our clock goes on and that a report is delivered again as long as that changes anything: a
reconnect asks for what is missing. `EventsArrive` then says that no acceptable event violates a check for ever, whatever
clock it was stamped by and whatever else was refused. `Acceptable` leaves out fills without an execution id, which the
table refuses for ever (`0002_order_event.sql:53-55`, `test_postgres_schema.py:180-186`), and charges that cannot be
stored. Nothing is assumed of the brokers, nor of the operator and the monitor.

`ApplyCompletes` has conditions the code needs: the directory has come to rest
with the migration that makes the ledger first and no two files that make one object, every running
applier read these files, and there is no
drift. `BuildSeals` asks only that the input's tables pass the writer.

## 4. Proofs

TLAPS proves these for every value of the constants that satisfies the named
assumptions of the modules.

| Theorem | Of | Under |
|---|---|---|
| `TypeCorrect` (three) | the type invariants of `SnapshotStore`, `Migrations`, `ContractRegistry` | |
| `SoleBuilderInvariant` | `SoleBuilderInv` | `SoleBuilder` |
| `SealedIdentity` | `SealedIsOneBuild` | `SoleBuilder` |
| `SealedWhenIntact` | `SealsIntact` | `SoleBuilder` |
| `VerifyIsSound` | `VerifyCatchesWrongTable` | `SoleBuilder` |
| `StoreImplementsView` | `ImplementsView`, the refinement | `SoleBuilder` |
| `OwnContentHashes` | `ContentHashesAreOwn` | any number of builders |
| `LedgerIsSchema` | `LedgerDescribesSchema` | `~Autocommit` |
| `RowsMeanApplied` | `RowMeansApplied` | either boundary, any number of appliers |
| `RecordedVersionsStand` | `RecordedStands` | `SoleApplier`, or one transaction |
| `PrerequisitesAreApplied` | `PrerequisitesApplied` | either boundary, any number of appliers |
| `DriftIsRefused` | `NoDriftedApply` | `SoleApplier`, either boundary |
| `DriftIsReported` | `NoSilentDrift` | |
| `BreaksAreKept` | `BreaksAppendOnly` | |
| `FrozenIsKept` | `FrozenShapesKept` | `Forward` |
| `BarsAreKnownAfterPrints` | `BarsKnownAfterPrints` | any records, window, lag and policy |
| `InstrumentsAreOfTheirTime` | `InstrumentOfItsTime` | `HistoryIsWellFormed` |
| `ReplayIsStable` | `ReplayKeepsOrder` | any records, however they are cut into files |
| `OrderIsTotal` | the ordering check accepts every partition that can be read | the same |
| `DisjointHistoryResolves` | at most one holder of a ticker at an instant | a history without overlaps |
| `RoundingIsExact`, `RoundingIsAgainstUs` | what each rounding returns | any rational, any bound |
| `OneAdditionFits`, `NoRoomAtTheBound` | when two storable amounts add up within the word | any bound |
| `BarsArePartition` | `BarsPartitionPrints` | any records, windows before the open, any settings |
| `BackfillIsAccepted` | `BackfillIsWritable` | the same |
| `CompleteStands` | `CompleteBarsStand` | the same |
| `ParsingIsLossless` | a text is parsed to the instant it denotes | any number of digits, any offset |
| `InstantsAreKept` | `PrintsAtTheirInstants` | `StampsDenote` |
| `TypeCorrect` (three more) | the type invariants of `RawPartition`, `PaperAccount` and `Experiments` | |
| `NegativeCostFavoursUs` | a negative cost is booked below its exact value | any negative rational that is not whole |
| `LedgerStaysExact` | `LedgerIsExact` | any rates, events and orders |
| `NeverInOurFavour` | `NeverOptimistic` | no rate is negative |
| `PositionsReconcile` | `PositionReconciles` | `BrokersIdentify`, `ReportsAgree` |
| `LogShadowsNothing` | `NothingIsShadowed` | any events of brokers that identify them (`BrokersIdentify`) |
| `LogCountsOnce` | `CountsOnce`, the refinement | the same |
| `CapitalStaysOut` | `CapitalIsUnreachable` | |
| `ResultsAgree` | `Reproducible` | any workers, setups, plans and variables |
| `TrialsCounted` | `TrialsAreCounted` | the same |
| `SpecsTellApart` | `SpecsAreToldApart` | the same |

`SoleBuilder` says that at most one builder uses a root. It is the assumption that the code
makes and does not enforce: without it `SealsIntact` and `VerifyCatchesWrongTable` are false.

**Why the invariants are stronger than the properties.** That a sealed manifest is
intact when it appears is not inductive: one must know that the receipts a build
collected still describe the files, at every `pc`. `SoleBuilderInv` says so: the
receipts are those of the kinds done (`Done`), these files hold the receipts' bytes, the
file being written is truncated, and every manifest on disk, in the history or held
by a consumer is `ManifestOf` some input and encoding. The refinement then follows
because `BeginSeal` and `BeginWrite` withdraw the view and only `FinishSeal`, or the last
rewritten file of an identical rebuild, publishes one.

`OwnInv` drops everything about files, which is why it survives other builders: a
receipt's content hash comes from the table in memory.

`TransactionInv` adds that each open transaction, too, has as many rows as scripts,
except the one script at `row`. `RowInv` says of both boundaries that every row, committed or not, is of a text
that the connection sees, because the row about to be inserted is that of the script that ran. That a version has one row is `ApartInv`:
the rows of an open transaction have versions that neither the ledger nor another open transaction has, which the
primary key and the wait for it give, not the scripts. `RecordedVersionsStand` follows under
one transaction because the ledger is the schema and the second of two waits at the key, and of a sole applier because
what it has still to do is not in the ledger (`FreshInv`); of two autocommitting appliers it is false, for each may have read
another text of a version. Nothing is assumed of what scripts make: it may be the same, different or nothing at all. `CoverInv`
says that what an applier has still to do, and what it sees, together contain all
of its files, which makes the least of the rest safe to run. `DriftInv` says that, past its query, a call's
files contain every ledger row, and that no row exists before the ledger's own
migration, so that a query that takes the ledger to be empty is right. It needs
`SoleApplier`: a second applier with other files can write rows after the query.

`ForwardInv` relates three things over time: each file's contract lies behind the lock, the
lock behind the declaration, and where a frozen version changed its shape on the
way, a break was recorded after the file was written. `AheadIsTransitive` makes it
survive any number of edits between two accepts.

`KnownInv` adds only that the partition stays one of records. The argument is about one build:
every time lies in its own window (`OwnWindow`, where the floor of the division matters), so
under backfill the lag makes the bar later than each print; under live capture a print is known
when it was received, and the writer's check `knowledge = receive` on a bar, whose receive time
is the larger of the two, lets pass only bars known at or after that.

`ReplayInv` ties every stored row to a place of the partition (`OfPlace`), which it must, because the row
alone does not say which record it came from. An append adds one place after all others and a rotation none
(`ReceiveKeepsPlaces`, `RotateKeepsPlaces`), so the set that the index of an old place counts is the same
(`IndexStays`), and the next build makes the same key. That the index grows along the places (`IndexGrows`)
makes keys differ; both need that there are finitely many places, which is part of the invariant.

That a print is stored under the instrument that held its own ticker then (`InstrumentsAreOfTheirTime`) needs, beside
the place that a stored row comes from (`SealedInv`, below), two facts that code keeps apart:
`resolve_ticker` returns a holder (`ResolvedIsAHolder`), and in a history whose half-open assignments do not overlap the
holder is the one that began last (`CoveringIsLast`). The code checks the first and takes the second from its data.

`LogInv` says that an execution has at most one row and that every answered event has a row
of its own or of its execution. The conflict with the key then means what the adapter takes
it to mean: by `BrokersIdentify` a shared event id or sequence number is the same event, and a shared
execution id the same execution. The refinement follows because a stored fill meets no row of its execution (`StoreCounts`).

`OwnInv` relates each process to its row and its streams: what it uses of every variable is what the environment
had when it was read, unless it was written late; its row carries its own commit, fingerprint,
configuration, document and seed; its streams are those of its seed. Two finished processes then agree part
by part: the variables because the check passed, the libraries because an image
is built from its lock, the code because both checkouts were clean (`Done`, a hypothesis: the Dockerfile copies the
working tree, and nothing compares it with the commit), the specification because without colliding keys the encoding can be read
back (`EncodingTellsMeaning`, `HashIsMeaning`), the draws because a stream depends on seed and name alone. Numbering without gaps
is an induction on rows that only grow: the committed count is the next index exactly when the key is free.

**Sums, least rows and powers of ten** need induction over data, and the library states induction for a
predicate, which these provers cannot instantiate. It also states that the order of the naturals is
well-founded and that a non-empty set has a minimal element, and a set can be instantiated: so
`FiniteSums` has the least-number principle, from it induction over the subsets of a finite set and over the
numbers up to a bound, each for the set of those for which the claim holds. Every fact about sums comes from there: a sum does not
depend on the order of adding up (`SumTakesAny`), it is that of its parts (`SumOfParts`), of its image under a
one-to-one function (`SumOfImage`), or of the sums of the groups of a key (`SumByKey`); a strict total order of a
finite set has a first element (`OrderHasFirst`). That is why the models add up functions with
`SumFunction`, and why the powers of ten are a recursive function, `TenTo`.

`SealedInv` is the invariant of the rows and bars: the tables on disk are those of a build that found *some* places of
the partition, all readable, whose bars the writer took. It says nothing of when this was, which is why the capture may go
on without disturbing it (`SnapshotStays`). What remains are facts about one build. Prints of one
window make one bar and two windows are one or apart (`WindowsApart`), so grouping by the start of the window
is a partition and `SumByKey` counts the volume once. The average lies between the extremes because the sum does
(`SumIsMonotone`, `SumIsScaled`) and rounding a quotient between two integers stays between them.
A complete bar stands because a later print in its window would be, by the hypothesis, at or after an as-of time at which the
window had ended: both builds then group the records of the same places, and index, instrument, price and size of
a record do not depend on the build.

`LedgerInv` adds to exactness that each carry lies on the side of whoever pays
(`CarriesAreAgainstUs`), the difference between booked and exact. A step adds one row to the fills and its
cost to the sum (`SumAddsOne`), and `RoundingIsExact` moves as much from carry to booked. The hypothesis of
`NeverInOurFavour` is needed: away from zero is against us for a cost, in our favour for a negative one
(`NegativeCostFavoursUs`); `round_cost` does not refuse it, and its docstring gives rebates to `round_credit`.
`PositionsReconcile` maps the logged fills one to one onto what was answered, by what an execution
says: for this, reports of one execution must not contradict each other (`ReportsAgree`).

**Only model-checked.** Liveness (`BuildSeals`, `BuildEnds`, `ApplyCompletes`, `EventsArrive`) is out of the
prover's reach. Every other property of a passing run is also a theorem, of the specification with any
values of the constants; the runs show besides that hypotheses and guards are met, that
every action happens and that each property can be broken by a plausible mistake in the code.

## 5. Not modelled

* Quotes: the path of trades with other columns, and nothing reads them yet.
* Hashing (`documents.py`, `canonical_json.py`): a hash is taken to be injective on what it
  covers. Escapes and layout of JSON; containers nested in a document.
* Hypotheses, holdout accesses and the other tables of migration 0001: foreign keys and no code.
  That a hypothesis and its experiment are of one family is enforced by nothing.
* Detection of a container and of the process time zone; the command line's output, images, CI: I/O.
* `tools/` and the generated models: generators and scanners of source text, which keep no state
  beyond the files they are given.
* The contract declarations beyond the columns that the log and the account use, `market_events.py` and
  `features.py`, and what no code calls (`shares`, `format_usd`, `format_ns`, `require_plausible`,
  `BEFORE_ALL`, `AFTER_ALL`): data without an operation, or text.

## 6. Where code and text disagree

Each has a run whose counterexample TLC prints.

1. `AsWasReads`. `reader.py` promises as-was reads made structural; `read` compares schema and
   row count, not hashes, so after a rebuild of the root an open reader returns revised tables.
2. `OneTransactionPerFile`. `apply` says one transaction per file; under an autocommit
   connection, which the integration tests use, a crash between the script and its row leaves a
   schema the ledger does not know, and every later run fails on it.
3. `LockedFrozenIsBreak`. `--accept` takes "frozen" from the declaration, not from the lock; a
   contract declared provisional in the edit that changes its shape is accepted without a
   reason or a record.
4. `ReadUnderItsContract`. `read` says a file is validated against the contract it was written
   under; it uses the one declared now and compares Arrow schemas, which hold no units or
   codesets.

More differences have no run of their own:

* `verify_snapshot` says both hashes are checked (`builder.py:109`); it checks `file_sha256`. Two
  builds in one root can seal an entry whose hashes name different tables, and it passes; that is why
  `VerifyCatchesWrongTable` is claimed for one builder only.
* The plan keys "all partitioning and joins" on `instrument_id` (D6, `docs/IMPLEMENTATION_PLAN.md:59`); `build_bars`
  groups by window alone (`bars.py:110`) and takes the instrument of the first print. No raw path names a ticker,
  so a partition may have several, and a bar then mixes the instruments of whatever traded in its
  window. `BarsPartitionPrints` is about windows, not instruments.
* `encode` says it is "sensitive to every semantic change" (`canonical_json.py:62-63`); two keys that differ in normal
  form only become one, without an error, and the value of the other is lost. `SpecsAreToldApart` leaves such documents out.
* The storable range is said to be such that "a value which passed this check cannot overflow on one
  subsequent addition" (`money.py:50-52`); the bound is inclusive, and added to itself it does (`NoRoomAtTheBound`).
* The plausible band is said to be for any timestamp the system stores (`time.py:37`); the writer
  compares knowledge times with it, so under `live_capture` a print stamped with the epoch is stored.

Behaviours seen while modelling that contradict no text: a second build into a root
replaces the only manifest, so the first snapshot can no longer be loaded; with two
builders the bars of one may be made of the trades of the other; a migration slipped in
below an applied one is applied late, after higher numbers; a frozen contract that
is removed, accepted, and declared again with another shape is merely `ADDED`,
which is why `FrozenShapesKept` needs `Forward`. A backfill of prints within a window and the lag of the end of the
plausible band is refused, for their bar is known after the band ends. A rebate booked as a negative cost is rounded in our favour. A migration whose script ran under autocommit without its row
may be edited into one that makes other objects, which then runs as well: the schema has the objects of two texts of that
version and the ledger the later one. A variable written after numpy has read it passes
`require_deterministic_environment`, and on a host neither lock nor digest says what is
installed; `Reproducible` excludes both, and containers of a changed working tree. A request that was checked before a trip into `SAFE` can leave it again. A
broker that reuses sequence numbers after a reconnect, or an execution id for a correction, has its event dropped as a repeat.

## 7. Plan

Done, in this order: `SnapshotStore` with its abstract view, `Migrations` and `ContractRegistry`, because
their failures lose or corrupt data and because interleavings and crashes are what tests reach
least; `RawPartition`, the path of the rows, with `Time`; `Money`, `OrderEventLog` and `OperatingState`,
composed in `PaperAccount`; `CanonicalJson` and `Experiments`.

The theorems cover every safety and action property and both refinements.

Left:

1. Theorems about compositions: that the replay of a sealed snapshot, through the identity of
   `SnapshotStore`, is the rows of `RawPartition`.
2. Quotes in `RawPartition`, as a second kind of record with two prices.
3. Composition: `ContractRegistry` with `SnapshotStore`, contract versions carried by manifests;
   its properties replace those of `ReadUnderItsContract`'s instance. `Experiments` refers to snapshots by
   their identity, which `SealedIsOneBuild` is about.
4. When the planned packages exist: the adapter, the accounting, the operator and the runner of `PaperAccount` and
   `Experiments` translated from their code instead of from what the tables and docstrings say of them.
