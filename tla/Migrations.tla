----------------------------- MODULE Migrations -----------------------------
(***************************************************************************)
(* The forward-only migration applier (memory.migrate), the database it    *)
(* writes and the directory of migration files it reads.                   *)
(*                                                                         *)
(* apply never begins or commits a transaction: "the caller owns the       *)
(* connection and the commit boundary".  Autocommit chooses the boundary:  *)
(* the autocommit connection of the integration tests, where every         *)
(* statement is its own transaction, or one transaction around apply.      *)
(* The database is external and modelled by what apply relies on: a DDL    *)
(* script is atomic, it fails on an object that exists and waits for one   *)
(* that another open transaction is creating, the version is the primary   *)
(* key of the ledger, of two transactions that wait for each other one is  *)
(* ended, and a dead connection rolls back.  What a script makes belongs   *)
(* to its text: an edited file may make the same objects as before or      *)
(* others, and two files of different versions may make the same ones.     *)
(***************************************************************************)
EXTENDS Naturals, FiniteSets

CONSTANTS Appliers,
          Versions,        \* migration numbers
          Texts,           \* what a migration file can say
          Creates,         \* the objects that the script of a file makes
          LedgerTable,     \* the object schema_migration
          InitialFiles,    \* the migrations in the repository at the start
          NoMigration,
          Autocommit,      \* is every statement a transaction of its own?
          MayRewrite,      \* may files be edited, removed or slipped in below?
          MaxEdits, MaxCrashes

Files == Versions \X Texts

ASSUME VersionsAreNat == Versions \subseteq Nat
ASSUME ScriptsMakeObjects == DOMAIN Creates = Files
ASSUME InitialFilesType == InitialFiles \subseteq Files /\ NoMigration \notin Files
ASSUME ModesType == Autocommit \in BOOLEAN /\ MayRewrite \in BOOLEAN
ASSUME BoundsType == MaxEdits \in Nat /\ MaxCrashes \in Nat

VARIABLES repo,      \* the files of infra/migrations, <<version, text>>
          tables,    \* the migrations whose DDL has been committed
          ledger,    \* the committed rows of schema_migration
          applier,   \* the local state of each call of apply
          edits, crashes

vars == <<repo, tables, ledger, applier, edits, crashes>>

Idle == [pc |-> "idle", ddl |-> {}, rows |-> {}]
Discovered == [pc : {"query"}, files : SUBSET Files, ddl : {{}}, rows : {{}}]
Applying == [pc : {"ddl"}, files : SUBSET Files, todo : (SUBSET Files) \ {{}},
             migration : Files \cup {NoMigration},
             ddl : SUBSET Files, rows : SUBSET Files]
Recording == [pc : {"row"}, files : SUBSET Files, todo : (SUBSET Files) \ {{}},
              migration : Files, ddl : SUBSET Files, rows : SUBSET Files]
Returned == [pc : {"commit"}, files : SUBSET Files, todo : {{}}, migration : Files,
             ddl : SUBSET Files, rows : SUBSET Files]

States == {Idle} \cup Discovered \cup Applying \cup Recording \cup Returned

TypeOK ==
    /\ repo \subseteq Files /\ tables \subseteq Files /\ ledger \subseteq Files
    /\ applier \in [Appliers -> States]
    /\ edits \in 0..MaxEdits /\ crashes \in 0..MaxCrashes

Init ==
    /\ repo = InitialFiles
    /\ tables = {} /\ ledger = {}
    /\ applier = [a \in Appliers |-> Idle]
    /\ edits = 0 /\ crashes = 0

At(a, pc) == applier[a].pc = pc
Has(S, v) == \E m \in S : m[1] = v

\* The objects that the scripts of these files make.
Makes(S) == UNION {Creates[m] : m \in S}

\* Mutant: the pending migrations are not sorted.
Unsorted(S) == S

Least(S) == {m \in S : \A n \in S : m[1] <= n[1]}

-----------------------------------------------------------------------------
(* apply.                                                                  *)

\* discover: the files are read once; two files of one version are fatal.
Discover(a) ==
    /\ At(a, "idle")
    /\ \A m, n \in repo : m[1] = n[1] => m = n
    /\ applier' = [applier EXCEPT ![a] =
            [pc |-> "query", files |-> repo, ddl |-> {}, rows |-> {}]]
    /\ UNCHANGED <<repo, tables, ledger, edits, crashes>>

\* Mutant: a ledger that cannot be read passes for one that does not exist.
ReadFailureIsEmpty == {}

\* applied_migrations: nothing, as long as no script has made the ledger.
Already == IF LedgerTable \in Makes(tables) THEN ledger ELSE {}

\* Mutant: an applied migration that has no file any more goes unnoticed.
ChangedFile(files, already) ==
    \E m \in already : Has(files, m[1]) /\ m \notin files

\* An applied migration whose file changed or is missing.
Drift(files, already) == \E m \in already : m \notin files

\* pending: refuse on drift, otherwise everything not in the ledger, be its
\* number above or below those that are.
Pending(files, already) == {m \in files : ~Has(already, m[1])}

Query(a) ==
    /\ At(a, "query")
    /\ LET files == applier[a].files
           todo == Pending(files, Already)
       IN applier' = [applier EXCEPT ![a] =
            IF Drift(files, Already) \/ todo = {} THEN Idle
            ELSE [pc |-> "ddl", files |-> files, todo |-> todo,
                  migration |-> NoMigration, ddl |-> {}, rows |-> {}]]
    /\ UNCHANGED <<repo, tables, ledger, edits, crashes>>

\* What the connection sees: what is committed and what its transaction did.
Seen(a) == tables \cup applier[a].ddl

\* The appliers whose open transaction this one has to wait for: one of them
\* is creating an object of the script, or has inserted the same version.
Awaits(a) ==
    {c \in Appliers \ {a} :
        \/ At(a, "ddl") /\ Makes(applier[c].ddl) \cap Makes(Least(applier[a].todo)) # {}
        \/ At(a, "row") /\ Has(applier[c].rows, applier[a].migration[1])}

\* The database ends one of the transactions that wait for each other.
Deadlocked(a) ==
    \E S \in SUBSET Appliers : a \in S /\ \A b \in S : Awaits(b) \cap S # {}

\* cursor.execute(migration.sql) of the lowest migration still to apply, which
\* runs whatever the file says: the run ends with an error, and a rollback,
\* when an object that it makes exists, or its wait is a deadlock.
Execute(a) ==
    /\ At(a, "ddl")
    /\ \E m \in Least(applier[a].todo) :
        IF Creates[m] \cap Makes(Seen(a)) # {} \/ Deadlocked(a)
        THEN /\ applier' = [applier EXCEPT ![a] = Idle]
             /\ UNCHANGED tables
        ELSE /\ Awaits(a) = {}
             /\ tables' = IF Autocommit THEN tables \cup {m} ELSE tables
             /\ applier' = [applier EXCEPT
                     ![a].pc = "row", ![a].migration = m,
                     ![a].ddl = IF Autocommit THEN @ ELSE @ \cup {m}]
    /\ UNCHANGED <<repo, ledger, edits, crashes>>

\* Mutant: the recorded hash is that of the file as it is on disk by now.
RecordOnDisk(a) ==
    LET m == applier[a].migration IN
    IF Has(repo, m[1]) THEN CHOOSE n \in repo : n[1] = m[1] ELSE m

\* The version and the hash of the text that was executed.
Record(a) == applier[a].migration

\* Mutant: the loop asks for one more migration after the last.
NextPcForever(rest) == "ddl"

NextPc(rest) == IF rest = {} THEN "commit" ELSE "ddl"

\* The INSERT into schema_migration, which fails when the ledger does not
\* exist or has the version, and waits for a transaction that has inserted it;
\* after the last one, apply returns.
InsertRow(a) ==
    /\ At(a, "row")
    /\ LET row == Record(a)
           rest == applier[a].todo \ {applier[a].migration}
       IN IF \/ LedgerTable \notin Makes(Seen(a)) \/ Has(ledger \cup applier[a].rows, row[1])
             \/ Deadlocked(a)
          THEN /\ applier' = [applier EXCEPT ![a] = Idle]
               /\ UNCHANGED ledger
          ELSE /\ Awaits(a) = {}
               /\ ledger' = IF Autocommit THEN ledger \cup {row} ELSE ledger
               /\ applier' = [applier EXCEPT
                        ![a].pc = NextPc(rest), ![a].todo = rest,
                        ![a].rows = IF Autocommit THEN @ ELSE @ \cup {row}]
    /\ UNCHANGED <<repo, tables, edits, crashes>>

\* The caller commits what apply did and closes its connection.
Commit(a) ==
    /\ At(a, "commit")
    /\ tables' = tables \cup applier[a].ddl
    /\ ledger' = ledger \cup applier[a].rows
    /\ applier' = [applier EXCEPT ![a] = Idle]
    /\ UNCHANGED <<repo, edits, crashes>>

\* The process or its connection dies; the open transaction is rolled back.
Crash(a) ==
    /\ ~At(a, "idle")
    /\ crashes < MaxCrashes
    /\ crashes' = crashes + 1
    /\ applier' = [applier EXCEPT ![a] = Idle]
    /\ UNCHANGED <<repo, tables, ledger, edits>>

-----------------------------------------------------------------------------
(* The repository changes under the applier.                               *)

Edit == edits < MaxEdits /\ edits' = edits + 1
        /\ UNCHANGED <<tables, ledger, applier, crashes>>

AddFile(m) ==
    /\ m \notin repo
    /\ MayRewrite \/ \A n \in repo : n[1] < m[1]
    /\ repo' = repo \cup {m}
    /\ Edit

RemoveFile(m) ==
    /\ MayRewrite
    /\ m \in repo
    /\ repo' = repo \ {m}
    /\ Edit

EditFile(m, text) ==
    /\ MayRewrite
    /\ m \in repo /\ text # m[2]
    /\ repo' = (repo \ {m}) \cup {<<m[1], text>>}
    /\ Edit

ApplierStep(a) ==
    Query(a) \/ Execute(a) \/ InsertRow(a) \/ Commit(a)

Next ==
    \/ \E a \in Appliers : Discover(a) \/ ApplierStep(a) \/ Crash(a)
    \/ \E m \in Files : AddFile(m) \/ RemoveFile(m) \/ \E t \in Texts : EditFile(m, t)

Spec == Init /\ [][Next]_vars

\* A running apply keeps running.
FairSpec == Spec /\ \A a \in Appliers : WF_vars(ApplierStep(a))

-----------------------------------------------------------------------------
(* Properties.                                                             *)

\* Inside one transaction, the ledger says at every moment exactly which texts
\* made the tables, whoever else applies, edits or dies (migrate.apply).
LedgerDescribesSchema == ledger = tables

\* Claimed of every caller, and false of an autocommitting one: apply runs one
\* transaction per file, so no applied migration is left without its row.
OneTransactionPerFile ==
    (\A a \in Appliers : applier[a].pc = "idle") => ledger = tables

\* A ledger row is only ever written for a text that has run, and a version has
\* one row, whatever the transaction boundary and however many appliers and
\* edits there are (migrate.apply, schema_migration).
RowMeansApplied ==
    /\ ledger \subseteq tables
    /\ \A m, n \in ledger : m[1] = n[1] => m = n

\* Once the ledger has a version, no text of it is applied to the database
\* again, although an edited file could make other objects and an applier may
\* have read the files and the ledger long before: with one transaction around
\* apply, or one applier at a time (migrate.pending; ledger_exists names what
\* to avoid, "silently re-running everything").
RecordedStands ==
    [][\A m \in tables' \ tables : ~Has(ledger, m[1])]_vars

\* With one applier at a time, no DDL is committed by an apply whose files do
\* not describe the database, however the repository was edited since earlier
\* runs (migrate.pending: drift is refused).
NoDriftedApply ==
    [][\A a \in Appliers :
          tables' # tables /\ applier'[a] # applier[a] => ledger \subseteq applier[a].files]_vars

\* A script only ever runs on tables that have every lower-numbered file of the
\* checkout it belongs to, also when a file was slipped in below applied ones,
\* another applier got there first, or an earlier run died (migrate.discover).
PrerequisitesApplied ==
    \A a \in Appliers : At(a, "row") =>
        \A n \in applier[a].files : n[1] < applier[a].migration[1] => n \in Seen(a)

\* No more edits, the first file makes the ledger, no two make one object, and
\* every running applier works from these files.
AtRest(a) ==
    /\ edits = MaxEdits /\ repo = applier[a].files
    /\ \E m \in repo : LedgerTable \in Creates[m] /\ \A n \in repo : m[1] <= n[1]
    /\ \A m, n \in repo : m # n => Creates[m] \cap Creates[n] = {}
    /\ \A c \in Appliers : At(c, "idle") \/ applier[c].files = repo

\* An apply that starts without drift, in a repository at rest whose files can
\* be applied one after the other, and that is not killed, brings the database up to
\* the files it found, also when another applier is doing the same and after
\* earlier ones were killed (migrate.apply).
ApplyCompletes ==
    \A a \in Appliers, n \in 0..MaxCrashes :
        At(a, "query") /\ AtRest(a) /\ crashes = n /\ ~Drift(repo, ledger)
        ~> crashes > n \/ repo \subseteq ledger
=============================================================================
