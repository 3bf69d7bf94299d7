-------------------------- MODULE MigrationsProofs --------------------------
(***************************************************************************)
(* Proofs about Migrations, for every set of appliers, versions, texts and *)
(* initial files and every bound: its type invariant, that the ledger is   *)
(* the schema when apply runs in one transaction, that a ledger row names  *)
(* a text that has run and a version has one row, that a recorded version  *)
(* is not applied again, that a script finds the lower-numbered ones       *)
(* applied, and that drift is refused, whatever the commit boundary.       *)
(***************************************************************************)
EXTENDS Migrations, TLAPS

-----------------------------------------------------------------------------
(* What each step does to the applier that takes it.                       *)

\* Where an applier is decides the shape of its state.
LEMMA ApplierShape ==
    ASSUME TypeOK, NEW a \in Appliers
    PROVE  /\ applier[a] \in States
           /\ applier[a].pc = "query" => applier[a] \in Discovered
           /\ applier[a].pc = "ddl" => applier[a] \in Applying
           /\ applier[a].pc = "row" => applier[a] \in Recording
           /\ applier[a].pc = "commit" => applier[a] \in Returned
BY DEF TypeOK, States, Idle, Discovered, Applying, Recording, Returned

\* A query ends the call or starts applying with nothing done.
LEMMA QueryEffect ==
    ASSUME TypeOK, NEW a \in Appliers, Query(a)
    PROVE  /\ applier[a] \in Discovered
           /\ \/ applier'[a] = Idle
              \/ applier'[a] \in Applying /\ applier'[a].ddl = {} /\ applier'[a].rows = {}
           /\ \A c \in Appliers \ {a} : applier'[c] = applier[c]
           /\ applier' \in [Appliers -> States]
<1> DEFINE todo == Pending(applier[a].files, Already)
           next == [pc |-> "ddl", files |-> applier[a].files, todo |-> todo,
                    migration |-> NoMigration, ddl |-> {}, rows |-> {}]
<1>1. applier[a] \in Discovered
  BY ApplierShape DEF Query, At
<1>2. applier' = [applier EXCEPT ![a] = Idle]
      \/ (todo # {} /\ applier' = [applier EXCEPT ![a] = next])
  BY DEF Query
<1>3. applier \in [Appliers -> States] /\ Idle \in States
  BY DEF TypeOK, States
<1>4. CASE applier' = [applier EXCEPT ![a] = Idle]
  BY <1>1, <1>3, <1>4
<1>5. CASE todo # {} /\ applier' = [applier EXCEPT ![a] = next]
  <2>1. todo \subseteq Files /\ applier[a].files \subseteq Files
    BY <1>1 DEF Discovered, Pending
  <2>2. next \in Applying
    BY <1>5, <2>1 DEF Applying
  <2>3. next \in States /\ next.ddl = {} /\ next.rows = {}
    BY <2>2 DEF States
  <2> HIDE DEF next
  <2> QED
    BY <1>1, <1>3, <1>5, <2>2, <2>3
<1> QED
  BY <1>2, <1>4, <1>5

\* A DDL script ends the call or runs one migration: committed at once or in
\* the open transaction.
LEMMA ExecuteEffect ==
    ASSUME TypeOK, NEW a \in Appliers, Execute(a)
    PROVE  /\ applier[a] \in Applying
           /\ \A c \in Appliers \ {a} : applier'[c] = applier[c]
           /\ applier' \in [Appliers -> States]
           /\ \/ applier'[a] = Idle /\ tables' = tables
              \/ \E m \in Files :
                    /\ m \in Least(applier[a].todo)
                    /\ applier'[a] \in Recording /\ applier'[a].migration = m
                    /\ applier'[a].files = applier[a].files
                    /\ applier'[a].todo = applier[a].todo
                    /\ applier'[a].rows = applier[a].rows
                    /\ tables' = IF Autocommit THEN tables \cup {m} ELSE tables
                    /\ applier'[a].ddl = IF Autocommit THEN applier[a].ddl
                                         ELSE applier[a].ddl \cup {m}
<1> DEFINE next(m) == [applier[a] EXCEPT !.pc = "row", !.migration = m,
                            !.ddl = IF Autocommit THEN @ ELSE @ \cup {m}]
<1>1. applier[a] \in Applying
  BY ApplierShape DEF Execute, At
<1>2. applier \in [Appliers -> States] /\ Idle \in States
  BY DEF TypeOK, States
<1>3. PICK m \in Least(applier[a].todo) :
        \/ applier' = [applier EXCEPT ![a] = Idle] /\ tables' = tables
        \/ /\ tables' = IF Autocommit THEN tables \cup {m} ELSE tables
           /\ applier' = [applier EXCEPT ![a] = next(m)]
  BY DEF Execute
<1>4. m \in Files
  BY <1>1, <1>3 DEF Least, Applying
<1>5. CASE applier' = [applier EXCEPT ![a] = Idle] /\ tables' = tables
  BY <1>1, <1>2, <1>5
<1>6. CASE /\ tables' = IF Autocommit THEN tables \cup {m} ELSE tables
           /\ applier' = [applier EXCEPT ![a] = next(m)]
  <2>1. next(m) \in Recording /\ next(m).migration = m
        /\ next(m).files = applier[a].files /\ next(m).todo = applier[a].todo
        /\ next(m).rows = applier[a].rows
        /\ next(m).ddl = IF Autocommit THEN applier[a].ddl ELSE applier[a].ddl \cup {m}
    BY <1>1, <1>4 DEF Applying, Recording
  <2>2. next(m) \in States
    BY <2>1 DEF States
  <2> HIDE DEF next
  <2> QED
    BY <1>1, <1>2, <1>3, <1>4, <1>6, <2>1, <2>2
<1> QED
  BY <1>3, <1>5, <1>6

\* An insert ends the call or records the migration the call has just made,
\* whose version neither the ledger nor an open transaction has.
LEMMA InsertRowEffect ==
    ASSUME TypeOK, NEW a \in Appliers, InsertRow(a)
    PROVE  /\ applier[a] \in Recording
           /\ \A c \in Appliers \ {a} : applier'[c] = applier[c]
           /\ applier' \in [Appliers -> States]
           /\ \/ applier'[a] = Idle /\ ledger' = ledger
              \/ /\ applier'[a] \in Applying \cup Returned
                 /\ applier'[a].ddl = applier[a].ddl
                 /\ ~Has(ledger \cup applier[a].rows, applier[a].migration[1])
                 /\ \A c \in Appliers \ {a} : ~Has(applier[c].rows, applier[a].migration[1])
                 /\ ledger' = IF Autocommit THEN ledger \cup {applier[a].migration}
                              ELSE ledger
                 /\ applier'[a].rows = IF Autocommit THEN applier[a].rows
                        ELSE applier[a].rows \cup {applier[a].migration}
<1> DEFINE row == applier[a].migration
           rest == applier[a].todo \ {row}
           next == [applier[a] EXCEPT !.pc = NextPc(rest), !.todo = rest,
                        !.rows = IF Autocommit THEN @ ELSE @ \cup {row}]
<1>1. applier[a] \in Recording
  BY ApplierShape DEF InsertRow, At
<1>2. applier \in [Appliers -> States] /\ Idle \in States
  BY DEF TypeOK, States
<1>3. \/ applier' = [applier EXCEPT ![a] = Idle] /\ ledger' = ledger
      \/ /\ ledger' = IF Autocommit THEN ledger \cup {row} ELSE ledger
         /\ applier' = [applier EXCEPT ![a] = next]
         /\ ~Has(ledger \cup applier[a].rows, row[1]) /\ Awaits(a) = {}
  BY DEF InsertRow, Record
<1>4. next \in Applying \cup Returned
      /\ next.ddl = applier[a].ddl
      /\ next.rows = IF Autocommit THEN applier[a].rows ELSE applier[a].rows \cup {row}
  <2>1. row \in Files /\ rest \subseteq Files
    BY <1>1 DEF Recording
  <2>2. CASE rest = {}
    BY <1>1, <2>1, <2>2 DEF Recording, Returned, NextPc
  <2>3. CASE rest # {}
    BY <1>1, <2>1, <2>3 DEF Recording, Applying, NextPc
  <2> QED
    BY <2>2, <2>3
<1>5. next \in States
  BY <1>4 DEF States
<1>6. Awaits(a) = {} => \A c \in Appliers \ {a} : ~Has(applier[c].rows, row[1])
  BY DEF Awaits, InsertRow
<1> HIDE DEF next
<1> QED
  BY <1>1, <1>2, <1>3, <1>4, <1>5, <1>6

\* A file of the repository may appear, disappear or change; nothing else does.
LEMMA EditEffect ==
    ASSUME NEW m \in Files, AddFile(m) \/ RemoveFile(m) \/ \E t \in Texts : EditFile(m, t)
    PROVE  /\ UNCHANGED <<tables, ledger, applier, crashes>>
           /\ edits < MaxEdits /\ edits' = edits + 1
           /\ repo \subseteq Files => repo' \subseteq Files
BY DEF AddFile, RemoveFile, EditFile, Edit, Files

-----------------------------------------------------------------------------
(* The type invariant.                                                     *)

LEMMA StepKeepsType ==
    ASSUME TypeOK, [Next]_vars
    PROVE  TypeOK'
<1>0. applier \in [Appliers -> States] /\ Idle \in States
  BY DEF TypeOK, States
<1>1. ASSUME NEW a \in Appliers, Discover(a) PROVE TypeOK'
  <2>1. repo \subseteq Files
    BY DEF TypeOK
  <2>2. [pc |-> "query", files |-> repo, ddl |-> {}, rows |-> {}] \in States
    BY <2>1 DEF States, Discovered
  <2> QED
    BY <1>0, <1>1, <2>2 DEF Discover, TypeOK
<1>2. ASSUME NEW a \in Appliers, Query(a) PROVE TypeOK'
  BY <1>2, QueryEffect DEF Query, TypeOK
<1>3. ASSUME NEW a \in Appliers, Execute(a) PROVE TypeOK'
  <2>1. tables' \subseteq Files /\ applier' \in [Appliers -> States]
    BY <1>3, ExecuteEffect DEF TypeOK
  <2> QED
    BY <1>3, <2>1 DEF Execute, TypeOK
<1>4. ASSUME NEW a \in Appliers, InsertRow(a) PROVE TypeOK'
  <2>1. ledger' \subseteq Files /\ applier' \in [Appliers -> States]
    BY <1>4, InsertRowEffect DEF TypeOK, Recording
  <2> QED
    BY <1>4, <2>1 DEF InsertRow, TypeOK
<1>5. ASSUME NEW a \in Appliers, Commit(a) PROVE TypeOK'
  <2>1. applier[a] \in Returned
    BY <1>5, ApplierShape DEF Commit, At
  <2> QED
    BY <1>0, <1>5, <2>1 DEF Commit, TypeOK, Returned
<1>6. ASSUME NEW a \in Appliers, Crash(a) PROVE TypeOK'
  <2>1. crashes' \in 0..MaxCrashes
    BY <1>6, BoundsType DEF Crash, TypeOK
  <2> QED
    BY <1>0, <1>6, <2>1 DEF Crash, TypeOK
<1>7. ASSUME NEW m \in Files, AddFile(m) \/ RemoveFile(m) \/ \E t \in Texts : EditFile(m, t)
      PROVE TypeOK'
  BY <1>7, EditEffect, BoundsType DEF TypeOK
<1>8. CASE UNCHANGED vars
  BY <1>8 DEF TypeOK, vars
<1> QED
  BY <1>1, <1>2, <1>3, <1>4, <1>5, <1>6, <1>7, <1>8 DEF Next, ApplierStep

\* Every variable keeps its type: in particular a migration is bound to the
\* loop variable of apply whenever a row is about to be inserted.
THEOREM TypeCorrect == Spec => []TypeOK
<1>1. Init => TypeOK
  BY InitialFilesType, BoundsType DEF Init, TypeOK, States
<1>2. TypeOK /\ [Next]_vars => TypeOK'
  BY StepKeepsType
<1> QED
  BY <1>1, <1>2, PTL DEF Spec

-----------------------------------------------------------------------------
(* One transaction around apply.                                           *)

\* Inside a call, the rows are one behind the tables exactly while the loop is
\* between its two statements.
Abreast(s) == IF s.pc = "row" THEN s.ddl = s.rows \cup {s.migration} ELSE s.ddl = s.rows

TransactionInv ==
    /\ LedgerDescribesSchema
    /\ \A a \in Appliers : Abreast(applier[a])

LEMMA InitIsAbreast == Init => TransactionInv
<1>1. Abreast(Idle)
  BY DEF Abreast, Idle
<1> QED
  BY <1>1 DEF Init, TransactionInv, LedgerDescribesSchema

LEMMA StepKeepsTransaction ==
    ASSUME ~Autocommit, TypeOK, TransactionInv, [Next]_vars
    PROVE  TransactionInv'
<1>0. ledger = tables /\ \A a \in Appliers : Abreast(applier[a])
  BY DEF TransactionInv, LedgerDescribesSchema
<1>1. Abreast(Idle)
  BY DEF Abreast, Idle
<1>2. SUFFICES ledger' = tables' /\ \A a \in Appliers : Abreast(applier'[a])
  BY DEF TransactionInv, LedgerDescribesSchema, Abreast
<1>3. ASSUME NEW a \in Appliers, Discover(a) PROVE
          ledger' = tables' /\ \A c \in Appliers : Abreast(applier'[c])
  <2>1. Abreast([pc |-> "query", files |-> repo, ddl |-> {}, rows |-> {}])
    BY DEF Abreast
  <2> QED
    BY <1>0, <1>3, <2>1 DEF Discover, TypeOK
<1>4. ASSUME NEW a \in Appliers, Query(a) PROVE
          ledger' = tables' /\ \A c \in Appliers : Abreast(applier'[c])
  <2>1. Abreast(applier'[a])
    BY <1>1, <1>4, QueryEffect DEF Abreast, Applying
  <2> QED
    BY <1>0, <1>4, <2>1, QueryEffect DEF Query
<1>5. ASSUME NEW a \in Appliers, Execute(a) PROVE
          ledger' = tables' /\ \A c \in Appliers : Abreast(applier'[c])
  <2>1. applier[a].ddl = applier[a].rows
    BY <1>0, <1>5, ExecuteEffect DEF Abreast, Applying
  <2>2. Abreast(applier'[a]) /\ tables' = tables
    BY <1>1, <1>5, <2>1, ExecuteEffect DEF Abreast, Recording
  <2> QED
    BY <1>0, <1>5, <2>2, ExecuteEffect DEF Execute
<1>6. ASSUME NEW a \in Appliers, InsertRow(a) PROVE
          ledger' = tables' /\ \A c \in Appliers : Abreast(applier'[c])
  <2>1. applier[a].ddl = applier[a].rows \cup {applier[a].migration}
    BY <1>0, <1>6, InsertRowEffect DEF Abreast, Recording
  <2>2. CASE applier'[a] = Idle /\ ledger' = ledger
    BY <1>0, <1>1, <1>6, <2>2, InsertRowEffect DEF InsertRow
  <2>3. CASE /\ applier'[a] \in Applying \cup Returned
             /\ applier'[a].ddl = applier[a].ddl
             /\ ledger' = ledger
             /\ applier'[a].rows = applier[a].rows \cup {applier[a].migration}
    <3>1. Abreast(applier'[a])
      BY <2>1, <2>3 DEF Abreast, Applying, Returned
    <3> QED
      BY <1>0, <1>6, <2>3, <3>1, InsertRowEffect DEF InsertRow
  <2> QED
    BY <1>6, <2>2, <2>3, InsertRowEffect
<1>7. ASSUME NEW a \in Appliers, Commit(a) PROVE
          ledger' = tables' /\ \A c \in Appliers : Abreast(applier'[c])
  <2>1. applier[a].ddl = applier[a].rows
    BY <1>0, <1>7, ApplierShape DEF Abreast, Commit, At
  <2> QED
    BY <1>0, <1>1, <1>7, <2>1 DEF Commit, TypeOK
<1>8. ASSUME NEW a \in Appliers, Crash(a) PROVE
          ledger' = tables' /\ \A c \in Appliers : Abreast(applier'[c])
  BY <1>0, <1>1, <1>8 DEF Crash, TypeOK
<1>9. ASSUME NEW m \in Files,
             AddFile(m) \/ RemoveFile(m) \/ \E t \in Texts : EditFile(m, t)
      PROVE ledger' = tables' /\ \A c \in Appliers : Abreast(applier'[c])
  BY <1>0, <1>9, EditEffect
<1>10. CASE UNCHANGED vars
  BY <1>0, <1>10 DEF vars
<1> QED
  BY <1>3, <1>4, <1>5, <1>6, <1>7, <1>8, <1>9, <1>10 DEF Next, ApplierStep

\* When the caller wraps apply in one transaction, the committed ledger names
\* at every moment exactly the migrations, with the texts, that made the
\* committed tables, whoever else applies, edits files or dies.
THEOREM LedgerIsSchema ==
    ASSUME ~Autocommit
    PROVE  Spec => []LedgerDescribesSchema
<1>1. Init => TransactionInv
  BY InitIsAbreast
<1>2. TypeOK /\ TransactionInv /\ [Next]_vars => TransactionInv'
  BY StepKeepsTransaction
<1>3. TransactionInv => LedgerDescribesSchema
  BY DEF TransactionInv
<1> QED
  BY <1>1, <1>2, <1>3, TypeCorrect, PTL DEF Spec

-----------------------------------------------------------------------------
(* Whatever the transaction boundary.                                      *)

OneFilePerVersion(S) == \A m, n \in S : m[1] = n[1] => m = n
Apart(S, T) == \A m \in S, n \in T : m[1] # n[1]

\* A row is behind a text that has run, also inside a transaction, and nothing
\* is pending when every statement commits.
RowInv ==
    /\ ledger \subseteq tables
    /\ Autocommit => \A a \in Appliers : applier[a].ddl = {}
    /\ \A a \in Appliers :
        /\ applier[a].rows \subseteq Seen(a)
        /\ applier[a].pc = "row" => applier[a].migration \in Seen(a)

\* The rows of an open transaction have versions of their own, which neither
\* the ledger nor another open transaction has.
ApartInv ==
    /\ OneFilePerVersion(ledger)
    /\ \A a \in Appliers :
        /\ OneFilePerVersion(applier[a].rows)
        /\ Apart(applier[a].rows, ledger)
        /\ \A c \in Appliers \ {a} : Apart(applier[a].rows, applier[c].rows)

\* What an applier may record: only what it can see.
Backed(s, T) ==
    /\ Autocommit => s.ddl = {}
    /\ s.rows \subseteq T \cup s.ddl
    /\ s.pc = "row" => s.migration \in T \cup s.ddl

\* A step of one applier keeps RowInv when that applier is still backed.
LEMMA BackedStep ==
    ASSUME RowInv, NEW a \in Appliers,
           \A c \in Appliers \ {a} : applier'[c] = applier[c],
           tables \subseteq tables', ledger' \subseteq tables',
           Backed(applier[a], tables)'
    PROVE  RowInv'
<1>1. \A c \in Appliers \ {a} : Backed(applier[c], tables)'
  BY DEF RowInv, Seen, Backed
<1>2. \A c \in Appliers : Backed(applier[c], tables)'
  BY <1>1
<1> QED
  BY <1>2 DEF RowInv, Seen, Backed

LEMMA StepKeepsRows ==
    ASSUME TypeOK, RowInv, [Next]_vars
    PROVE  RowInv'
<1>0. \A T : Backed(Idle, T)
  BY DEF Backed, Idle
<1>1. ASSUME NEW a \in Appliers, Discover(a) PROVE RowInv'
  <2>1. /\ UNCHANGED <<tables, ledger>>
        /\ applier'[a] = [pc |-> "query", files |-> repo, ddl |-> {}, rows |-> {}]
        /\ \A c \in Appliers \ {a} : applier'[c] = applier[c]
    BY <1>1 DEF Discover, TypeOK
  <2>2. Backed(applier[a], tables)' /\ ledger' \subseteq tables'
    BY <2>1 DEF Backed, RowInv
  <2> QED
    BY <2>1, <2>2, BackedStep
<1>2. ASSUME NEW a \in Appliers, Query(a) PROVE RowInv'
  <2>1. UNCHANGED <<tables, ledger>> /\ \A c \in Appliers \ {a} : applier'[c] = applier[c]
    BY <1>2, QueryEffect DEF Query
  <2>2. Backed(applier[a], tables)'
    BY <1>0, <1>2, QueryEffect DEF Backed, Applying
  <2>3. ledger' \subseteq tables'
    BY <2>1 DEF RowInv
  <2> QED
    BY <2>1, <2>2, <2>3, BackedStep
<1>3. ASSUME NEW a \in Appliers, Execute(a) PROVE RowInv'
  <2>1. UNCHANGED ledger /\ applier[a] \in Applying
        /\ \A c \in Appliers \ {a} : applier'[c] = applier[c]
    BY <1>3, ExecuteEffect DEF Execute
  <2>2. CASE applier'[a] = Idle /\ tables' = tables
    <3>1. Backed(applier[a], tables)' /\ ledger' \subseteq tables'
      BY <1>0, <2>1, <2>2 DEF RowInv
    <3> QED
      BY <2>1, <2>2, <3>1, BackedStep
  <2>3. ASSUME NEW m \in Files,
               applier'[a] \in Recording, applier'[a].migration = m,
               applier'[a].rows = applier[a].rows,
               tables' = IF Autocommit THEN tables \cup {m} ELSE tables,
               applier'[a].ddl = IF Autocommit THEN applier[a].ddl
                                 ELSE applier[a].ddl \cup {m}
        PROVE  RowInv'
    <3>1. tables \subseteq tables' /\ applier[a].ddl \subseteq applier'[a].ddl
          /\ m \in tables' \cup applier'[a].ddl
      BY <2>3
    <3>2. Backed(applier[a], tables)' /\ ledger' \subseteq tables'
      BY <2>1, <2>3, <3>1 DEF RowInv, Seen, Backed
    <3> QED
      BY <2>1, <3>1, <3>2, BackedStep
  <2> QED
    BY <1>3, <2>2, <2>3, ExecuteEffect
<1>4. ASSUME NEW a \in Appliers, InsertRow(a) PROVE RowInv'
  <2>1. UNCHANGED tables /\ applier[a] \in Recording
        /\ \A c \in Appliers \ {a} : applier'[c] = applier[c]
    BY <1>4, InsertRowEffect DEF InsertRow
  <2>2. applier[a].migration \in tables \cup applier[a].ddl
        /\ applier[a].rows \subseteq tables \cup applier[a].ddl
    BY <2>1 DEF RowInv, Seen, Recording
  <2>3. CASE applier'[a] = Idle /\ ledger' = ledger
    <3>1. Backed(applier[a], tables)' /\ ledger' \subseteq tables'
      BY <1>0, <2>1, <2>3 DEF RowInv
    <3> QED
      BY <2>1, <3>1, BackedStep
  <2>4. CASE /\ applier'[a] \in Applying \cup Returned
             /\ applier'[a].ddl = applier[a].ddl
             /\ ledger' = IF Autocommit THEN ledger \cup {applier[a].migration} ELSE ledger
             /\ applier'[a].rows = IF Autocommit THEN applier[a].rows
                    ELSE applier[a].rows \cup {applier[a].migration}
    <3>1. Backed(applier[a], tables)'
      <4>1. applier'[a].pc # "row" /\ (Autocommit => applier'[a].ddl = {})
        BY <2>4 DEF RowInv, Applying, Returned
      <4>2. applier'[a].rows \subseteq tables' \cup applier'[a].ddl
        BY <2>1, <2>2, <2>4
      <4> QED
        BY <4>1, <4>2 DEF Backed
    <3>2. ledger' \subseteq tables'
      BY <2>1, <2>2, <2>4 DEF RowInv, Recording
    <3> QED
      BY <2>1, <3>1, <3>2, BackedStep
  <2> QED
    BY <1>4, <2>3, <2>4, InsertRowEffect
<1>5. ASSUME NEW a \in Appliers, Commit(a) PROVE RowInv'
  <2>1. /\ tables' = tables \cup applier[a].ddl
        /\ ledger' = ledger \cup applier[a].rows
        /\ applier'[a] = Idle
        /\ \A c \in Appliers \ {a} : applier'[c] = applier[c]
    BY <1>5 DEF Commit, TypeOK
  <2>2. Backed(applier[a], tables)' /\ ledger' \subseteq tables'
    BY <1>0, <2>1 DEF RowInv, Seen
  <2> QED
    BY <2>1, <2>2, BackedStep
<1>6. ASSUME NEW a \in Appliers, Crash(a) PROVE RowInv'
  <2>1. /\ UNCHANGED <<tables, ledger>> /\ applier'[a] = Idle
        /\ \A c \in Appliers \ {a} : applier'[c] = applier[c]
    BY <1>6 DEF Crash, TypeOK
  <2>2. Backed(applier[a], tables)' /\ ledger' \subseteq tables'
    BY <1>0, <2>1 DEF RowInv
  <2> QED
    BY <2>1, <2>2, BackedStep
<1>7. ASSUME NEW m \in Files, AddFile(m) \/ RemoveFile(m) \/ \E t \in Texts : EditFile(m, t)
      PROVE RowInv'
  BY <1>7, EditEffect DEF RowInv, Seen
<1>8. CASE UNCHANGED vars
  BY <1>8 DEF RowInv, Seen, vars
<1> QED
  BY <1>1, <1>2, <1>3, <1>4, <1>5, <1>6, <1>7, <1>8 DEF Next, ApplierStep

LEMMA StepKeepsApart ==
    ASSUME TypeOK, ApartInv, [Next]_vars
    PROVE  ApartInv'
<1>1. ASSUME NEW a \in Appliers, ledger' = ledger,
             \A c \in Appliers \ {a} : applier'[c] = applier[c],
             applier'[a].rows \subseteq applier[a].rows
      PROVE  ApartInv'
  BY <1>1 DEF ApartInv, OneFilePerVersion, Apart
<1>2. ASSUME NEW a \in Appliers, Discover(a) \/ Crash(a) PROVE ApartInv'
  <2>1. /\ ledger' = ledger /\ applier'[a].rows = {}
        /\ \A c \in Appliers \ {a} : applier'[c] = applier[c]
    BY <1>2 DEF Discover, Crash, Idle, TypeOK
  <2> QED
    BY <1>1, <2>1
<1>3. ASSUME NEW a \in Appliers, Query(a) PROVE ApartInv'
  <2>1. ledger' = ledger /\ applier'[a].rows = {}
    BY <1>3, QueryEffect DEF Query, Idle
  <2> QED
    BY <1>1, <1>3, <2>1, QueryEffect
<1>4. ASSUME NEW a \in Appliers, Execute(a) PROVE ApartInv'
  <2>1. ledger' = ledger /\ Idle.rows = {}
    BY <1>4 DEF Execute, Idle
  <2>2. applier'[a].rows \subseteq applier[a].rows
    BY <1>4, <2>1, ExecuteEffect
  <2> QED
    BY <1>1, <1>4, <2>1, <2>2, ExecuteEffect
<1>5. ASSUME NEW a \in Appliers, InsertRow(a) PROVE ApartInv'
  <2> DEFINE row == applier[a].migration
  <2>1. CASE applier'[a] = Idle /\ ledger' = ledger
    <3>1. Idle.rows = {}
      BY DEF Idle
    <3> QED
      BY <1>1, <1>5, <2>1, <3>1, InsertRowEffect
  <2>2. CASE /\ ~Has(ledger \cup applier[a].rows, row[1])
             /\ \A c \in Appliers \ {a} : ~Has(applier[c].rows, row[1])
             /\ ledger' = IF Autocommit THEN ledger \cup {row} ELSE ledger
             /\ applier'[a].rows = IF Autocommit THEN applier[a].rows
                                   ELSE applier[a].rows \cup {row}
    <3>1. /\ Apart({row}, ledger) /\ Apart({row}, applier[a].rows)
          /\ \A c \in Appliers \ {a} : Apart({row}, applier[c].rows)
      BY <2>2 DEF Has, Apart
    <3>2. \A c \in Appliers \ {a} : applier'[c] = applier[c]
      BY <1>5, InsertRowEffect
    <3>3. CASE Autocommit
      BY <2>2, <3>1, <3>2, <3>3 DEF ApartInv, OneFilePerVersion, Apart
    <3>4. CASE ~Autocommit
      BY <2>2, <3>1, <3>2, <3>4 DEF ApartInv, OneFilePerVersion, Apart
    <3> QED
      BY <3>3, <3>4
  <2> QED
    BY <1>5, <2>1, <2>2, InsertRowEffect
<1>6. ASSUME NEW a \in Appliers, Commit(a) PROVE ApartInv'
  <2>1. /\ ledger' = ledger \cup applier[a].rows /\ applier'[a].rows = {}
        /\ \A c \in Appliers \ {a} : applier'[c] = applier[c]
    BY <1>6 DEF Commit, Idle, TypeOK
  <2>2. OneFilePerVersion(ledger')
    BY <2>1 DEF ApartInv, OneFilePerVersion, Apart
  <2> QED
    BY <2>1, <2>2 DEF ApartInv, OneFilePerVersion, Apart
<1>7. ASSUME NEW m \in Files, AddFile(m) \/ RemoveFile(m) \/ \E t \in Texts : EditFile(m, t)
      PROVE ApartInv'
  BY <1>7, EditEffect DEF ApartInv
<1>8. CASE UNCHANGED vars
  BY <1>8 DEF ApartInv, vars
<1> QED
  BY <1>2, <1>3, <1>4, <1>5, <1>6, <1>7, <1>8 DEF Next, ApplierStep

\* A committed row names a text that has run, and a version has one row: for
\* any number of appliers, with and without a transaction around apply,
\* whatever objects the texts make, however files are edited and callers die.
THEOREM RowsMeanApplied == Spec => []RowMeansApplied
<1>1. Init => RowInv /\ ApartInv
  BY DEF Init, RowInv, ApartInv, OneFilePerVersion, Apart, Seen, Idle
<1>2. TypeOK /\ RowInv /\ ApartInv /\ [Next]_vars => RowInv' /\ ApartInv'
  BY StepKeepsRows, StepKeepsApart
<1>3. RowInv /\ ApartInv => RowMeansApplied
  BY DEF RowMeansApplied, RowInv, ApartInv, OneFilePerVersion
<1> QED
  BY <1>1, <1>2, <1>3, TypeCorrect, PTL DEF Spec

-----------------------------------------------------------------------------
(* Prerequisites.                                                          *)

\* What a running call still has to apply and what it can see cover its files;
\* the script it has just run comes after everything below it.
Covered(s, T) ==
    /\ s.pc # "idle" => OneFilePerVersion(s.files)
    /\ s.pc = "ddl" => \A n \in s.files : n \in s.todo \/ n \in T \cup s.ddl
    /\ s.pc = "row" =>
        /\ \A n \in s.files : n \in s.todo \/ n \in T \cup s.ddl
        /\ \A n \in s.files : n[1] < s.migration[1] => n \in T \cup s.ddl

CoverInv == \A a \in Appliers : Covered(applier[a], tables)

\* Committing more tables leaves a call covered.
LEMMA CoveredGrows ==
    ASSUME NEW s, NEW T, NEW U, Covered(s, T), T \subseteq U
    PROVE  Covered(s, U)
BY DEF Covered

\* A call whose query found no drift is covered by what is pending and applied.
LEMMA QueryCovers ==
    ASSUME TypeOK, RowInv, NEW a \in Appliers, Query(a), Covered(applier[a], tables)
    PROVE  Covered(applier'[a], tables)
<1> DEFINE files == applier[a].files
           todo == Pending(files, Already)
           next == [pc |-> "ddl", files |-> files, todo |-> todo,
                    migration |-> NoMigration, ddl |-> {}, rows |-> {}]
<1>1. applier \in [Appliers -> States]
  BY DEF TypeOK
<1>2. CASE applier' = [applier EXCEPT ![a] = Idle]
  BY <1>1, <1>2 DEF Covered, Idle
<1>3. CASE ~Drift(files, Already) /\ applier' = [applier EXCEPT ![a] = next]
  <2>1. OneFilePerVersion(files)
    BY DEF Query, At, Covered
  <2>2. Already \subseteq tables /\ Already \subseteq files
    BY <1>3 DEF RowInv, Already, Drift
  <2>3. \A n \in files : n \in todo \/ n \in tables
    BY <2>1, <2>2 DEF Pending, Has, OneFilePerVersion
  <2>4. next.pc = "ddl" /\ next.files = files /\ next.todo = todo /\ next.ddl = {}
    OBVIOUS
  <2>5. applier'[a] = next
    BY <1>1, <1>3
  <2> HIDE DEF next, files, todo
  <2> QED
    BY <2>1, <2>3, <2>4, <2>5 DEF Covered
<1> QED
  BY <1>2, <1>3 DEF Query

LEMMA StepKeepsCover ==
    ASSUME TypeOK, RowInv, CoverInv, [Next]_vars
    PROVE  CoverInv'
<1>0. \A T : Covered(Idle, T)
  BY DEF Covered, Idle
<1>1. ASSUME NEW a \in Appliers, tables \subseteq tables',
             \A c \in Appliers \ {a} : applier'[c] = applier[c],
             Covered(applier'[a], tables')
      PROVE  CoverInv'
  <2>1. \A c \in Appliers \ {a} : Covered(applier'[c], tables')
    BY <1>1, CoveredGrows DEF CoverInv
  <2> QED
    BY <1>1, <2>1 DEF CoverInv, Covered
<1>2. ASSUME NEW a \in Appliers, Discover(a) PROVE CoverInv'
  <2>1. applier'[a] = [pc |-> "query", files |-> repo, ddl |-> {}, rows |-> {}]
        /\ OneFilePerVersion(repo)
    BY <1>2 DEF Discover, TypeOK, OneFilePerVersion
  <2>2. Covered(applier'[a], tables')
    BY <2>1 DEF Covered
  <2>3. tables' = tables /\ \A c \in Appliers \ {a} : applier'[c] = applier[c]
    BY <1>2 DEF Discover, TypeOK
  <2> QED
    BY <1>1, <2>2, <2>3
<1>3. ASSUME NEW a \in Appliers, Query(a) PROVE CoverInv'
  <2>1. tables' = tables /\ \A c \in Appliers \ {a} : applier'[c] = applier[c]
    BY <1>3, QueryEffect DEF Query
  <2>2. Covered(applier'[a], tables')
    BY <1>3, <2>1, QueryCovers DEF CoverInv
  <2> QED
    BY <1>1, <2>1, <2>2
<1>4. ASSUME NEW a \in Appliers, Execute(a) PROVE CoverInv'
  <2>1. applier[a] \in Applying /\ applier[a].pc = "ddl"
        /\ Covered(applier[a], tables)
    BY <1>4, ExecuteEffect DEF Execute, At, CoverInv
  <2>2. \A c \in Appliers \ {a} : applier'[c] = applier[c]
    BY <1>4, ExecuteEffect
  <2>3. CASE applier'[a] = Idle /\ tables' = tables
    <3>1. Covered(applier'[a], tables')
      BY <2>3 DEF Covered, Idle
    <3> QED
      BY <1>1, <2>2, <2>3, <3>1
  <2>4. ASSUME NEW m \in Files, m \in Least(applier[a].todo),
               applier'[a] \in Recording, applier'[a].migration = m,
               applier'[a].files = applier[a].files,
               applier'[a].todo = applier[a].todo,
               tables' = IF Autocommit THEN tables \cup {m} ELSE tables,
               applier'[a].ddl = IF Autocommit THEN applier[a].ddl
                                 ELSE applier[a].ddl \cup {m}
        PROVE  CoverInv'
    <3>1. /\ applier'[a].pc = "row"
          /\ applier[a].ddl \subseteq applier'[a].ddl
          /\ tables \subseteq tables'
      BY <2>4 DEF Recording
    <3>2. \A n \in applier[a].todo : ~(n[1] < m[1])
      <4>1. \A n \in applier[a].todo : n[1] \in Nat /\ m[1] \in Nat /\ m[1] <= n[1]
        BY <2>1, <2>4, VersionsAreNat DEF Applying, Least, Files
      <4> QED
        BY <4>1
    <3>3. Covered(applier'[a], tables')
      BY <2>1, <2>4, <3>1, <3>2 DEF Covered
    <3> QED
      BY <1>1, <2>2, <3>1, <3>3
  <2> QED
    BY <1>4, ExecuteEffect, <2>3, <2>4
<1>5. ASSUME NEW a \in Appliers, InsertRow(a) PROVE CoverInv'
  <2> DEFINE row == applier[a].migration
             rest == applier[a].todo \ {row}
             next == [applier[a] EXCEPT !.pc = NextPc(rest), !.todo = rest,
                          !.rows = IF Autocommit THEN @ ELSE @ \cup {Record(a)}]
  <2>1. applier[a] \in Recording /\ Covered(applier[a], tables)
        /\ row \in tables \cup applier[a].ddl
    BY <1>5, InsertRowEffect DEF CoverInv, RowInv, Seen, InsertRow, At
  <2>2. tables' = tables /\ \A c \in Appliers \ {a} : applier'[c] = applier[c]
    BY <1>5, InsertRowEffect DEF InsertRow
  <2>3. applier' = [applier EXCEPT ![a] = Idle] \/ applier' = [applier EXCEPT ![a] = next]
    BY <1>5 DEF InsertRow
  <2>4. CASE applier' = [applier EXCEPT ![a] = Idle]
    BY <1>0, <1>1, <2>2, <2>4 DEF TypeOK
  <2>5. CASE applier' = [applier EXCEPT ![a] = next]
    <3>1. /\ applier'[a].pc = NextPc(rest) /\ applier'[a].files = applier[a].files
          /\ applier'[a].todo = rest /\ applier'[a].ddl = applier[a].ddl
      BY <2>1, <2>5 DEF TypeOK, Recording
    <3>2. Covered(applier'[a], tables')
      BY <2>1, <2>2, <3>1 DEF Covered, Recording, NextPc
    <3> QED
      BY <1>1, <2>2, <3>2
  <2> QED
    BY <2>3, <2>4, <2>5
<1>6. ASSUME NEW a \in Appliers, Commit(a) \/ Crash(a) PROVE CoverInv'
  <2>1. applier'[a] = Idle /\ tables \subseteq tables'
        /\ \A c \in Appliers \ {a} : applier'[c] = applier[c]
    BY <1>6 DEF Commit, Crash, TypeOK
  <2> QED
    BY <1>0, <1>1, <2>1
<1>7. ASSUME NEW m \in Files, AddFile(m) \/ RemoveFile(m) \/ \E t \in Texts : EditFile(m, t)
      PROVE CoverInv'
  BY <1>7, EditEffect DEF CoverInv
<1>8. CASE UNCHANGED vars
  BY <1>8 DEF CoverInv, vars
<1> QED
  BY <1>2, <1>3, <1>4, <1>5, <1>6, <1>7, <1>8 DEF Next, ApplierStep

\* A migration's script only runs on tables that have every lower-numbered
\* migration of its checkout, for any number of appliers, edits and crashes.
THEOREM PrerequisitesAreApplied == Spec => []PrerequisitesApplied
<1>1. Init => RowInv /\ CoverInv
  BY DEF Init, RowInv, Seen, CoverInv, Covered, Idle
<1>2. TypeOK /\ RowInv /\ CoverInv /\ [Next]_vars => RowInv' /\ CoverInv'
  BY StepKeepsRows, StepKeepsCover
<1>3. CoverInv => PrerequisitesApplied
  BY DEF CoverInv, Covered, PrerequisitesApplied, At, Seen
<1> QED
  BY <1>1, <1>2, <1>3, TypeCorrect, PTL DEF Spec
-----------------------------------------------------------------------------
(* Drift.                                                                  *)

SoleApplier == \A a, b \in Appliers : a = b

\* Past its query, a call's files contain every row of the ledger and every
\* row and script of its own.
Known(s, L) ==
    /\ s.pc \in {"ddl", "row", "commit"} => L \cup s.rows \subseteq s.files
    /\ s.pc \in {"ddl", "row"} => s.todo \subseteq s.files
    /\ s.pc = "row" => s.migration \in s.files

\* And no row is written before a script has made the ledger, so that a
\* query that takes the ledger to be empty is right.
DriftInv ==
    /\ ledger # {} => LedgerTable \in Makes(tables)
    /\ \A a \in Appliers : Known(applier[a], ledger)
    /\ \A a \in Appliers : applier[a].rows # {} => LedgerTable \in Makes(Seen(a))

LEMMA MakesGrows ==
    ASSUME NEW S, NEW T, S \subseteq T, NEW x, x \in Makes(S)
    PROVE  x \in Makes(T)
BY DEF Makes

LEMMA StepKeepsDriftInv ==
    ASSUME SoleApplier, TypeOK, RowInv, DriftInv, [Next]_vars
    PROVE  DriftInv'
<1>0. applier \in [Appliers -> States] /\ \A L : Known(Idle, L)
  BY DEF TypeOK, Known, Idle
<1>1. ASSUME NEW a \in Appliers, Known(applier'[a], ledger'),
             ledger' # {} => LedgerTable \in Makes(tables'),
             applier'[a].rows # {} => LedgerTable \in Makes(tables' \cup applier'[a].ddl)
      PROVE  DriftInv'
  <2>1. \A c \in Appliers : c = a
    BY DEF SoleApplier
  <2> QED
    BY <1>1, <2>1 DEF DriftInv, Seen
<1>2. ASSUME NEW a \in Appliers, applier'[a] = Idle,
             ledger' # {} => LedgerTable \in Makes(tables')
      PROVE  DriftInv'
  <2>1. Idle.rows = {}
    BY DEF Idle
  <2> QED
    BY <1>0, <1>1, <1>2, <2>1
<1>3. ASSUME NEW a \in Appliers, Discover(a) PROVE DriftInv'
  <2>1. applier'[a] = [pc |-> "query", files |-> repo, ddl |-> {}, rows |-> {}]
        /\ ledger' = ledger /\ tables' = tables
    BY <1>0, <1>3 DEF Discover
  <2>2. Known(applier'[a], ledger')
    BY <2>1 DEF Known
  <2>3. (ledger' # {} => LedgerTable \in Makes(tables')) /\ applier'[a].rows = {}
    BY <2>1 DEF DriftInv
  <2> QED
    BY <1>1, <2>2, <2>3
<1>4. ASSUME NEW a \in Appliers, Query(a) PROVE DriftInv'
  <2> DEFINE files == applier[a].files
             todo == Pending(files, Already)
             next == [pc |-> "ddl", files |-> files, todo |-> todo,
                      migration |-> NoMigration, ddl |-> {}, rows |-> {}]
  <2>1. ledger' = ledger /\ tables' = tables
    BY <1>4 DEF Query
  <2>2. CASE applier' = [applier EXCEPT ![a] = Idle]
    <3>1. applier'[a] = Idle
      BY <1>0, <2>2
    <3> QED
      BY <1>2, <2>1, <3>1 DEF DriftInv
  <2>3. CASE ~Drift(files, Already) /\ applier' = [applier EXCEPT ![a] = next]
    <3>1. ledger \subseteq files
      BY <2>3 DEF DriftInv, Already, Drift
    <3>2. todo \subseteq files
      BY DEF Pending
    <3>3. applier'[a] = next
      BY <1>0, <2>3
    <3>4. next.pc = "ddl" /\ next.files = files /\ next.todo = todo /\ next.rows = {}
      OBVIOUS
    <3> HIDE DEF next, todo, files
    <3>5. Known(applier'[a], ledger')
      BY <2>1, <3>1, <3>2, <3>3, <3>4 DEF Known
    <3> QED
      BY <1>1, <2>1, <3>3, <3>4, <3>5 DEF DriftInv
  <2> QED
    BY <1>4, <2>2, <2>3 DEF Query
<1>5. ASSUME NEW a \in Appliers, Execute(a) PROVE DriftInv'
  <2>1. ledger' = ledger /\ applier[a].pc = "ddl"
    BY <1>5 DEF Execute, At
  <2>2. CASE applier'[a] = Idle /\ tables' = tables
    BY <1>2, <2>1, <2>2 DEF DriftInv
  <2>3. ASSUME NEW m \in Files, m \in Least(applier[a].todo),
               applier'[a] \in Recording, applier'[a].migration = m,
               applier'[a].files = applier[a].files,
               applier'[a].todo = applier[a].todo,
               applier'[a].rows = applier[a].rows,
               tables' = IF Autocommit THEN tables \cup {m} ELSE tables,
               applier'[a].ddl = IF Autocommit THEN applier[a].ddl
                                 ELSE applier[a].ddl \cup {m}
        PROVE  DriftInv'
    <3>1. applier'[a].pc = "row" /\ m \in applier[a].todo
      BY <2>3 DEF Recording, Least
    <3>2. Known(applier[a], ledger)
      BY DEF DriftInv
    <3>3. Known(applier'[a], ledger')
      BY <2>1, <2>3, <3>1, <3>2 DEF Known
    <3>4. tables \subseteq tables' /\ Seen(a) \subseteq tables' \cup applier'[a].ddl
      BY <2>3 DEF Seen
    <3>5. ledger' # {} => LedgerTable \in Makes(tables')
      BY <2>1, <3>4, MakesGrows DEF DriftInv
    <3>6. applier'[a].rows # {} => LedgerTable \in Makes(tables' \cup applier'[a].ddl)
      BY <2>3, <3>4, MakesGrows DEF DriftInv
    <3> QED
      BY <1>1, <3>3, <3>5, <3>6
  <2> QED
    BY <1>5, <2>2, <2>3, ExecuteEffect
<1>6. ASSUME NEW a \in Appliers, InsertRow(a) PROVE DriftInv'
  <2> DEFINE row == applier[a].migration
             rest == applier[a].todo \ {row}
             next == [applier[a] EXCEPT !.pc = NextPc(rest), !.todo = rest,
                          !.rows = IF Autocommit THEN @ ELSE @ \cup {row}]
  <2>1. tables' = tables /\ applier[a] \in Recording /\ applier[a].pc = "row"
    BY <1>6, InsertRowEffect DEF InsertRow, At
  <2>2. Known(applier[a], ledger)
    BY DEF DriftInv
  <2>3. CASE applier' = [applier EXCEPT ![a] = Idle] /\ ledger' = ledger
    <3>1. applier'[a] = Idle
      BY <1>0, <2>3
    <3> QED
      BY <1>2, <2>1, <2>3, <3>1 DEF DriftInv
  <2>4. CASE /\ LedgerTable \in Makes(Seen(a))
             /\ ledger' = IF Autocommit THEN ledger \cup {row} ELSE ledger
             /\ applier' = [applier EXCEPT ![a] = next]
    <3>1. /\ applier'[a].pc = NextPc(rest) /\ applier'[a].files = applier[a].files
          /\ applier'[a].todo = rest /\ applier'[a].ddl = applier[a].ddl
          /\ applier'[a].rows = IF Autocommit THEN applier[a].rows
                                ELSE applier[a].rows \cup {row}
      BY <1>0, <2>1, <2>4 DEF Recording
    <3>2. Known(applier'[a], ledger')
      BY <2>1, <2>2, <2>4, <3>1 DEF Known, NextPc
    <3>3. Autocommit => LedgerTable \in Makes(tables)
      <4>1. Autocommit => Seen(a) = tables
        BY DEF RowInv, Seen
      <4> QED
        BY <2>4, <4>1
    <3>4. ledger' # {} => LedgerTable \in Makes(tables')
      BY <2>1, <2>4, <3>3 DEF DriftInv
    <3>5. LedgerTable \in Makes(tables' \cup applier'[a].ddl)
      BY <2>1, <2>4, <3>1 DEF Seen
    <3> QED
      BY <1>1, <3>2, <3>4, <3>5
  <2> QED
    BY <1>6, <2>3, <2>4 DEF InsertRow, Record
<1>7. ASSUME NEW a \in Appliers, Commit(a) PROVE DriftInv'
  <2>1. /\ applier'[a] = Idle /\ tables' = Seen(a) /\ tables \subseteq tables'
        /\ ledger' = ledger \cup applier[a].rows
    BY <1>0, <1>7 DEF Commit, Seen
  <2>2. ledger' # {} => LedgerTable \in Makes(tables')
    BY <2>1, MakesGrows DEF DriftInv
  <2> QED
    BY <1>2, <2>1, <2>2
<1>8. ASSUME NEW a \in Appliers, Crash(a) PROVE DriftInv'
  <2>1. applier'[a] = Idle /\ ledger' = ledger /\ tables' = tables
    BY <1>0, <1>8 DEF Crash
  <2> QED
    BY <1>2, <2>1 DEF DriftInv
<1>9. ASSUME NEW m \in Files, AddFile(m) \/ RemoveFile(m) \/ \E t \in Texts : EditFile(m, t)
      PROVE DriftInv'
  BY <1>9, EditEffect DEF DriftInv, Seen
<1>10. CASE UNCHANGED vars
  BY <1>10 DEF DriftInv, Seen, vars
<1> QED
  BY <1>3, <1>4, <1>5, <1>6, <1>7, <1>8, <1>9, <1>10 DEF Next, ApplierStep

\* With one applier at a time, every script is committed by a call whose files
\* describe the database, whatever the edits, crashes and commit boundary.
THEOREM DriftIsRefused == SoleApplier => (Spec => NoDriftedApply)
<1> SUFFICES ASSUME SoleApplier PROVE Spec => NoDriftedApply
  OBVIOUS
<1> DEFINE Undrifted == \A a \in Appliers :
        tables' # tables /\ applier'[a] # applier[a] => ledger \subseteq applier[a].files
<1>1. Init => RowInv /\ DriftInv
  BY DEF Init, RowInv, Seen, DriftInv, Known, Idle
<1>2. TypeOK /\ RowInv /\ DriftInv /\ [Next]_vars => RowInv' /\ DriftInv'
  BY StepKeepsRows, StepKeepsDriftInv
<1>3. ASSUME DriftInv, [Next]_vars PROVE Undrifted \/ UNCHANGED vars
  <2>1. ASSUME NEW a \in Appliers, Execute(a) \/ Commit(a) PROVE Undrifted
    <3>1. ledger \subseteq applier[a].files
      BY <1>3, <2>1 DEF DriftInv, Known, Execute, Commit, At
    <3> QED
      BY <3>1 DEF SoleApplier
  <2>2. ASSUME NEW a \in Appliers,
               \/ Discover(a) \/ Query(a) \/ InsertRow(a)
               \/ Crash(a)
        PROVE Undrifted
    BY <2>2 DEF Discover, Query, InsertRow, Crash
  <2>3. ASSUME NEW m \in Files, AddFile(m) \/ RemoveFile(m) \/ \E t \in Texts : EditFile(m, t)
        PROVE Undrifted
    BY <2>3, EditEffect
  <2> QED
    BY <1>3, <2>1, <2>2, <2>3 DEF Next, ApplierStep
<1>4. DriftInv /\ [Next]_vars => [Undrifted]_vars
  BY <1>3
<1> QED
  BY <1>1, <1>2, <1>4, TypeCorrect, PTL DEF Spec, NoDriftedApply
-----------------------------------------------------------------------------
(* Recorded versions.                                                      *)

\* A sole applier has nothing left to do that the ledger has.
Fresh(s, L) ==
    /\ s.pc \in {"ddl", "row"} =>
        OneFilePerVersion(s.todo) /\ \A n \in s.todo : ~Has(L, n[1])
    /\ s.pc = "row" => s.migration \in s.todo

FreshInv == \A a \in Appliers : Fresh(applier[a], ledger)

LEMMA StepKeepsFresh ==
    ASSUME SoleApplier, TypeOK, CoverInv, DriftInv, FreshInv, [Next]_vars
    PROVE  FreshInv'
<1>0. applier \in [Appliers -> States] /\ \A L : Fresh(Idle, L)
  BY DEF TypeOK, Fresh, Idle
<1>1. ASSUME NEW a \in Appliers, Fresh(applier'[a], ledger') PROVE FreshInv'
  BY <1>1 DEF FreshInv, SoleApplier, Fresh
<1>2. ASSUME NEW a \in Appliers,
             Discover(a) \/ Commit(a) \/ Crash(a)
      PROVE  FreshInv'
  <2>1. applier'[a] = Idle
        \/ applier'[a] = [pc |-> "query", files |-> repo, ddl |-> {}, rows |-> {}]
    BY <1>0, <1>2 DEF Discover, Commit, Crash
  <2>2. Fresh(applier'[a], ledger')
    BY <1>0, <2>1 DEF Fresh
  <2> QED
    BY <1>1, <2>2
<1>3. ASSUME NEW a \in Appliers, Query(a) PROVE FreshInv'
  <2> DEFINE files == applier[a].files
             todo == Pending(files, Already)
             next == [pc |-> "ddl", files |-> files, todo |-> todo,
                      migration |-> NoMigration, ddl |-> {}, rows |-> {}]
  <2>1. applier'[a] = Idle \/ applier'[a] = next
    BY <1>0, <1>3 DEF Query
  <2>2. OneFilePerVersion(todo)
    BY <1>3 DEF CoverInv, Covered, Query, At, Pending, OneFilePerVersion
  <2>3. Already = ledger /\ ledger' = ledger
    BY <1>3 DEF DriftInv, Already, Query
  <2>4. \A n \in todo : ~Has(ledger', n[1])
    BY <2>3 DEF Pending
  <2>5. next.pc = "ddl" /\ next.todo = todo
    OBVIOUS
  <2> HIDE DEF next, todo
  <2>6. Fresh(applier'[a], ledger')
    BY <1>0, <2>1, <2>2, <2>4, <2>5 DEF Fresh
  <2> QED
    BY <1>1, <2>6
<1>4. ASSUME NEW a \in Appliers, Execute(a) PROVE FreshInv'
  <2>1. ledger' = ledger /\ applier[a].pc = "ddl" /\ Fresh(applier[a], ledger)
    BY <1>4 DEF Execute, At, FreshInv
  <2>2. Fresh(applier'[a], ledger')
    BY <1>0, <1>4, <2>1, ExecuteEffect DEF Fresh, Least
  <2> QED
    BY <1>1, <2>2
<1>5. ASSUME NEW a \in Appliers, InsertRow(a) PROVE FreshInv'
  <2> DEFINE row == applier[a].migration
             rest == applier[a].todo \ {row}
             next == [applier[a] EXCEPT !.pc = NextPc(rest), !.todo = rest,
                          !.rows = IF Autocommit THEN @ ELSE @ \cup {row}]
  <2>1. applier[a] \in Recording /\ applier[a].pc = "row" /\ Fresh(applier[a], ledger)
    BY <1>5, InsertRowEffect DEF InsertRow, At, FreshInv
  <2>2. CASE applier' = [applier EXCEPT ![a] = Idle]
    BY <1>0, <1>1, <2>2
  <2>3. CASE /\ ledger' = IF Autocommit THEN ledger \cup {row} ELSE ledger
             /\ applier' = [applier EXCEPT ![a] = next]
    <3>1. applier'[a].pc = NextPc(rest) /\ applier'[a].todo = rest
      BY <1>0, <2>1, <2>3 DEF Recording
    <3>2. OneFilePerVersion(rest) /\ \A n \in rest : n[1] # row[1] /\ ~Has(ledger, n[1])
      BY <2>1 DEF Fresh, OneFilePerVersion
    <3>3. \A n \in rest : ~Has(ledger', n[1])
      BY <2>3, <3>2 DEF Has
    <3>4. NextPc(rest) # "row"
      BY DEF NextPc
    <3> HIDE DEF rest
    <3>5. Fresh(applier'[a], ledger')
      BY <3>1, <3>2, <3>3, <3>4 DEF Fresh
    <3> QED
      BY <1>1, <3>5
  <2> QED
    BY <1>5, <2>2, <2>3 DEF InsertRow, Record
<1>6. ASSUME NEW m \in Files, AddFile(m) \/ RemoveFile(m) \/ \E t \in Texts : EditFile(m, t)
      PROVE FreshInv'
  BY <1>6, EditEffect DEF FreshInv
<1>7. CASE UNCHANGED vars
  BY <1>7 DEF FreshInv, vars
<1> QED
  BY <1>2, <1>3, <1>4, <1>5, <1>6, <1>7 DEF Next, ApplierStep

\* Once the ledger has a version no text of it reaches the database again: for
\* any number of appliers that each run in one transaction, and for one applier
\* at a time with any commit boundary, whatever objects the texts make.
THEOREM RecordedVersionsStand == SoleApplier \/ ~Autocommit => (Spec => RecordedStands)
<1> DEFINE Stands == \A m \in tables' \ tables : ~Has(ledger, m[1])
<1>1. Init => RowInv /\ ApartInv
  BY DEF Init, RowInv, ApartInv, OneFilePerVersion, Apart, Seen, Idle
<1>2. TypeOK /\ RowInv /\ ApartInv /\ [Next]_vars => RowInv' /\ ApartInv'
  BY StepKeepsRows, StepKeepsApart
<1>3. ASSUME NEW a \in Appliers,
             \/ Discover(a) \/ Query(a) \/ InsertRow(a) \/ Crash(a)
      PROVE  Stands
  BY <1>3 DEF Discover, Query, InsertRow, Crash
<1>4. ASSUME NEW m \in Files, AddFile(m) \/ RemoveFile(m) \/ \E t \in Texts : EditFile(m, t)
      PROVE  Stands
  BY <1>4, EditEffect
<1>5. ASSUME ~Autocommit PROVE Spec => RecordedStands
  <2>1. Init => TransactionInv
    BY InitIsAbreast
  <2>2. TypeOK /\ TransactionInv /\ [Next]_vars => TransactionInv'
    BY <1>5, StepKeepsTransaction
  <2>3. ASSUME TypeOK, TransactionInv, ApartInv, [Next]_vars PROVE Stands \/ UNCHANGED vars
    <3>1. ASSUME NEW a \in Appliers, Execute(a) PROVE Stands
      BY <1>5, <3>1 DEF Execute
    <3>2. ASSUME NEW a \in Appliers, Commit(a) PROVE Stands
      <4>1. applier[a].ddl = applier[a].rows
        BY <2>3, <3>2 DEF TransactionInv, Abreast, Commit, At
      <4>2. Apart(applier[a].rows, ledger)
        BY <2>3 DEF ApartInv
      <4> QED
        BY <3>2, <4>1, <4>2 DEF Commit, Apart, Has
    <3> QED
      BY <1>3, <1>4, <2>3, <3>1, <3>2 DEF Next, ApplierStep
  <2>4. TypeOK /\ TransactionInv /\ ApartInv /\ [Next]_vars => [Stands]_vars
    BY <2>3
  <2> QED
    BY <1>1, <1>2, <2>1, <2>2, <2>4, TypeCorrect, PTL DEF Spec, RecordedStands
<1>6. ASSUME SoleApplier, Autocommit PROVE Spec => RecordedStands
  <2>1. Init => CoverInv /\ DriftInv /\ FreshInv
    BY DEF Init, CoverInv, Covered, DriftInv, Known, FreshInv, Fresh, Idle
  <2>2. TypeOK /\ RowInv /\ CoverInv /\ DriftInv /\ FreshInv /\ [Next]_vars
            => CoverInv' /\ DriftInv' /\ FreshInv'
    BY <1>6, StepKeepsCover, StepKeepsDriftInv, StepKeepsFresh
  <2>3. ASSUME RowInv, FreshInv, [Next]_vars PROVE Stands \/ UNCHANGED vars
    <3>1. ASSUME NEW a \in Appliers, Execute(a) PROVE Stands
      BY <2>3, <3>1 DEF Execute, At, FreshInv, Fresh, Least
    <3>2. ASSUME NEW a \in Appliers, Commit(a) PROVE Stands
      BY <1>6, <2>3, <3>2 DEF RowInv, Commit
    <3> QED
      BY <1>3, <1>4, <2>3, <3>1, <3>2 DEF Next, ApplierStep
  <2>4. RowInv /\ FreshInv /\ [Next]_vars => [Stands]_vars
    BY <2>3
  <2> QED
    BY <1>1, <1>2, <2>1, <2>2, <2>4, TypeCorrect, PTL DEF Spec, RecordedStands
<1> QED
  BY <1>5, <1>6
=============================================================================
