-------------------------- MODULE ExperimentsProofs --------------------------
(***************************************************************************)
(* Proofs about Experiments, for every set of processes, environments,     *)
(* machines, plans and consumers.                                          *)
(***************************************************************************)
EXTENDS Experiments, TLAPS, FiniteSetTheorems, FunctionTheorems

\* A process that is neither idle nor stopped is a Process record.
LEMMA Running ==
    ASSUME TypeOK, NEW w \in Workers, worker[w] # Idle, worker[w] # Stopped
    PROVE  worker[w] \in Process
BY DEF TypeOK

LEMMA PhaseIsProcess ==
    ASSUME TypeOK, NEW w \in Workers, worker[w].pc # "idle", worker[w].pc # "stopped"
    PROVE  worker[w] \in Process
BY Running DEF Idle, Stopped

LEMMA InitType == Init => TypeOK
BY FS_EmptySet DEF Init, TypeOK, Idle, HasRow, At

\* What a process has read is of the type of its environment.
LEMMA ReadsAreTyped ==
    ASSUME NEW vs, NEW env, NEW uses, NEW u \in Reads(vs, env, uses)
    PROVE  u \in [PinnedEnv -> Values \cup {NotRead}]
BY DEF Reads

LEMMA RowIsTyped ==
    ASSUME TypeOK, NEW w \in Workers, At(w, "counted"), NotNull(Row(w))
    PROVE  Row(w) \in RowType /\ Row(w).experiment = w
<1>1. worker[w] \in Process
  BY PhaseIsProcess DEF At
<1>2. /\ worker[w].plan \in Plans /\ worker[w].setup \in Setups /\ worker[w].count \in Nat
  BY <1>1 DEF Process
<1>3. TrialIndex(w) \in Int
  BY <1>2 DEF TrialIndex
<1>4. worker[w].setup.injected # None
  BY DEF NotNull, Row
<1> QED
  BY <1>2, <1>3, <1>4 DEF Row, RowType, Families, Status

\* A step of a process leaves the other processes and, but for a new row or a new
\* status of its own row, the table alone.
LEMMA StatusKeepsRows ==
    ASSUME TypeOK, NEW w \in Workers, NEW status \in Status, SetStatus(w, status)
    PROVE  /\ rows' \subseteq RowType /\ IsFiniteSet(rows')
           /\ \A v \in Workers : RowOf(v) # {} => RowOf(v)' # {}
<1>1. rows' = (rows \ RowOf(w)) \cup {[r EXCEPT !.status = status] : r \in RowOf(w)}
  BY DEF SetStatus
<1>2. \A r \in rows : /\ [r EXCEPT !.status = status] \in RowType
                      /\ [r EXCEPT !.status = status].experiment = r.experiment
  BY DEF TypeOK, RowType
<1>3. rows' \subseteq RowType
  BY <1>1, <1>2 DEF TypeOK, RowOf
<1>5. IsFiniteSet(rows')
  <2>1. IsFiniteSet(rows \ RowOf(w)) /\ IsFiniteSet(RowOf(w))
    BY FS_Subset DEF TypeOK, RowOf
  <2>2. IsFiniteSet({[r EXCEPT !.status = status] : r \in RowOf(w)})
    <3> DEFINE T == {[r EXCEPT !.status = status] : r \in RowOf(w)}
               f == [r \in RowOf(w) |-> [r EXCEPT !.status = status]]
    <3>1. f \in [RowOf(w) -> T] /\ \A t \in T : \E r \in RowOf(w) : f[r] = t
      OBVIOUS
    <3> HIDE DEF f, T
    <3>2. f \in Surjection(RowOf(w), T)
      BY <3>1, Fun_IsSurj
    <3> QED
      BY <2>1, <3>2, FS_Surjection DEF T
  <2> QED
    BY <1>1, <2>1, <2>2, FS_Union
<1>4. ASSUME NEW v \in Workers, RowOf(v) # {} PROVE RowOf(v)' # {}
  <2>1. PICK r \in rows : r.experiment = v
    BY <1>4 DEF RowOf
  <2>2. CASE v = w
    <3>1. [r EXCEPT !.status = status] \in rows'
      BY <1>1, <2>1, <2>2 DEF RowOf
    <3> QED
      BY <1>2, <2>1, <3>1 DEF RowOf
  <2>3. CASE v # w
    <3>1. r \in rows'
      BY <1>1, <2>1, <2>3 DEF RowOf
    <3> QED
      BY <2>1, <3>1 DEF RowOf
  <2> QED
    BY <2>2, <2>3
<1> QED
  BY <1>3, <1>4, <1>5

LEMMA StepType == TypeOK /\ [Next]_vars => TypeOK'
<1> SUFFICES ASSUME TypeOK, [Next]_vars PROVE TypeOK'
  OBVIOUS
<1> DEFINE Others(w) == \A v \in Workers : v # w => worker'[v] = worker[v]
           Typed(w) == worker' \in [Workers -> Process \cup {Idle, Stopped}]
\* If a step leaves table and streams alone, and gives nobody a row, types remain.
<1>1. ASSUME NEW w \in Workers, UNCHANGED <<rows, streams>>, Typed(w), Others(w),
             worker'[w].pc \notin {"running", "done"}
      PROVE  TypeOK'
  BY <1>1 DEF TypeOK, HasRow, At, RowOf
<1>2. ASSUME NEW w \in Workers, NEW setup \in Setups, NEW plan \in Plans,
             NEW env \in Environments, Start(w, setup, plan, env)
      PROVE  TypeOK'
  <2>1. PICK uses \in Reads(AtStart, env, [v \in PinnedEnv |-> NotRead]) :
          worker' = [worker EXCEPT ![w] =
                       [pc |-> "started", setup |-> setup, plan |-> plan, env |-> env,
                        uses |-> uses, late |-> FALSE, count |-> 0, drawn |-> {}]]
    BY <1>2 DEF Start
  <2>2. uses \in [PinnedEnv -> Values \cup {NotRead}] /\ env \in [PinnedEnv -> Values \cup {None}]
    BY ReadsAreTyped, ExperimentsAreTyped
  <2>3. worker'[w] \in Process /\ worker'[w].pc = "started" /\ Others(w)
    BY <2>1, <2>2 DEF TypeOK, Process, Phases
  <2>4. Typed(w)
    BY <2>1, <2>3 DEF TypeOK
  <2> QED
    BY <1>1, <1>2, <2>3, <2>4 DEF Start
<1>3. ASSUME NEW w \in Workers, Import(w) PROVE TypeOK'
  <2>1. worker[w] \in Process
    BY <1>3, PhaseIsProcess DEF Import, At
  <2>2. PICK uses \in Reads(AtImport, worker[w].env, worker[w].uses) :
          worker' = [worker EXCEPT ![w].pc = "imported", ![w].uses = uses]
    BY <1>3 DEF Import
  <2>3. uses \in [PinnedEnv -> Values \cup {NotRead}]
    BY ReadsAreTyped
  <2>4. worker'[w] = [worker[w] EXCEPT !.pc = "imported", !.uses = uses] /\ Others(w)
    BY <2>2 DEF TypeOK
  <2>5. worker'[w] \in Process /\ worker'[w].pc = "imported"
    BY <2>1, <2>3, <2>4 DEF Process, Phases
  <2>6. Typed(w)
    BY <2>2, <2>5 DEF TypeOK
  <2> QED
    BY <1>1, <1>3, <2>4, <2>5, <2>6 DEF Import
<1>4. ASSUME NEW w \in Workers, Write(w) PROVE TypeOK'
  <2>1. worker[w] \in Process /\ worker[w].pc \in {"started", "imported"}
    BY <1>4, PhaseIsProcess DEF Write, At
  <2> DEFINE env == [v \in PinnedEnv |-> "pinned"]
             late == worker[w].late \/ \E v \in Violations(worker[w].env) :
                                          worker[w].uses[v] # NotRead
  <2>2. env \in [PinnedEnv -> Values \cup {None}] /\ late \in BOOLEAN
    BY <2>1 DEF Values, Process
  <2>3. worker' = [worker EXCEPT ![w] = [worker[w] EXCEPT !.env = env, !.late = late]]
    BY <1>4 DEF Write, TypeOK
  <2> HIDE DEF env, late
  <2>4. worker'[w] = [worker[w] EXCEPT !.env = env, !.late = late] /\ Others(w)
    BY <2>3 DEF TypeOK
  <2>5. worker'[w] \in Process /\ worker'[w].pc \in {"started", "imported"}
    BY <2>1, <2>2, <2>4 DEF Process, Phases
  <2>6. Typed(w)
    BY <2>3, <2>5 DEF TypeOK
  <2> QED
    BY <1>1, <1>4, <2>4, <2>5, <2>6 DEF Write
<1>5. ASSUME NEW w \in Workers, Check(w) PROVE TypeOK'
  <2>1. worker[w] \in Process
    BY <1>5, PhaseIsProcess DEF Check, At
  <2>2. [worker[w] EXCEPT !.pc = "checked"] \in Process
    BY <2>1 DEF Process, Phases
  <2>3. /\ worker'[w] \in {[worker[w] EXCEPT !.pc = "checked"], Stopped} /\ Others(w)
        /\ Typed(w)
    BY <1>5, <2>2 DEF Check, TypeOK
  <2>4. worker'[w].pc \in {"checked", "stopped"}
    BY <2>1, <2>3 DEF Process, Stopped
  <2> QED
    BY <1>1, <1>5, <2>3, <2>4 DEF Check
<1>6. ASSUME NEW w \in Workers, Conflict(w) PROVE TypeOK'
  <2>1. worker[w] \in Process
    BY <1>6, PhaseIsProcess DEF Conflict, At
  <2>2. worker'[w] = [worker[w] EXCEPT !.pc = "checked"] /\ Others(w)
    BY <1>6 DEF Conflict, TypeOK
  <2>3. worker'[w] \in Process /\ worker'[w].pc = "checked"
    BY <2>1, <2>2 DEF Process, Phases
  <2>4. Typed(w)
    BY <1>6, <2>3 DEF TypeOK, Conflict
  <2> QED
    BY <1>1, <1>6, <2>2, <2>3, <2>4 DEF Conflict
<1>7. ASSUME NEW w \in Workers, Raise(w) \/ Refuse(w) \/ Crash(w) PROVE TypeOK'
  <2>1. worker' = [worker EXCEPT ![w] = Stopped] /\ UNCHANGED <<rows, streams>>
    BY <1>7 DEF Raise, Refuse, Crash
  <2>2. Typed(w) /\ Others(w) /\ worker'[w].pc = "stopped"
    BY <2>1 DEF TypeOK, Stopped
  <2> QED
    BY <1>1, <2>1, <2>2
<1>8. ASSUME NEW w \in Workers, Take(w) PROVE TypeOK'
  <2>1. worker[w] \in Process
    BY <1>8, PhaseIsProcess DEF Take, At
  <2> DEFINE count == Cardinality(OfFamily(worker[w].plan.family))
  <2>2. count \in Nat
    BY FS_Subset, FS_CardinalityType DEF TypeOK, OfFamily
  <2>3. worker' = [worker EXCEPT ![w] = [worker[w] EXCEPT !.pc = "counted", !.count = count]]
    BY <1>8 DEF Take, TypeOK
  <2> HIDE DEF count
  <2>4. worker'[w] = [worker[w] EXCEPT !.pc = "counted", !.count = count] /\ Others(w)
    BY <2>3 DEF TypeOK
  <2>5. worker'[w] \in Process /\ worker'[w].pc = "counted"
    BY <2>1, <2>2, <2>4 DEF Process, Phases
  <2>6. Typed(w)
    BY <2>3, <2>5 DEF TypeOK
  <2> QED
    BY <1>1, <1>8, <2>4, <2>5, <2>6 DEF Take
<1>9. ASSUME NEW w \in Workers, Insert(w) PROVE TypeOK'
  <2>1. worker[w] \in Process
    BY <1>9, PhaseIsProcess DEF Insert, At
  <2>2. Row(w) \in RowType /\ Row(w).experiment = w
    BY <1>9, RowIsTyped DEF Insert
  <2>3. worker'[w] = [worker[w] EXCEPT !.pc = "running"] /\ Others(w)
    BY <1>9 DEF Insert, TypeOK
  <2>4. worker'[w] \in Process /\ worker'[w].pc = "running"
    BY <2>1, <2>3 DEF Process, Phases
  <2>5. Typed(w)
    BY <1>9, <2>4 DEF TypeOK, Insert
  <2>6. rows' = rows \cup {Row(w)} /\ streams' = streams
    BY <1>9 DEF Insert
  <2>7. IsFiniteSet(rows')
    BY <2>6, FS_AddElement DEF TypeOK
  <2>8. \A v \in Workers : HasRow(v)' => RowOf(v)' # {}
    BY <2>2, <2>3, <2>6 DEF TypeOK, HasRow, At, RowOf
  <2> QED
    BY <2>2, <2>5, <2>6, <2>7, <2>8 DEF TypeOK
<1>10. ASSUME NEW w \in Workers, NEW name \in Names, Draw(w, name) PROVE TypeOK'
  <2>1. worker[w] \in Process /\ worker[w].pc = "running"
    BY <1>10, PhaseIsProcess DEF Draw, At
  <2>2. worker[w].drawn \cup {name} \in SUBSET Names
    BY <2>1 DEF Process
  <2>3. worker'[w] = [worker[w] EXCEPT !.drawn = worker[w].drawn \cup {name}] /\ Others(w)
    BY <1>10 DEF Draw, TypeOK
  <2>4. worker'[w] \in Process /\ worker'[w].pc = "running"
    BY <2>1, <2>2, <2>3 DEF Process, Phases
  <2>5. Typed(w)
    BY <1>10, <2>3, <2>4 DEF TypeOK, Draw
  <2>6. \A s \in streams' : s.experiment \in Workers /\ s.name \in Names
    BY <1>10 DEF TypeOK, Draw
  <2>7. rows' = rows
    BY <1>10 DEF Draw
  <2>8. \A v \in Workers : HasRow(v)' => RowOf(v)' # {}
    BY <2>1, <2>3, <2>4, <2>7 DEF TypeOK, HasRow, At, RowOf
  <2> QED
    BY <2>5, <2>6, <2>7, <2>8 DEF TypeOK
<1>11. ASSUME NEW w \in Workers, Finish(w) PROVE TypeOK'
  <2>1. worker[w] \in Process /\ At(w, "running")
    BY <1>11, PhaseIsProcess DEF Finish, At
  <2>2. worker'[w] = [worker[w] EXCEPT !.pc = "done"] /\ Others(w) /\ streams' = streams
    BY <1>11 DEF Finish, TypeOK
  <2>3. worker'[w] \in Process
    BY <2>1, <2>2 DEF Process, Phases
  <2>4. Typed(w)
    BY <1>11, <2>2, <2>3 DEF TypeOK, Finish
  <2>5. /\ rows' \subseteq RowType /\ IsFiniteSet(rows')
        /\ \A v \in Workers : RowOf(v) # {} => RowOf(v)' # {}
    BY <1>11, StatusKeepsRows DEF Finish, Status
  <2>6. \A v \in Workers : HasRow(v)' => HasRow(v)
    BY <2>1, <2>2 DEF HasRow, At
  <2> QED
    BY <2>2, <2>4, <2>5, <2>6 DEF TypeOK
<1>12. ASSUME NEW w \in Workers, Cancel(w) PROVE TypeOK'
  <2>1. worker' = [worker EXCEPT ![w] = Stopped] /\ streams' = streams
    BY <1>12 DEF Cancel
  <2>2. Typed(w) /\ Others(w) /\ worker'[w].pc = "stopped"
    BY <2>1 DEF TypeOK, Stopped
  <2>3. /\ rows' \subseteq RowType /\ IsFiniteSet(rows')
        /\ \A v \in Workers : RowOf(v) # {} => RowOf(v)' # {}
    BY <1>12, StatusKeepsRows DEF Cancel, Status
  <2>4. \A v \in Workers : HasRow(v)' => HasRow(v)
    BY <2>2 DEF HasRow, At
  <2> QED
    BY <2>1, <2>2, <2>3, <2>4 DEF TypeOK
<1>13. CASE UNCHANGED vars
  BY <1>13 DEF TypeOK, vars, HasRow, At, RowOf
<1> QED
  BY <1>2, <1>3, <1>4, <1>5, <1>6, <1>7, <1>8, <1>9, <1>10, <1>11, <1>12, <1>13 DEF Next

\* The table and the processes have their types, and who runs has a row.
THEOREM TypeCorrect == Spec => []TypeOK
BY InitType, StepType, PTL DEF Spec

-----------------------------------------------------------------------------
(* What a process owns: its environment, its row and its streams.          *)

StreamsOf(w) == {s \in streams : s.experiment = w}

Step(w) ==
    \/ \E setup \in Setups, plan \in Plans, env \in Environments : Start(w, setup, plan, env)
    \/ Import(w) \/ Write(w) \/ Check(w)
    \/ Take(w) \/ Raise(w) \/ Insert(w) \/ Conflict(w) \/ Refuse(w)
    \/ \E name \in Names : Draw(w, name)
    \/ Finish(w) \/ Cancel(w) \/ Crash(w)

LEMMA NextIsStep == Next <=> \E w \in Workers : Step(w)
BY DEF Next, Step

\* No step of a process touches what another one owns.
LEMMA OthersStay ==
    ASSUME TypeOK, NEW w \in Workers, Step(w), NEW v \in Workers, v # w
    PROVE  /\ worker'[v] = worker[v] /\ RowOf(v)' = RowOf(v)
           /\ StreamsOf(v)' = StreamsOf(v)
<1>1. worker'[v] = worker[v]
  BY DEF TypeOK, Step, Start, Import, Write, Check, Take, Raise, Insert, Conflict, Refuse,
         Draw, Finish, Cancel, Crash
<1>2. StreamsOf(v)' = StreamsOf(v)
  <2>1. CASE UNCHANGED streams
    BY <2>1 DEF StreamsOf
  <2>2. ASSUME NEW name \in Names, Draw(w, name) PROVE StreamsOf(v)' = StreamsOf(v)
    BY <2>2 DEF Draw, StreamsOf
  <2> QED
    BY <2>1, <2>2 DEF Step, Start, Import, Write, Check, Take, Raise, Insert, Conflict,
           Refuse, Finish, Cancel, Crash
<1>3. RowOf(v)' = RowOf(v)
  <2>1. CASE UNCHANGED rows
    BY <2>1 DEF RowOf
  <2>2. CASE Insert(w)
    BY <2>2, RowIsTyped DEF Insert, RowOf
  <2>3. ASSUME NEW status \in Status, SetStatus(w, status) PROVE RowOf(v)' = RowOf(v)
    <3>1. rows' = (rows \ RowOf(w)) \cup {[r EXCEPT !.status = status] : r \in RowOf(w)}
      BY <2>3 DEF SetStatus
    <3>2. \A r \in RowOf(w) : [r EXCEPT !.status = status].experiment = w
      BY DEF TypeOK, RowType, RowOf
    <3> QED
      BY <3>1, <3>2 DEF RowOf
  <2> QED
    BY <2>1, <2>2, <2>3 DEF Step, Start, Import, Write, Check, Take, Raise, Conflict,
           Refuse, Draw, Finish, Cancel, Crash, Status
<1> QED
  BY <1>1, <1>2, <1>3

\* Unless a variable was written too late, the process works with what its
\* environment says, and past the check that is what is pinned.
EnvOwn(w) ==
    /\ ~worker[w].late => \A x \in PinnedEnv :
          worker[w].uses[x] # NotRead => worker[w].uses[x] \in Effective(worker[w].env[x])
    /\ \A x \in AtStart : worker[w].uses[x] # NotRead
    /\ ~At(w, "started") => \A x \in PinnedEnv : worker[w].uses[x] # NotRead
    /\ worker[w].pc \notin {"started", "imported"} =>
          \A x \in PinnedEnv : worker[w].env[x] = "pinned"

RowOwn(w) ==
    \A r \in RowOf(w) :
        /\ r.environment_fingerprint = Fingerprint(worker[w].setup)
        /\ r.strategy_spec_hash = DocumentHash(worker[w].plan.document)
        /\ r.dataset_snapshot_id = worker[w].plan.snapshot
        /\ r.random_seed = worker[w].plan.seed
        /\ r.code_commit = worker[w].setup.commit
        /\ r.gate_policy_version = worker[w].plan.gate
        /\ r.cost_model_id = worker[w].plan.cost
        /\ r.risk_policy_version = worker[w].plan.risk

StreamOwn(w) ==
    StreamsOf(w) = {[experiment |-> w, seed |-> worker[w].plan.seed, name |-> n,
                     stream |-> Stream(w, n)] : n \in worker[w].drawn}

Early == {"started", "imported", "checked", "counted"}

Own(w) ==
    /\ At(w, "idle") \/ worker[w].pc \in Early => RowOf(w) = {} /\ StreamsOf(w) = {}
    /\ worker[w].pc \in Early => worker[w].drawn = {}
    /\ worker[w].pc \in Phases => EnvOwn(w)
    /\ HasRow(w) => RowOwn(w) /\ StreamOwn(w)
    /\ At(w, "done") => worker[w].drawn = Names

LEMMA OthersStayOwn ==
    ASSUME TypeOK, NEW w \in Workers, Step(w), NEW v \in Workers, v # w, Own(v)
    PROVE  Own(v)'
BY OthersStay DEF Own, EnvOwn, RowOwn, StreamOwn, Stream, At, HasRow

\* A process that stops owns nothing that Own speaks of.
LEMMA StoppedOwns ==
    ASSUME NEW w, worker'[w] = Stopped
    PROVE  Own(w)'
BY DEF Own, Stopped, At, HasRow, Early, Phases

LEMMA PinnedIsEffective == Effective("pinned") = {"pinned"}
BY ExperimentsAreTyped DEF Effective, Values

\* Variables of vs are read as Reads has them, the others stay as they were.
LEMMA ReadIsEffective ==
    ASSUME NEW vs, NEW env, NEW uses, NEW u \in Reads(vs, env, uses),
           env \in [PinnedEnv -> Values \cup {None}]
    PROVE  \A x \in PinnedEnv :
              IF x \in vs THEN u[x] \in Effective(env[x]) /\ u[x] # NotRead
                          ELSE u[x] = uses[x]
<1>1. \A x \in PinnedEnv : env[x] = None \/ env[x] \in Values
  OBVIOUS
<1> QED
  BY <1>1, ExperimentsAreTyped DEF Reads, Effective

LEMMA StartOwns ==
    ASSUME TypeOK, NEW w \in Workers, Own(w), NEW setup \in Setups, NEW plan \in Plans,
           NEW env \in Environments, Start(w, setup, plan, env)
    PROVE  Own(w)'
<1>1. PICK uses \in Reads(AtStart, env, [v \in PinnedEnv |-> NotRead]) :
        worker' = [worker EXCEPT ![w] =
                     [pc |-> "started", setup |-> setup, plan |-> plan, env |-> env,
                      uses |-> uses, late |-> FALSE, count |-> 0, drawn |-> {}]]
  BY DEF Start
<1>2. worker'[w] = [pc |-> "started", setup |-> setup, plan |-> plan, env |-> env,
                    uses |-> uses, late |-> FALSE, count |-> 0, drawn |-> {}]
  BY <1>1 DEF TypeOK
<1>3. env \in [PinnedEnv -> Values \cup {None}]
  BY ExperimentsAreTyped
<1>4. \A x \in PinnedEnv :
        IF x \in AtStart THEN uses[x] \in Effective(env[x]) /\ uses[x] # NotRead
                         ELSE uses[x] = [v \in PinnedEnv |-> NotRead][x]
  BY <1>3, ReadIsEffective
<1>5. EnvOwn(w)'
  BY <1>2, <1>4 DEF EnvOwn, At, PinnedEnv
<1>6. RowOf(w)' = {} /\ StreamsOf(w)' = {}
  BY DEF Start, Own, RowOf, StreamsOf
<1> QED
  BY <1>2, <1>5, <1>6 DEF Own, At, HasRow, Early

LEMMA ImportOwns ==
    ASSUME TypeOK, NEW w \in Workers, Own(w), Import(w)
    PROVE  Own(w)'
<1>1. worker[w] \in Process /\ worker[w].pc = "started"
  BY PhaseIsProcess DEF Import, At
<1>2. PICK uses \in Reads(AtImport, worker[w].env, worker[w].uses) :
        worker' = [worker EXCEPT ![w].pc = "imported", ![w].uses = uses]
  BY DEF Import
<1>3. worker'[w] = [worker[w] EXCEPT !.pc = "imported", !.uses = uses]
  BY <1>2 DEF TypeOK
<1>4. /\ worker'[w].pc = "imported" /\ worker'[w].uses = uses /\ worker'[w].env = worker[w].env
      /\ worker'[w].late = worker[w].late /\ worker'[w].drawn = worker[w].drawn
  BY <1>1, <1>3 DEF Process
<1>5. \A x \in PinnedEnv :
        IF x \in AtImport THEN uses[x] \in Effective(worker[w].env[x]) /\ uses[x] # NotRead
                          ELSE uses[x] = worker[w].uses[x]
  BY <1>1, ReadIsEffective DEF Process
<1>6. EnvOwn(w)
  BY <1>1 DEF Own, Phases
<1>7. EnvOwn(w)'
  BY <1>4, <1>5, <1>6 DEF EnvOwn, At, PinnedEnv
<1>8. RowOf(w)' = {} /\ StreamsOf(w)' = {} /\ worker[w].drawn = {}
  BY <1>1 DEF Import, Own, RowOf, StreamsOf, Early
<1> QED
  BY <1>4, <1>7, <1>8 DEF Own, At, HasRow, Early

LEMMA WriteOwns ==
    ASSUME TypeOK, NEW w \in Workers, Own(w), Write(w)
    PROVE  Own(w)'
<1>1. worker[w] \in Process /\ worker[w].pc \in {"started", "imported"}
  BY PhaseIsProcess DEF Write, At
<1> DEFINE env == [v \in PinnedEnv |-> "pinned"]
           late == worker[w].late \/ \E v \in Violations(worker[w].env) :
                                        worker[w].uses[v] # NotRead
<1>2. worker'[w] = [worker[w] EXCEPT !.env = env, !.late = late]
  BY DEF Write, TypeOK
<1>3. /\ worker'[w].pc = worker[w].pc /\ worker'[w].uses = worker[w].uses
      /\ worker'[w].env = env /\ worker'[w].late = late /\ worker'[w].drawn = worker[w].drawn
  BY <1>1, <1>2 DEF Process
<1>4. EnvOwn(w)
  BY <1>1 DEF Own, Phases
<1>5. ASSUME ~late, NEW x \in PinnedEnv, worker[w].uses[x] # NotRead
      PROVE  worker[w].uses[x] \in Effective(env[x])
  <2>1. worker[w].env[x] = "pinned" /\ ~worker[w].late
    BY <1>5 DEF Violations
  <2> QED
    BY <1>4, <1>5, <2>1 DEF EnvOwn
<1> HIDE DEF env, late
<1>6. EnvOwn(w)'
  BY <1>1, <1>3, <1>4, <1>5 DEF EnvOwn, At
<1>7. RowOf(w)' = {} /\ StreamsOf(w)' = {} /\ worker[w].drawn = {}
  BY <1>1 DEF Write, Own, RowOf, StreamsOf, Early
<1> QED
  BY <1>1, <1>3, <1>6, <1>7 DEF Own, At, HasRow, Early

LEMMA CheckOwns ==
    ASSUME TypeOK, NEW w \in Workers, Own(w), Check(w)
    PROVE  Own(w)'
<1>1. worker[w] \in Process /\ worker[w].pc = "imported"
  BY PhaseIsProcess DEF Check, At
<1>2. CASE Violations(worker[w].env) # {}
  BY <1>2, StoppedOwns DEF Check, TypeOK
<1>3. CASE Violations(worker[w].env) = {}
  <2>1. worker'[w] = [worker[w] EXCEPT !.pc = "checked"]
    BY <1>3 DEF Check, TypeOK
  <2>2. /\ worker'[w].pc = "checked" /\ worker'[w].uses = worker[w].uses
        /\ worker'[w].env = worker[w].env /\ worker'[w].late = worker[w].late
        /\ worker'[w].drawn = worker[w].drawn
    BY <1>1, <2>1 DEF Process
  <2>3. \A x \in PinnedEnv : worker[w].env[x] = "pinned"
    BY <1>3 DEF Violations
  <2>4. EnvOwn(w)
    BY <1>1 DEF Own, Phases
  <2>5. EnvOwn(w)'
    BY <1>1, <2>2, <2>3, <2>4 DEF EnvOwn, At
  <2>6. RowOf(w)' = {} /\ StreamsOf(w)' = {} /\ worker[w].drawn = {}
    BY <1>1 DEF Check, Own, RowOf, StreamsOf, Early
  <2> QED
    BY <2>2, <2>5, <2>6 DEF Own, At, HasRow, Early
<1> QED
  BY <1>2, <1>3

\* A step that only moves a checked process on keeps what it owns.
LEMMA MoveOwns ==
    ASSUME TypeOK, NEW w \in Workers, Own(w), worker[w] \in Process,
           worker[w].pc \in {"checked", "counted"}, worker'[w].pc \in {"checked", "counted"},
           worker'[w].uses = worker[w].uses, worker'[w].env = worker[w].env,
           worker'[w].late = worker[w].late, worker'[w].drawn = worker[w].drawn,
           UNCHANGED <<rows, streams>>
    PROVE  Own(w)'
<1>1. EnvOwn(w) /\ EnvOwn(w)'
  BY DEF Own, Phases, EnvOwn, At
<1>2. RowOf(w)' = {} /\ StreamsOf(w)' = {} /\ worker[w].drawn = {}
  BY DEF Own, RowOf, StreamsOf, Early
<1> QED
  BY <1>1, <1>2 DEF Own, At, HasRow, Early

LEMMA InsertOwns ==
    ASSUME TypeOK, NEW w \in Workers, Own(w), Insert(w)
    PROVE  Own(w)'
<1>1. worker[w] \in Process /\ worker[w].pc = "counted"
  BY PhaseIsProcess DEF Insert, At
<1>2. worker'[w] = [worker[w] EXCEPT !.pc = "running"]
  BY DEF Insert, TypeOK
<1>3. /\ worker'[w].pc = "running" /\ worker'[w].uses = worker[w].uses
      /\ worker'[w].env = worker[w].env /\ worker'[w].late = worker[w].late
      /\ worker'[w].drawn = worker[w].drawn /\ worker'[w].plan = worker[w].plan
      /\ worker'[w].setup = worker[w].setup
  BY <1>1, <1>2 DEF Process
<1>4. EnvOwn(w) /\ EnvOwn(w)'
  BY <1>1, <1>3 DEF Own, Phases, EnvOwn, At
<1>5. RowOf(w) = {} /\ StreamsOf(w)' = {} /\ worker'[w].drawn = {}
  BY <1>1, <1>3 DEF Insert, Own, StreamsOf, Early
<1>6. RowOf(w)' = {Row(w)}
  BY <1>5, RowIsTyped DEF Insert, RowOf
<1>7. RowOwn(w)'
  BY <1>3, <1>6 DEF RowOwn, Row
<1>8. StreamOwn(w)'
  BY <1>5 DEF StreamOwn
<1> QED
  BY <1>3, <1>4, <1>7, <1>8 DEF Own, At, HasRow, Early

LEMMA DrawOwns ==
    ASSUME TypeOK, NEW w \in Workers, Own(w), NEW name \in Names, Draw(w, name)
    PROVE  Own(w)'
<1>1. worker[w] \in Process /\ worker[w].pc = "running"
  BY PhaseIsProcess DEF Draw, At
<1>2. worker'[w] = [worker[w] EXCEPT !.drawn = worker[w].drawn \cup {name}]
  BY DEF Draw, TypeOK
<1>3. /\ worker'[w].pc = "running" /\ worker'[w].uses = worker[w].uses
      /\ worker'[w].env = worker[w].env /\ worker'[w].late = worker[w].late
      /\ worker'[w].drawn = worker[w].drawn \cup {name} /\ worker'[w].plan = worker[w].plan
      /\ worker'[w].setup = worker[w].setup
  BY <1>1, <1>2 DEF Process
<1>4. EnvOwn(w) /\ EnvOwn(w)'
  BY <1>1, <1>3 DEF Own, Phases, EnvOwn, At
<1>5. RowOwn(w) /\ StreamOwn(w)
  BY <1>1 DEF Own, HasRow, At
<1>6. RowOwn(w)'
  BY <1>3, <1>5 DEF Draw, RowOwn, RowOf
<1> DEFINE new == [experiment |-> w, seed |-> worker[w].plan.seed, name |-> name,
                   stream |-> Stream(w, name)]
<1>7. StreamsOf(w)' = StreamsOf(w) \cup {new}
  BY DEF Draw, StreamsOf
<1>8. \A n \in Names : Stream(w, n)' = Stream(w, n)
  BY <1>3 DEF Stream
<1>9. StreamOwn(w)'
  <2>1. worker[w].drawn \subseteq Names
    BY <1>1 DEF Process
  <2> QED
    BY <1>3, <1>5, <1>7, <1>8, <2>1 DEF StreamOwn
<1> QED
  BY <1>3, <1>4, <1>6, <1>9 DEF Own, At, HasRow, Early

LEMMA FinishOwns ==
    ASSUME TypeOK, NEW w \in Workers, Own(w), Finish(w)
    PROVE  Own(w)'
<1>1. worker[w] \in Process /\ worker[w].pc = "running"
  BY PhaseIsProcess DEF Finish, At
<1>2. worker'[w] = [worker[w] EXCEPT !.pc = "done"]
  BY DEF Finish, TypeOK
<1>3. /\ worker'[w].pc = "done" /\ worker'[w].uses = worker[w].uses
      /\ worker'[w].env = worker[w].env /\ worker'[w].late = worker[w].late
      /\ worker'[w].drawn = worker[w].drawn /\ worker'[w].plan = worker[w].plan
      /\ worker'[w].setup = worker[w].setup
  BY <1>1, <1>2 DEF Process
<1>4. EnvOwn(w) /\ EnvOwn(w)'
  BY <1>1, <1>3 DEF Own, Phases, EnvOwn, At
<1>5. RowOwn(w) /\ StreamOwn(w)
  BY <1>1 DEF Own, HasRow, At
<1>6. rows' = (rows \ RowOf(w)) \cup {[r EXCEPT !.status = "succeeded"] : r \in RowOf(w)}
  BY DEF Finish, SetStatus
<1>7. ASSUME NEW r \in RowOf(w)' PROVE \E q \in RowOf(w) : r = [q EXCEPT !.status = "succeeded"]
  BY <1>6 DEF RowOf
<1>8. RowOwn(w)'
  <2> SUFFICES ASSUME NEW r \in RowOf(w)'
               PROVE  /\ r.environment_fingerprint = Fingerprint(worker[w].setup)
                      /\ r.strategy_spec_hash = DocumentHash(worker[w].plan.document)
                      /\ r.dataset_snapshot_id = worker[w].plan.snapshot
                      /\ r.random_seed = worker[w].plan.seed
                      /\ r.code_commit = worker[w].setup.commit
                      /\ r.gate_policy_version = worker[w].plan.gate
                      /\ r.cost_model_id = worker[w].plan.cost
                      /\ r.risk_policy_version = worker[w].plan.risk
    BY <1>3 DEF RowOwn
  <2>1. PICK q \in RowOf(w) : r = [q EXCEPT !.status = "succeeded"]
    BY <1>7
  <2>2. q \in RowType
    BY DEF TypeOK, RowOf
  <2>3. /\ r.environment_fingerprint = q.environment_fingerprint
        /\ r.strategy_spec_hash = q.strategy_spec_hash
        /\ r.dataset_snapshot_id = q.dataset_snapshot_id /\ r.random_seed = q.random_seed
        /\ r.code_commit = q.code_commit /\ r.gate_policy_version = q.gate_policy_version
        /\ r.cost_model_id = q.cost_model_id /\ r.risk_policy_version = q.risk_policy_version
    BY <2>1, <2>2 DEF RowType
  <2> QED
    BY <1>5, <2>3 DEF RowOwn
<1>9. StreamOwn(w)'
  BY <1>3, <1>5 DEF Finish, StreamOwn, StreamsOf, Stream
<1> QED
  BY <1>3, <1>4, <1>8, <1>9 DEF Finish, Own, At, HasRow, Early

LEMMA StepOwns ==
    ASSUME TypeOK, NEW w \in Workers, Own(w), Step(w)
    PROVE  Own(w)'
<1>1. CASE Raise(w) \/ Refuse(w) \/ Cancel(w) \/ Crash(w)
  <2>1. worker'[w] = Stopped
    BY <1>1 DEF TypeOK, Raise, Refuse, Cancel, Crash
  <2> QED
    BY <2>1, StoppedOwns
<1>2. CASE Take(w)
  <2>1. worker[w] \in Process /\ worker[w].pc = "checked"
    BY <1>2, PhaseIsProcess DEF Take, At
  <2> DEFINE count == Cardinality(OfFamily(worker[w].plan.family))
  <2>2. worker'[w] = [worker[w] EXCEPT !.pc = "counted", !.count = count]
    BY <1>2 DEF TypeOK, Take
  <2> HIDE DEF count
  <2>3. /\ worker'[w].pc = "counted" /\ worker'[w].uses = worker[w].uses
        /\ worker'[w].env = worker[w].env /\ worker'[w].late = worker[w].late
        /\ worker'[w].drawn = worker[w].drawn
    BY <2>1, <2>2 DEF Process
  <2> QED
    BY <1>2, <2>1, <2>3, MoveOwns DEF Take
<1>3. CASE Conflict(w)
  <2>1. worker[w] \in Process /\ worker[w].pc = "counted"
    BY <1>3, PhaseIsProcess DEF Conflict, At
  <2>2. worker'[w] = [worker[w] EXCEPT !.pc = "checked"]
    BY <1>3 DEF TypeOK, Conflict
  <2>3. /\ worker'[w].pc = "checked" /\ worker'[w].uses = worker[w].uses
        /\ worker'[w].env = worker[w].env /\ worker'[w].late = worker[w].late
        /\ worker'[w].drawn = worker[w].drawn
    BY <2>1, <2>2 DEF Process
  <2> QED
    BY <1>3, <2>1, <2>3, MoveOwns DEF Conflict
<1> QED
  BY <1>1, <1>2, <1>3, StartOwns, ImportOwns, WriteOwns, CheckOwns, InsertOwns, DrawOwns,
     FinishOwns DEF Step

OwnInv == \A w \in Workers : Own(w)

LEMMA OwnInvariant == Spec => []OwnInv
<1>1. Init => OwnInv
  BY DEF Init, OwnInv, Own, At, HasRow, Idle, Early, Phases, RowOf, StreamsOf
<1>2. TypeOK /\ OwnInv /\ [Next]_vars => OwnInv'
  <2> SUFFICES ASSUME TypeOK, OwnInv, [Next]_vars, NEW v \in Workers PROVE Own(v)'
    BY DEF OwnInv
  <2>1. CASE UNCHANGED vars
    BY <2>1 DEF OwnInv, Own, At, HasRow, RowOf, StreamsOf, EnvOwn, RowOwn, StreamOwn,
           Stream, vars
  <2>2. CASE Next
    <3>1. PICK w \in Workers : Step(w)
      BY <2>2, NextIsStep
    <3>2. CASE v = w
      BY <3>1, <3>2, StepOwns DEF OwnInv
    <3>3. CASE v # w
      BY <3>1, <3>3, OthersStayOwn DEF OwnInv
    <3> QED
      BY <3>2, <3>3
  <2> QED
    BY <2>1, <2>2
<1> QED
  BY <1>1, <1>2, TypeCorrect, PTL DEF Spec

-----------------------------------------------------------------------------
(* Reproducing a result.                                                   *)

\* Without a key spelled twice, what a document says can be read off its encoding.
LEMMA EncodingTellsMeaning ==
    ASSUME NEW d, IsDocument(d), KeysStayApart(d)
    PROVE  /\ Meaning(d) =
                {<<key, DocumentHash(d)[key].kind, DocumentHash(d)[key].text>> :
                    key \in DOMAIN DocumentHash(d)}
           /\ DocumentHash(d) \in [DOMAIN DocumentHash(d) -> [kind : Kinds, text : Strings]]
<1> DEFINE Spellings(key) == {raw \in DOMAIN d : Nfc[raw] = key}
           Last(key) == CHOOSE raw \in Spellings(key) :
                            \A other \in Spellings(key) : CodePoints[other] <= CodePoints[raw]
<1>1. DocumentHash(d) = [key \in {Nfc[raw] : raw \in DOMAIN d} |-> Canonical(d[Last(key)])]
  BY DEF DocumentHash, Encode
<1>2. ASSUME NEW raw \in DOMAIN d PROVE Last(Nfc[raw]) = raw
  <2>1. Spellings(Nfc[raw]) = {raw}
    BY <1>2 DEF KeysStayApart
  <2>2. CodePoints[raw] \in Nat
    BY <1>2, StringsAreTyped DEF IsDocument
  <2> QED
    BY <2>1, <2>2
<1> HIDE DEF Last
<1>3. ASSUME NEW raw \in DOMAIN d
      PROVE  /\ DocumentHash(d)[Nfc[raw]].kind = d[raw].kind
             /\ DocumentHash(d)[Nfc[raw]].text =
                  IF d[raw].kind = "str" THEN Nfc[d[raw].text] ELSE d[raw].text
  <2>1. DocumentHash(d)[Nfc[raw]] = Canonical(d[raw])
    BY <1>1, <1>2, <1>3
  <2>2. d[raw] \in [kind : Kinds, text : Strings]
    BY <1>3 DEF IsDocument
  <2> QED
    BY <2>1, <2>2 DEF Canonical
<1>4. DOMAIN DocumentHash(d) = {Nfc[raw] : raw \in DOMAIN d}
  BY <1>1
<1>5. ASSUME NEW raw \in DOMAIN d
      PROVE  Canonical(d[raw]) \in [kind : Kinds, text : Strings]
  BY StringsAreTyped DEF IsDocument, Canonical
<1>6. \A raw \in DOMAIN d : DocumentHash(d)[Nfc[raw]] = Canonical(d[raw])
  BY <1>1, <1>2
<1>7. DocumentHash(d) \in [DOMAIN DocumentHash(d) -> [kind : Kinds, text : Strings]]
  <2>1. ASSUME NEW key \in DOMAIN DocumentHash(d)
        PROVE  DocumentHash(d)[key] \in [kind : Kinds, text : Strings]
    <3>1. PICK raw \in DOMAIN d : key = Nfc[raw]
      BY <1>4, <2>1
    <3> QED
      BY <1>5, <1>6, <3>1
  <2>2. DocumentHash(d) = [key \in DOMAIN DocumentHash(d) |-> DocumentHash(d)[key]]
    BY <1>1
  <2> QED
    BY <2>1, <2>2
<1>8. Meaning(d) = {<<key, DocumentHash(d)[key].kind, DocumentHash(d)[key].text>> :
                       key \in DOMAIN DocumentHash(d)}
  BY <1>3, <1>4 DEF Meaning
<1> QED
  BY <1>7, <1>8

\* Documents of one hash say the same, and documents that say the same have one hash.
LEMMA HashIsMeaning ==
    ASSUME NEW d, IsDocument(d), KeysStayApart(d), NEW e, IsDocument(e), KeysStayApart(e)
    PROVE  DocumentHash(d) = DocumentHash(e) <=> Meaning(d) = Meaning(e)
<1> DEFINE C == DocumentHash(d)
           D == DocumentHash(e)
           V == [kind : Kinds, text : Strings]
<1>1. /\ Meaning(d) = {<<key, C[key].kind, C[key].text>> : key \in DOMAIN C}
      /\ Meaning(e) = {<<key, D[key].kind, D[key].text>> : key \in DOMAIN D}
      /\ C \in [DOMAIN C -> V] /\ D \in [DOMAIN D -> V]
  BY EncodingTellsMeaning
<1> HIDE DEF C, D
<1>2. ASSUME Meaning(d) = Meaning(e) PROVE C = D
  <2>1. ASSUME NEW key \in DOMAIN C PROVE key \in DOMAIN D /\ D[key] = C[key]
    <3>1. <<key, C[key].kind, C[key].text>> \in Meaning(e)
      BY <1>1, <1>2, <2>1
    <3>2. PICK k \in DOMAIN D :
            <<key, C[key].kind, C[key].text>> = <<k, D[k].kind, D[k].text>>
      BY <1>1, <3>1
    <3>3. k = key /\ C[key].kind = D[key].kind /\ C[key].text = D[key].text
      BY <3>2
    <3>4. C[key] \in V /\ D[key] \in V
      BY <1>1, <2>1, <3>2, <3>3
    <3> QED
      BY <3>2, <3>3, <3>4
  <2>2. ASSUME NEW key \in DOMAIN D PROVE key \in DOMAIN C
    <3>1. <<key, D[key].kind, D[key].text>> \in Meaning(d)
      BY <1>1, <1>2, <2>2
    <3>2. PICK k \in DOMAIN C :
            <<key, D[key].kind, D[key].text>> = <<k, C[k].kind, C[k].text>>
      BY <1>1, <3>1
    <3> QED
      BY <3>2
  <2> QED
    BY <1>1, <2>1, <2>2
<1> QED
  BY <1>1, <1>2 DEF C, D

\* Two experiments on record have one specification hash exactly when their
\* specifications say the same, however they were typed (encode).
THEOREM SpecsTellApart == Spec => []SpecsAreToldApart
<1>1. TypeOK /\ OwnInv => SpecsAreToldApart
  <2> SUFFICES ASSUME TypeOK, OwnInv, NEW v \in Workers, NEW w \in Workers,
                      HasRow(v), HasRow(w),
                      KeysStayApart(worker[v].plan.document),
                      KeysStayApart(worker[w].plan.document),
                      NEW q \in RowOf(v), NEW r \in RowOf(w)
               PROVE  q.strategy_spec_hash = r.strategy_spec_hash <=>
                      Meaning(worker[v].plan.document) = Meaning(worker[w].plan.document)
    BY DEF SpecsAreToldApart
  <2>1. worker[v] \in Process /\ worker[w] \in Process
    BY PhaseIsProcess DEF HasRow, At
  <2>2. RowOwn(v) /\ RowOwn(w)
    BY DEF OwnInv, Own
  <2>3. /\ q.strategy_spec_hash = DocumentHash(worker[v].plan.document)
        /\ r.strategy_spec_hash = DocumentHash(worker[w].plan.document)
    BY <2>2 DEF RowOwn
  <2>4. IsDocument(worker[v].plan.document) /\ IsDocument(worker[w].plan.document)
    BY <2>1, PlansAreTyped DEF Process
  <2> QED
    BY <2>3, <2>4, HashIsMeaning
<1> QED
  BY <1>1, TypeCorrect, OwnInvariant, PTL

\* Two finished containers of clean checkouts whose rows refer to the same data,
\* code, environment, configuration, specification and seed have computed the same.
THEOREM ResultsAgree == Spec => []Reproducible
<1>1. TypeOK /\ OwnInv => Reproducible
  <2> SUFFICES ASSUME TypeOK, OwnInv, NEW v \in Workers, NEW w \in Workers,
                      Done(v), Done(w), ~worker[v].late, ~worker[w].late,
                      NEW q \in RowOf(v), NEW r \in RowOf(w), Reference(q) = Reference(r)
               PROVE  Outcome(v) = Outcome(w)
    BY DEF Reproducible
  <2>1. worker[v] \in Process /\ worker[w] \in Process
    BY PhaseIsProcess DEF Done, At
  <2>2. /\ EnvOwn(v) /\ RowOwn(v) /\ StreamOwn(v)
        /\ EnvOwn(w) /\ RowOwn(w) /\ StreamOwn(w)
    BY DEF OwnInv, Own, Done, At, HasRow, Phases
  <2>3. ASSUME NEW u \in Workers, Done(u), EnvOwn(u), ~worker[u].late, worker[u] \in Process
        PROVE  worker[u].uses = [x \in PinnedEnv |-> "pinned"]
    <3>1. \A x \in PinnedEnv : worker[u].uses[x] \in Effective("pinned")
      BY <2>3 DEF EnvOwn, Done, At
    <3> QED
      BY <2>3, <3>1, PinnedIsEffective DEF Process
  <2>4. worker[v].uses = worker[w].uses
    BY <2>1, <2>2, <2>3
  <2> DEFINE s == worker[v].setup
             t == worker[w].setup
             d == worker[v].plan.document
             e == worker[w].plan.document
  <2>5. /\ Fingerprint(s) = Fingerprint(t) /\ DocumentHash(d) = DocumentHash(e)
        /\ worker[v].plan.snapshot = worker[w].plan.snapshot
        /\ worker[v].plan.seed = worker[w].plan.seed
        /\ s.commit = t.commit
        /\ worker[v].plan.gate = worker[w].plan.gate
        /\ worker[v].plan.cost = worker[w].plan.cost
        /\ worker[v].plan.risk = worker[w].plan.risk
    BY <2>2 DEF RowOwn, Reference
  <2>6. s.code = t.code /\ <<s.installed, s.base, s.python>> = <<t.installed, t.base, t.python>>
    BY <2>1, <2>5, SetupsAreBuilt DEF Fingerprint, Done, Process
  <2>7. Meaning(d) = Meaning(e)
    <3>1. IsDocument(d) /\ IsDocument(e) /\ KeysStayApart(d) /\ KeysStayApart(e)
      BY <2>1, PlansAreTyped DEF Process, Done
    <3> QED
      BY <2>5, <3>1, HashIsMeaning
  <2>8. worker[v].drawn = worker[w].drawn
    BY DEF OwnInv, Own, Done
  <2> DEFINE Draws(u) == {<<x.name, x.stream>> : x \in {y \in streams : y.experiment = u}}
  <2>9. ASSUME NEW u \in Workers, StreamOwn(u)
        PROVE  Draws(u) = {<<n, Stream(u, n)>> : n \in worker[u].drawn}
    <3>1. Draws(u) = {<<x.name, x.stream>> : x \in StreamsOf(u)}
      BY DEF StreamsOf
    <3> DEFINE Own1(n) == [experiment |-> u, seed |-> worker[u].plan.seed, name |-> n,
                           stream |-> Stream(u, n)]
    <3>2. StreamsOf(u) = {Own1(n) : n \in worker[u].drawn}
      BY <2>9 DEF StreamOwn
    <3>3. \A n : Own1(n).name = n /\ Own1(n).stream = Stream(u, n)
      OBVIOUS
    <3> HIDE DEF Own1, Draws
    <3> QED
      BY <3>1, <3>2, <3>3
  <2>10. \A n : Stream(v, n) = Stream(w, n)
    BY <2>5 DEF Stream
  <2>11. Draws(v) = Draws(w)
    BY <2>2, <2>8, <2>9, <2>10
  <2> QED
    BY <2>4, <2>5, <2>6, <2>7, <2>11 DEF Outcome
<1> QED
  BY <1>1, TypeCorrect, OwnInvariant, PTL

-----------------------------------------------------------------------------
(* Counting trials.                                                        *)

Indices(family) == {r.trial_index : r \in OfFamily(family)}

UniqueIndex ==
    \A q \in rows, r \in rows :
        q.family = r.family /\ q.trial_index = r.trial_index => q = r

\* The indices of a family are an initial segment, a row was given the count below
\* its index, and what a process has counted was the count once.
TrialInv ==
    /\ UniqueIndex
    /\ \A r \in rows : r.family_trial_count_at_start = r.trial_index - 1
    /\ \A family \in Families : \E n \in Nat : Indices(family) = 1..n
    /\ \A w \in Workers : At(w, "counted") =>
          \/ worker[w].count = 0
          \/ worker[w].count \in Indices(worker[w].plan.family)

\* Rows that are numbered 1 to n without repetition are n rows.
LEMMA NumberedRows ==
    ASSUME NEW S, NEW n \in Nat, {r.trial_index : r \in S} = 1..n,
           \A q \in S, r \in S : q.trial_index = r.trial_index => q = r
    PROVE  IsFiniteSet(S) /\ Cardinality(S) = n
<1> DEFINE f == [i \in 1..n |-> CHOOSE r \in S : r.trial_index = i]
<1>1. \A i \in 1..n : f[i] \in S /\ f[i].trial_index = i
  OBVIOUS
<1>2. \A r \in S : r.trial_index \in 1..n
  OBVIOUS
<1> HIDE DEF f
<1>3. f \in [1..n -> S]
  BY <1>1 DEF f
<1>4. \A i \in 1..n, j \in 1..n : f[i] = f[j] => i = j
  BY <1>1
<1>5. \A r \in S : \E i \in 1..n : f[i] = r
  BY <1>1, <1>2
<1>6. f \in Bijection(1..n, S)
  BY <1>3, <1>4, <1>5, Fun_IsBij
<1>7. ExistsBijection(1..n, S)
  BY <1>6 DEF ExistsBijection
<1>8. IsFiniteSet(1..n) /\ Cardinality(1..n) = n
  BY FS_Interval
<1> QED
  BY <1>7, <1>8, FS_Bijection

LEMMA CountIsLargestIndex ==
    ASSUME TypeOK, TrialInv, NEW family \in Families, NEW n \in Nat,
           Indices(family) = 1..n
    PROVE  Cardinality(OfFamily(family)) = n
<1> DEFINE S == OfFamily(family)
<1>1. {r.trial_index : r \in S} = 1..n
  BY DEF Indices
<1>2. \A q \in S, r \in S : q.trial_index = r.trial_index => q = r
  BY DEF TrialInv, UniqueIndex, OfFamily
<1> HIDE DEF S
<1>3. Cardinality(S) = n
  BY <1>1, <1>2, NumberedRows
<1> QED
  BY <1>3 DEF S

LEMMA TrialsFromInvariant == TypeOK /\ TrialInv => TrialsAreCounted
<1> SUFFICES ASSUME TypeOK, TrialInv, NEW family \in Families
             PROVE  /\ Indices(family) = 1..Cardinality(OfFamily(family))
                    /\ \A r \in OfFamily(family) :
                          r.family_trial_count_at_start =
                            Cardinality({q \in OfFamily(family) : q.trial_index < r.trial_index})
  BY DEF TrialsAreCounted, Indices
<1>1. PICK n \in Nat : Indices(family) = 1..n
  BY DEF TrialInv
<1>2. Cardinality(OfFamily(family)) = n
  BY <1>1, CountIsLargestIndex
<1>3. ASSUME NEW r \in OfFamily(family)
      PROVE  r.family_trial_count_at_start =
               Cardinality({q \in OfFamily(family) : q.trial_index < r.trial_index})
  <2> DEFINE S == {q \in OfFamily(family) : q.trial_index < r.trial_index}
             m == r.trial_index - 1
  <2>1. r.trial_index \in 1..n /\ m \in Nat
    BY <1>1, <1>3 DEF Indices
  <2>2. {q.trial_index : q \in S} = 1..m
    <3>1. ASSUME NEW i \in 1..m PROVE \E q \in S : q.trial_index = i
      <4>1. i \in Indices(family)
        BY <1>1, <2>1
      <4>2. PICK q \in OfFamily(family) : q.trial_index = i
        BY <4>1 DEF Indices
      <4> QED
        BY <2>1, <4>2
    <3>2. ASSUME NEW q \in S PROVE q.trial_index \in 1..m
      <4>1. q.trial_index \in 1..n
        BY <1>1 DEF Indices
      <4> QED
        BY <2>1, <4>1
    <3> HIDE DEF S, m
    <3> QED
      BY <3>1, <3>2
  <2>3. \A p \in S, q \in S : p.trial_index = q.trial_index => p = q
    BY DEF TrialInv, UniqueIndex, OfFamily
  <2>4. r.family_trial_count_at_start = m
    BY <1>3 DEF TrialInv, OfFamily
  <2> HIDE DEF S, m
  <2>5. Cardinality(S) = m
    BY <2>1, <2>2, <2>3, NumberedRows
  <2> QED
    BY <2>4, <2>5 DEF S
<1> QED
  BY <1>1, <1>2, <1>3

\* A new row gets the next index.
LEMMA InsertCounts ==
    ASSUME TypeOK, TrialInv, NEW w \in Workers, Insert(w)
    PROVE  TrialInv'
<1>1. /\ At(w, "counted") /\ Unused(Row(w)) /\ NotNull(Row(w))
      /\ rows' = rows \cup {Row(w)}
      /\ worker' = [worker EXCEPT ![w] = [worker[w] EXCEPT !.pc = "running"]]
  BY DEF Insert, TypeOK
<1>2. worker[w] \in Process
  BY <1>1, PhaseIsProcess DEF At
<1> DEFINE f == worker[w].plan.family
           c == worker[w].count
<1>3. f \in Families /\ c \in Nat
  BY <1>2 DEF Process, Families
<1>4. Row(w).family = f /\ Row(w).trial_index = c + 1 /\ Row(w).family_trial_count_at_start = c
  BY DEF Row, TrialIndex
<1>5. PICK n \in Nat : Indices(f) = 1..n
  BY <1>3 DEF TrialInv
<1>6. c + 1 \notin Indices(f)
  BY <1>1, <1>4 DEF Unused, Indices, OfFamily
<1>7. c = n
  <2>1. c = 0 \/ c \in 1..n
    BY <1>1, <1>5 DEF TrialInv
  <2> QED
    BY <1>3, <1>5, <1>6, <2>1
<1>8. UniqueIndex'
  BY <1>1, <1>4 DEF UniqueIndex, TrialInv, Unused
<1>9. \A r \in rows' : r.family_trial_count_at_start = r.trial_index - 1
  BY <1>1, <1>3, <1>4 DEF TrialInv
<1>10. \A g \in Families : Indices(g)' = IF g = f THEN Indices(g) \cup {c + 1} ELSE Indices(g)
  BY <1>1, <1>4 DEF Indices, OfFamily
<1>11. ASSUME NEW g \in Families PROVE \E k \in Nat : Indices(g)' = 1..k
  <2>1. CASE g = f
    <3>1. Indices(g)' = 1..n \cup {n + 1}
      BY <1>5, <1>7, <1>10, <2>1
    <3>2. 1..n \cup {n + 1} = 1..(n + 1)
      OBVIOUS
    <3> QED
      BY <3>1, <3>2
  <2>2. CASE g # f
    BY <1>10, <2>2 DEF TrialInv
  <2> QED
    BY <2>1, <2>2
<1>12. ASSUME NEW v \in Workers, At(v, "counted")'
       PROVE  (worker[v].count = 0 \/ worker[v].count \in Indices(worker[v].plan.family))'
  <2>1. v # w /\ worker'[v] = worker[v]
    BY <1>1, <1>2, <1>12 DEF TypeOK, At, Process
  <2>2. worker[v] \in Process
    BY <1>12, <2>1, PhaseIsProcess DEF At
  <2>3. worker[v].plan.family \in Families
    BY <2>2 DEF Process, Families
  <2>4. worker[v].count = 0 \/ worker[v].count \in Indices(worker[v].plan.family)
    BY <1>12, <2>1 DEF TrialInv, At
  <2>5. \A i \in Indices(worker[v].plan.family) : i \in Indices(worker[v].plan.family)'
    BY <1>1, <2>1 DEF Indices, OfFamily
  <2> QED
    BY <2>1, <2>4, <2>5
<1> HIDE DEF f, c
<1> QED
  BY <1>8, <1>9, <1>11, <1>12 DEF TrialInv

\* A new status renumbers nothing.
LEMMA StatusKeepsCounts ==
    ASSUME TypeOK, TrialInv, NEW w \in Workers, NEW status \in Status, SetStatus(w, status)
    PROVE  /\ UniqueIndex'
           /\ \A r \in rows' : r.family_trial_count_at_start = r.trial_index - 1
           /\ \A family \in Families : Indices(family)' = Indices(family)
<1>1. rows' = (rows \ RowOf(w)) \cup {[r EXCEPT !.status = status] : r \in RowOf(w)}
  BY DEF SetStatus
<1> DEFINE New(r) == IF r.experiment = w THEN [r EXCEPT !.status = status] ELSE r
<1>2. rows' = {New(r) : r \in rows}
  BY <1>1 DEF RowOf
<1>3. \A r \in rows :
        /\ New(r).family = r.family /\ New(r).trial_index = r.trial_index
        /\ New(r).family_trial_count_at_start = r.family_trial_count_at_start
  BY DEF TypeOK, RowType
<1> HIDE DEF New
<1>4. UniqueIndex'
  <2> SUFFICES ASSUME NEW a \in rows', NEW b \in rows', a.family = b.family,
                      a.trial_index = b.trial_index
               PROVE  a = b
    BY DEF UniqueIndex
  <2>1. PICK q \in rows, r \in rows : a = New(q) /\ b = New(r)
    BY <1>2
  <2>2. q = r
    BY <1>3, <2>1 DEF TrialInv, UniqueIndex
  <2> QED
    BY <2>1, <2>2
<1>5. \A r \in rows' : r.family_trial_count_at_start = r.trial_index - 1
  BY <1>2, <1>3 DEF TrialInv
<1>6. ASSUME NEW family \in Families PROVE Indices(family)' = Indices(family)
  BY <1>2, <1>3 DEF Indices, OfFamily
<1> QED
  BY <1>4, <1>5, <1>6

LEMMA StepCounts ==
    ASSUME TypeOK, TrialInv, NEW w \in Workers, Step(w)
    PROVE  TrialInv'
<1>1. CASE Take(w)
  <2>1. worker[w] \in Process
    BY <1>1, PhaseIsProcess DEF Take, At
  <2> DEFINE f == worker[w].plan.family
             count == Cardinality(OfFamily(f))
  <2>2. f \in Families
    BY <2>1 DEF Process, Families
  <2>3. PICK n \in Nat : Indices(f) = 1..n
    BY <2>2 DEF TrialInv
  <2>4. count = n
    BY <2>2, <2>3, CountIsLargestIndex
  <2>5. count = 0 \/ count \in Indices(f)
    BY <2>3, <2>4
  <2>6. worker' = [worker EXCEPT ![w] = [worker[w] EXCEPT !.pc = "counted", !.count = count]]
    BY <1>1 DEF Take, TypeOK
  <2> HIDE DEF count
  <2>7. worker'[w].count = count /\ worker'[w].plan = worker[w].plan
    BY <2>1, <2>6 DEF TypeOK, Process
  <2>8. \A v \in Workers : v # w => worker'[v] = worker[v]
    BY <2>6 DEF TypeOK
  <2>9. rows' = rows
    BY <1>1 DEF Take
  <2> QED
    BY <2>5, <2>7, <2>8, <2>9 DEF TrialInv, UniqueIndex, Indices, OfFamily, At
<1>2. CASE Insert(w)
  BY <1>2, InsertCounts
<1>3. ASSUME worker'[w].pc # "counted", \A v \in Workers : v # w => worker'[v] = worker[v],
             UniqueIndex', \A r \in rows' : r.family_trial_count_at_start = r.trial_index - 1,
             \A family \in Families : Indices(family)' = Indices(family)
      PROVE  TrialInv'
  <2>1. \A family \in Families : \E n \in Nat : Indices(family)' = 1..n
    BY <1>3 DEF TrialInv
  <2>2. ASSUME NEW v \in Workers, At(v, "counted")'
        PROVE  (worker[v].count = 0 \/ worker[v].count \in Indices(worker[v].plan.family))'
    <3>1. worker'[v] = worker[v] /\ At(v, "counted")
      BY <1>3, <2>2 DEF At
    <3>2. worker[v] \in Process
      BY <3>1, PhaseIsProcess DEF At
    <3>3. worker[v].plan.family \in Families
      BY <3>2 DEF Process, Families
    <3>4. worker[v].count = 0 \/ worker[v].count \in Indices(worker[v].plan.family)
      BY <3>1 DEF TrialInv
    <3> DEFINE g == worker[v].plan.family
    <3>5. Indices(g)' = Indices(g)
      <4>1. \A h \in Families : {r.trial_index : r \in {r \in rows' : r.family = h}} = Indices(h)
        BY <1>3 DEF Indices, OfFamily
      <4> QED
        BY <3>1, <3>3, <4>1 DEF Indices, OfFamily
    <3> QED
      BY <3>1, <3>4, <3>5
  <2> QED
    BY <1>3, <2>1, <2>2 DEF TrialInv
<1>4. \A v \in Workers : v # w => worker'[v] = worker[v]
  BY OthersStay
<1>5. CASE Finish(w) \/ Cancel(w)
  <2>1. worker'[w].pc # "counted"
    <3>1. CASE Finish(w)
      <4>1. worker[w] \in Process
        BY <3>1, PhaseIsProcess DEF Finish, At
      <4>2. worker'[w] = [worker[w] EXCEPT !.pc = "done"]
        BY <3>1 DEF Finish, TypeOK
      <4> QED
        BY <4>1, <4>2 DEF Process
    <3>2. CASE Cancel(w)
      BY <3>2 DEF Cancel, TypeOK, Stopped
    <3> QED
      BY <1>5, <3>1, <3>2
  <2>2. \E status \in Status : SetStatus(w, status)
    BY <1>5 DEF Finish, Cancel, Status
  <2> QED
    BY <1>3, <1>4, <2>1, <2>2, StatusKeepsCounts
<1>6. CASE rows' = rows /\ worker'[w].pc # "counted"
  BY <1>3, <1>4, <1>6 DEF TrialInv, UniqueIndex, Indices, OfFamily
<1>7. CASE Raise(w) \/ Refuse(w) \/ Crash(w)
  BY <1>6, <1>7 DEF Raise, Refuse, Crash, TypeOK, Stopped
<1>8. CASE Import(w) \/ Write(w) \/ Check(w) \/ Conflict(w) \/ \E name \in Names : Draw(w, name)
  <2>1. worker[w] \in Process
    BY <1>8, PhaseIsProcess DEF Import, Write, Check, Conflict, Draw, At
  <2>2. CASE Import(w)
    <3>1. PICK uses : worker' = [worker EXCEPT ![w] =
                                    [worker[w] EXCEPT !.pc = "imported", !.uses = uses]]
      BY <2>2 DEF Import, TypeOK
    <3> QED
      BY <1>6, <2>1, <2>2, <3>1 DEF Import, TypeOK, Process
  <2>3. CASE Write(w)
    <3>1. PICK env, late : worker' = [worker EXCEPT ![w] =
                                         [worker[w] EXCEPT !.env = env, !.late = late]]
      BY <2>3 DEF Write, TypeOK
    <3> QED
      BY <1>6, <2>1, <2>3, <3>1 DEF Write, At, TypeOK, Process
  <2>4. CASE Check(w)
    BY <1>6, <2>1, <2>4 DEF Check, TypeOK, Process, Stopped
  <2>5. CASE Conflict(w)
    BY <1>6, <2>1, <2>5 DEF Conflict, TypeOK, Process
  <2>6. ASSUME NEW name \in Names, Draw(w, name) PROVE TrialInv'
    <3>1. PICK drawn : worker' = [worker EXCEPT ![w] = [worker[w] EXCEPT !.drawn = drawn]]
      BY <2>6 DEF Draw, TypeOK
    <3> QED
      BY <1>6, <2>1, <2>6, <3>1 DEF Draw, At, TypeOK, Process
  <2> QED
    BY <1>8, <2>2, <2>3, <2>4, <2>5, <2>6
<1>9. ASSUME NEW setup \in Setups, NEW plan \in Plans, NEW env \in Environments,
             Start(w, setup, plan, env)
      PROVE  TrialInv'
  <2>1. worker'[w].pc = "started" /\ rows' = rows
    BY <1>9 DEF Start, TypeOK
  <2> QED
    BY <1>6, <2>1
<1> QED
  BY <1>1, <1>2, <1>5, <1>7, <1>8, <1>9 DEF Step

LEMMA TrialInvariant == Spec => []TrialInv
<1>1. Init => TrialInv
  <2>1. ASSUME rows = {}, NEW family \in Families PROVE Indices(family) = 1..0
    BY <2>1 DEF Indices, OfFamily
  <2>2. ASSUME Init, NEW family \in Families PROVE \E n \in Nat : Indices(family) = 1..n
    <3>1. Indices(family) = 1..0
      BY <2>1, <2>2 DEF Init
    <3> QED
      BY <3>1
  <2> QED
    BY <2>2 DEF Init, TrialInv, UniqueIndex, At, Idle
<1>2. TypeOK /\ TrialInv /\ [Next]_vars => TrialInv'
  <2> SUFFICES ASSUME TypeOK, TrialInv, [Next]_vars PROVE TrialInv'
    OBVIOUS
  <2>1. CASE UNCHANGED vars
    BY <2>1 DEF TrialInv, UniqueIndex, Indices, OfFamily, At, vars
  <2>2. CASE Next
    BY <2>2, NextIsStep, StepCounts
  <2> QED
    BY <2>1, <2>2
<1> QED
  BY <1>1, <1>2, TypeCorrect, PTL DEF Spec

\* The trials of a family are numbered from one without a gap, and each row has the
\* number of those before it, whatever ran at the same time, crashed or was
\* cancelled.
THEOREM TrialsCounted == Spec => []TrialsAreCounted
BY TrialInvariant, TypeCorrect, TrialsFromInvariant, PTL
=============================================================================
