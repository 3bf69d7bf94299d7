----------------------------- MODULE Experiments -----------------------------
(***************************************************************************)
(* From a started process to a row of the experiment table and a result:   *)
(* the checked environment (runtime/determinism.py), the recorded build    *)
(* (runtime/fingerprint.py), the named random streams (runtime/seeds.py),  *)
(* and the keys of the table (0001_experiment_registry.sql).               *)
(*                                                                         *)
(* The repository has no runner yet: the order of the steps is that which  *)
(* the docstrings demand of one.  Nor has it code that allocates a trial   *)
(* index: TrialIndex is the rule of the plan for it.                       *)
(***************************************************************************)
EXTENDS CanonicalJson, Integers, FiniteSets

CONSTANTS Workers,        \* processes, each of which runs one experiment
          AtStart,        \* pinned variables that the interpreter reads first
          AtImport,       \* those that the numeric libraries read
          Environments,   \* what a process may be started with
          Setups,         \* machines and images, with the code on them
          Plans,          \* family, document, snapshot, configuration and seed
          Names,          \* consumers of randomness
          NameKey,        \* the BLAKE2b key of each
          None, NotRead

PinnedEnv == AtStart \cup AtImport
Values == {"pinned", "other"}
Families == {p.family : p \in Plans}

ASSUME ExperimentsAreTyped ==
    /\ IsFiniteSet(Workers)
    /\ Environments \subseteq [PinnedEnv -> Values \cup {None}]
    /\ None \notin Values /\ NotRead \notin Values
    /\ AtStart \cap AtImport = {}
    /\ NameKey \in [Names -> Nat]
    /\ \A m \in Names, n \in Names : NameKey[m] = NameKey[n] => m = n

\* A specification has string keys and scalar values.
ASSUME PlansAreTyped == \A p \in Plans : IsDocument(p.document)

\* An image is built from the lock (uv sync --frozen), while a host has what was
\* installed last; outside a container there is no base image.  Either may have
\* code of a working tree that is not the commit that is recorded.
ASSUME SetupsAreBuilt ==
    \A s \in Setups : IF s.containerized THEN s.installed = s.lock ELSE s.base = None

VARIABLES worker,    \* what each process is doing
          rows,      \* of the table experiment
          streams    \* every stream that a consumer was handed

vars == <<worker, rows, streams>>

Idle == [pc |-> "idle"]
Stopped == [pc |-> "stopped"]

Phases == {"started", "imported", "checked", "counted", "running", "done"}
Process ==
    [pc : Phases, setup : Setups, plan : Plans, env : [PinnedEnv -> Values \cup {None}],
     uses : [PinnedEnv -> Values \cup {NotRead}], late : BOOLEAN, count : Nat,
     drawn : SUBSET Names]

Status == {"created", "queued", "running", "succeeded", "failed", "cancelled"}

At(w, pc) == worker[w].pc = pc
HasRow(w) == At(w, "running") \/ At(w, "done")
RowOf(w) == {r \in rows : r.experiment = w}
OfFamily(family) == {r \in rows : r.family = family}

-----------------------------------------------------------------------------
(* The environment.                                                        *)

\* verify_environment.  Mutant: an unset variable is no violation.
ViolationsOfSet(env) == {v \in PinnedEnv : env[v] \notin {"pinned", None}}
Violations(env) == {v \in PinnedEnv : env[v] # "pinned"}

\* What a process works with: an unset variable leaves a salt or a number of cores.
Effective(value) == IF value = None THEN Values ELSE {value}

\* The environment in which the variables of vs have just been read.
Reads(vs, env, uses) ==
    {u \in [PinnedEnv -> Values \cup {NotRead}] : \A v \in PinnedEnv :
        IF v \in vs THEN u[v] \in Effective(env[v]) ELSE u[v] = uses[v]}

-----------------------------------------------------------------------------
(* The recorded build.                                                     *)

\* container_identity returns: a container has the digest of its image, a host
\* whatever it was given.
Identified(setup) == setup.containerized => setup.injected = setup.image

\* compute_environment_fingerprint.  The hash of the pinned variables is a constant
\* of the code.
Fingerprint(setup) ==
    [python |-> setup.python, base |-> setup.base, lock |-> setup.lock]

-----------------------------------------------------------------------------
(* The row.                                                                *)

\* The next trial of the family (the plan: the rule is not in the repository's code).
TrialIndex(w) == worker[w].count + 1

\* Whose idea it was and who approved it are left out.
Row(w) ==
    LET s == worker[w].setup
        p == worker[w].plan
    IN  [experiment |-> w, family |-> p.family, dataset_snapshot_id |-> p.snapshot,
         code_commit |-> s.commit, container_digest |-> s.injected,
         environment_fingerprint |-> Fingerprint(s),
         strategy_spec_hash |-> DocumentHash(p.document), random_seed |-> p.seed,
         trial_index |-> TrialIndex(w), family_trial_count_at_start |-> worker[w].count,
         gate_policy_version |-> p.gate, cost_model_id |-> p.cost,
         risk_policy_version |-> p.risk, status |-> "created"]

\* Mutant: the key has no trial index.
UnusedByExperiment(row) == \A r \in rows : r.experiment # row.experiment
Unused(row) ==
    \A r \in rows : ~(r.family = row.family /\ r.trial_index = row.trial_index)

\* Mutant: only the fingerprint may not be null.
FingerprintNotNull(row) == row.environment_fingerprint # None
NotNull(row) == row.container_digest # None
-----------------------------------------------------------------------------
Init == worker = [w \in Workers |-> Idle] /\ rows = {} /\ streams = {}

Start(w, setup, plan, env) ==
    /\ At(w, "idle")
    /\ \E uses \in Reads(AtStart, env, [v \in PinnedEnv |-> NotRead]) :
        worker' = [worker EXCEPT ![w] =
                      [pc |-> "started", setup |-> setup, plan |-> plan, env |-> env,
                       uses |-> uses, late |-> FALSE, count |-> 0, drawn |-> {}]]
    /\ UNCHANGED <<rows, streams>>

\* Whoever imports trading.runtime imports numpy, before it can call the check.
Import(w) ==
    /\ At(w, "started")
    /\ \E uses \in Reads(AtImport, worker[w].env, worker[w].uses) :
        worker' = [worker EXCEPT ![w].pc = "imported", ![w].uses = uses]
    /\ UNCHANGED <<rows, streams>>

\* Somebody writes os.environ from within the process.
Write(w) ==
    /\ At(w, "started") \/ At(w, "imported")
    /\ Violations(worker[w].env) # {}
    /\ worker' = [worker EXCEPT
                     ![w].env = [v \in PinnedEnv |-> "pinned"],
                     ![w].late = @ \/ \E v \in Violations(worker[w].env) :
                                          worker[w].uses[v] # NotRead]
    /\ UNCHANGED <<rows, streams>>

\* require_deterministic_environment, which raises or returns.
Check(w) ==
    /\ At(w, "imported")
    /\ worker' = [worker EXCEPT ![w] = IF Violations(@.env) = {}
                                       THEN [@ EXCEPT !.pc = "checked"] ELSE Stopped]
    /\ UNCHANGED <<rows, streams>>

\* The transaction of a new experiment reads its family's count ...
Take(w) ==
    /\ At(w, "checked")
    /\ Identified(worker[w].setup)
    /\ Encodable(worker[w].plan.document)
    /\ worker' = [worker EXCEPT ![w].pc = "counted",
                     ![w].count = Cardinality(OfFamily(worker[w].plan.family))]
    /\ UNCHANGED <<rows, streams>>

\* ... or does not begin, when the build or the document has no identity.
Raise(w) ==
    /\ At(w, "checked")
    /\ ~Identified(worker[w].setup) \/ ~Encodable(worker[w].plan.document)
    /\ worker' = [worker EXCEPT ![w] = Stopped]
    /\ UNCHANGED <<rows, streams>>

\* ... and commits its row, or is taken again.
Insert(w) ==
    /\ At(w, "counted") /\ NotNull(Row(w)) /\ Unused(Row(w))
    /\ rows' = rows \cup {Row(w)}
    /\ worker' = [worker EXCEPT ![w].pc = "running"]
    /\ UNCHANGED streams

Conflict(w) ==
    /\ At(w, "counted") /\ NotNull(Row(w)) /\ ~Unused(Row(w))
    /\ worker' = [worker EXCEPT ![w].pc = "checked"]
    /\ UNCHANGED <<rows, streams>>

Refuse(w) ==
    /\ At(w, "counted") /\ ~NotNull(Row(w))
    /\ worker' = [worker EXCEPT ![w] = Stopped]
    /\ UNCHANGED <<rows, streams>>
-----------------------------------------------------------------------------
Stream(w, name) == [entropy |-> worker[w].plan.seed, spawn_key |-> NameKey[name]]

\* A consumer asks for its stream; which comes first is up to the scheduler.
Draw(w, name) ==
    /\ At(w, "running") /\ name \notin worker[w].drawn
    /\ worker' = [worker EXCEPT ![w].drawn = @ \cup {name}]
    /\ streams' = streams \cup {[experiment |-> w, seed |-> worker[w].plan.seed,
                                 name |-> name, stream |-> Stream(w, name)]}
    /\ UNCHANGED rows

SetStatus(w, status) ==
    rows' = (rows \ RowOf(w)) \cup {[r EXCEPT !.status = status] : r \in RowOf(w)}

Finish(w) ==
    /\ At(w, "running") /\ worker[w].drawn = Names
    /\ worker' = [worker EXCEPT ![w].pc = "done"]
    /\ SetStatus(w, "succeeded")
    /\ UNCHANGED streams

Cancel(w) ==
    /\ At(w, "running")
    /\ worker' = [worker EXCEPT ![w] = Stopped]
    /\ SetStatus(w, "cancelled")
    /\ UNCHANGED streams

\* A crash leaves the row as it is.
Crash(w) ==
    /\ ~At(w, "idle") /\ ~At(w, "stopped") /\ ~At(w, "done")
    /\ worker' = [worker EXCEPT ![w] = Stopped]
    /\ UNCHANGED <<rows, streams>>

Next ==
    \E w \in Workers :
        \/ \E setup \in Setups, plan \in Plans, env \in Environments :
              Start(w, setup, plan, env)
        \/ Import(w) \/ Write(w) \/ Check(w)
        \/ Take(w) \/ Raise(w) \/ Insert(w) \/ Conflict(w) \/ Refuse(w)
        \/ \E name \in Names : Draw(w, name)
        \/ Finish(w) \/ Cancel(w) \/ Crash(w)

Spec == Init /\ [][Next]_vars
-----------------------------------------------------------------------------
(* Properties.                                                             *)

RowType ==
    [experiment : Workers, family : Families,
     dataset_snapshot_id : {p.snapshot : p \in Plans},
     code_commit : {s.commit : s \in Setups},
     container_digest : {s.injected : s \in Setups} \ {None},
     environment_fingerprint : {Fingerprint(s) : s \in Setups},
     strategy_spec_hash : {DocumentHash(p.document) : p \in Plans},
     random_seed : {p.seed : p \in Plans}, trial_index : Int,
     family_trial_count_at_start : Int, gate_policy_version : {p.gate : p \in Plans},
     cost_model_id : {p.cost : p \in Plans}, risk_policy_version : {p.risk : p \in Plans},
     status : Status]

\* The columns are what the table allows, and a process that runs has its row.
TypeOK ==
    /\ worker \in [Workers -> Process \cup {Idle, Stopped}]
    /\ rows \subseteq RowType /\ IsFiniteSet(rows)
    /\ \A w \in Workers : HasRow(w) => RowOf(w) # {}
    /\ \A s \in streams : s.experiment \in Workers /\ s.name \in Names

\* The trials of a family are numbered without a gap or a repetition, each with
\* the count as it stood when it was taken, whatever was taken at the same time,
\* cancelled or crashed (the key of the table experiment).
TrialsAreCounted ==
    \A family \in Families :
        /\ {r.trial_index : r \in OfFamily(family)} = 1..Cardinality(OfFamily(family))
        /\ \A r \in OfFamily(family) :
              r.family_trial_count_at_start =
                Cardinality({q \in OfFamily(family) : q.trial_index < r.trial_index})

\* A finished container, built from a clean checkout of the commit it records,
\* whose specification spells no key twice.
Done(w) ==
    /\ At(w, "done") /\ worker[w].setup.containerized
    /\ worker[w].setup.code = worker[w].setup.commit
    /\ KeysStayApart(worker[w].plan.document)

\* What the result of a finished experiment is computed from.
Outcome(w) ==
    LET s == worker[w].setup
        p == worker[w].plan
    IN  [code |-> s.code, libraries |-> <<s.installed, s.base, s.python>>,
         uses |-> worker[w].uses, data |-> p.snapshot,
         configuration |-> <<p.gate, p.cost, p.risk>>, spec |-> Meaning(p.document),
         draws |-> {<<d.name, d.stream>> : d \in {t \in streams : t.experiment = w}}]

\* What a reviewer reproduces it from: "pinned data, code, container, config, and
\* seed".  The digest of the container is not among it: no other build has it.
Reference(r) ==
    <<r.dataset_snapshot_id, r.code_commit, r.environment_fingerprint,
      r.gate_policy_version, r.cost_model_id, r.risk_policy_version,
      r.strategy_spec_hash, r.random_seed>>

\* Two containers of clean checkouts whose rows name the same snapshot, code,
\* environment, configuration, specification and seed compute the same result, if
\* nobody wrote a pinned variable after it was read
\* (require_deterministic_environment, compute_environment_fingerprint).
Reproducible ==
    \A v \in Workers, w \in Workers :
        Done(v) /\ Done(w) /\ ~worker[v].late /\ ~worker[w].late =>
            \A q \in RowOf(v), r \in RowOf(w) :
                Reference(q) = Reference(r) => Outcome(v) = Outcome(w)

\* Two specifications on record have one hash if and only if they say the same,
\* however they were typed, as long as their keys differ in more than spelling
\* (encode: invariant under reordering, sensitive to every semantic change).
SpecsAreToldApart ==
    \A v \in Workers, w \in Workers : HasRow(v) /\ HasRow(w) =>
        LET d == worker[v].plan.document
            e == worker[w].plan.document
        IN  KeysStayApart(d) /\ KeysStayApart(e) =>
                \A q \in RowOf(v), r \in RowOf(w) :
                    q.strategy_spec_hash = r.strategy_spec_hash <=> Meaning(d) = Meaning(e)
=============================================================================
