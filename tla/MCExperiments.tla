---------------------------- MODULE MCExperiments ----------------------------
(***************************************************************************)
(* A small instance of Experiments: two processes; an image, the same      *)
(* built again, one of the same lock and other code, one of another lock,  *)
(* one of a working tree with changes, a container without a digest, and a *)
(* host with stale libraries; one pinned variable of either kind, unset or *)
(* pinned; specifications that are spelled in two ways, that differ, that  *)
(* spell one key twice, and that hold a float; two cost models.            *)
(***************************************************************************)
EXTENDS Experiments, TLC

Image(lock, commit, image) ==
    [containerized |-> TRUE, base |-> "slim", lock |-> lock, installed |-> lock,
     commit |-> commit, code |-> commit, python |-> "3.12", image |-> image,
     injected |-> image]
Host ==
    [containerized |-> FALSE, base |-> None, lock |-> "new", installed |-> "old",
     commit |-> "c1", code |-> "changed", python |-> "3.12", image |-> None,
     injected |-> None]
MCSetups ==
    {Image("new", "c1", "sha256:1"), Image("new", "c1", "sha256:2"),
     Image("new", "c2", "sha256:3"), Image("old", "c1", "sha256:4"),
     [Image("new", "c1", "sha256:5") EXCEPT !.code = "changed"],
     [Image("new", "c1", "sha256:1") EXCEPT !.injected = None], Host}

MCStrings == {"composed", "decomposed", "plain"}
MCNfc == [s \in MCStrings |-> IF s = "decomposed" THEN "composed" ELSE s]
MCCodePoints ==
    [s \in MCStrings |-> IF s = "plain" THEN 0 ELSE IF s = "decomposed" THEN 1 ELSE 2]

Plan(family, key, kind, text, seed) ==
    [family |-> family, document |-> [k \in {key} |-> [kind |-> kind, text |-> text]],
     snapshot |-> "snapshot", gate |-> "gate", cost |-> "cost", risk |-> "risk", seed |-> seed]
MCPlans ==
    {Plan("f", "composed", "str", "composed", 1), Plan("f", "decomposed", "str", "decomposed", 1),
     [Plan("f", "composed", "str", "composed", 1) EXCEPT !.cost = "dearer"],
     [Plan("g", "composed", "int", "composed", 2) EXCEPT !.document =
         @ @@ "decomposed" :> [kind |-> "str", text |-> "plain"]],
     Plan("g", "composed", "int", "composed", 2), Plan("f", "plain", "float", "plain", 1)}

MCAtStart == {"PYTHONHASHSEED"}
MCAtImport == {"OMP_NUM_THREADS"}
MCEnvironments ==
    {e \in [MCAtStart \cup MCAtImport -> {"pinned", None}] :
        \E v \in DOMAIN e : e[v] = "pinned"}

MCNames == {"fills.queue", "validation.bootstrap"}
MCNameKey == [n \in MCNames |-> IF n = "fills.queue" THEN 71 ELSE 23]

\* The two processes do the same, and no property tells them apart.
MCSymmetry == Permutations(Workers)
=============================================================================
