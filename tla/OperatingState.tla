---------------------------- MODULE OperatingState ----------------------------
(***************************************************************************)
(* The seven operating states and the one check that every change of state *)
(* goes through (schemas/operating_state.py).                              *)
(*                                                                         *)
(* The check is a pure function; who keeps the state is external.  Here an *)
(* operator checks a target and enters it in a second step, and a monitor  *)
(* may trip into SAFE at any time, also between the two.                   *)
(***************************************************************************)
CONSTANT NoRequest

VARIABLES mode,      \* where the system is
          request    \* a target that passed the check, not yet entered

modeVars == <<mode, request>>

OperatingState == {"off", "research", "shadow", "paper", "canary", "live", "safe"}
CapitalStates == {"canary", "live"}

\* _ALLOWED, without SAFE as a target.
Permitted ==
    [off |-> {"research"}, research |-> {"shadow", "off"},
     shadow |-> {"paper", "research"}, paper |-> {"canary", "shadow"},
     canary |-> {"live", "paper"}, live |-> {"canary"}, safe |-> {"off", "research"}]

ASSUME RequestsAreTyped == NoRequest \notin OperatingState

\* Mutant: the table is consulted before capital is refused.
MayEnterTableFirst(current, target) ==
    \/ target = current \/ target \in Permitted[current]
    \/ target \notin CapitalStates /\ target = "safe"

\* require_transition_allowed returns.
MayEnter(current, target) ==
    \/ target = current
    \/ target \notin CapitalStates /\ (target = "safe" \/ target \in Permitted[current])

IsCapitalAtRisk(state) == state \in CapitalStates

ModeInit == mode = "off" /\ request = NoRequest

Ask(target) ==
    /\ request = NoRequest
    /\ MayEnter(mode, target)
    /\ request' = target
    /\ UNCHANGED mode

Enter ==
    /\ request # NoRequest
    /\ mode' = request
    /\ request' = NoRequest

Trip ==
    /\ MayEnter(mode, "safe")
    /\ mode' = "safe"
    /\ UNCHANGED request

ModeNext == Enter \/ Trip \/ \E target \in OperatingState : Ask(target)
-----------------------------------------------------------------------------
(* Properties.                                                             *)

\* No sequence of permitted changes risks capital, not even one in which a
\* change is entered after the state it was checked against is gone
\* (require_transition_allowed: the live path is scaffolded but inert).
CapitalIsUnreachable ==
    ~IsCapitalAtRisk(mode) /\ (request # NoRequest => ~IsCapitalAtRisk(request))

=============================================================================
