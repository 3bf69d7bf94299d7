---------------------------- MODULE PaperAccount ----------------------------
(***************************************************************************)
(* An account that reconciles from its log: every fill that OrderEventLog  *)
(* stores is charged with costs that Money rounds, the remainders carried  *)
(* per component; the state of OperatingState changes beside it.  The      *)
(* accounting is external: schemas/money.py says how it uses the rounding, *)
(* and the contract execution.fill has a column for each cost.             *)
(***************************************************************************)
EXTENDS OrderEventLog, OperatingState, Money

CONSTANTS Components,   \* of the cost of a fill
          Rate,         \* the rate of each, a rational
          IsCredit      \* whether it is received rather than paid

ASSUME RatesAreTyped ==
    /\ Rate \in [Components -> Rational]
    /\ IsCredit \in [Components -> BOOLEAN]

VARIABLE ledger   \* what is booked and carried, per component

vars == <<logVars, modeVars, ledger>>

\* A carry is a numerator over the denominator of the component's rate.
TypeOK ==
    /\ LogTypeOK
    /\ mode \in OperatingState /\ request \in OperatingState \cup {NoRequest}
    /\ ledger \in [Components -> [booked : Int, carry : Int]]

Init ==
    /\ LogInit /\ ModeInit
    /\ ledger = [c \in Components |-> [booked |-> 0, carry |-> 0]]

Charge(e, c) == ApplyRate(Notional(e.price, e.quantity), Rate[c], IsCredit[c])

\* An amount that is not storable raises before anything is stored.
StoreFill(e) ==
    /\ IsFill(e) /\ Store(e)
    /\ \A c \in Components : Storable(Charge(e, c).value)
    /\ ledger' = [c \in Components |->
                     [booked |-> ledger[c].booked + Charge(e, c).value,
                      carry |-> ledger[c].carry + Charge(e, c).remainder]]
    /\ UNCHANGED modeVars

StoreOther(e) == ~IsFill(e) /\ Store(e) /\ UNCHANGED <<modeVars, ledger>>

Answer(e) == Repeat(e) /\ UNCHANGED <<modeVars, ledger>>

Deliver(e) == StoreFill(e) \/ StoreOther(e) \/ Answer(e)

Next ==
    \/ \E e \in Events : Deliver(e) \/ (Happen(e) /\ UNCHANGED <<modeVars, ledger>>)
    \/ Tick /\ UNCHANGED <<modeVars, ledger>>
    \/ ModeNext /\ UNCHANGED <<logVars, ledger>>

Spec == Init /\ [][Next]_vars

\* Time passes, and a report is repeated until it is answered.
FairSpec ==
    /\ Spec
    /\ WF_vars(Tick /\ UNCHANGED <<modeVars, ledger>>)
    /\ \A e \in Events : WF_vars(Deliver(e))
-----------------------------------------------------------------------------
(* Properties.                                                             *)

\* What the fills logged so far cost exactly, over the denominator of the rate.
ExactCost(c) ==
    SumFunction([r \in {s \in log : IsFill(s.event)} |->
                    r.event.price * r.event.quantity * Rate[c].num])

\* No money is created or destroyed: what is booked and what is carried is
\* exactly the cost of the executions in the log, each once, however often and
\* in whatever order they were reported (RoundedMoney; the ledger asserts the
\* exact identity).
LedgerIsExact ==
    \A c \in Components :
        ledger[c].booked * Rate[c].den + ledger[c].carry = ExactCost(c)

\* Rounding never accumulates in our favour: costs booked are at least, credits
\* at most, the exact total (round_cost, round_credit).
NeverOptimistic ==
    \A c \in Components :
        IF IsCredit[c] THEN ledger[c].booked * Rate[c].den <= ExactCost(c)
                       ELSE ledger[c].booked * Rate[c].den >= ExactCost(c)

\* What the table and the accounting take, once the clock has caught up: a fill
\* has an execution id and charges that can be stored.  Any other is refused for
\* ever (0002_order_event.sql: "cannot be deduplicated or reconciled").
Acceptable(e) ==
    IsFill(e) => /\ e.execution # None
                 /\ \A c \in Components : Storable(Charge(e, c).value)

\* Whatever is lost or refused on the way, an acceptable event that a broker has
\* reported is in the end answered by the log, as long as its report is repeated
\* until then: its broker's clock running ahead of ours is no refusal for ever,
\* and neither is another event that was refused.
EventsArrive ==
    \A e \in Events : e \in happened /\ Acceptable(e) ~> e \in answered
=============================================================================
