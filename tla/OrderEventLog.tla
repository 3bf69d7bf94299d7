---------------------------- MODULE OrderEventLog ----------------------------
(***************************************************************************)
(* The order_event table (infra/migrations/0002_order_event.sql): what its *)
(* keys and checks make of broker events that arrive late, twice, in       *)
(* another order, or under a second identity.                              *)
(*                                                                         *)
(* The repository has the table and no adapter yet, so the broker and the   *)
(* adapter are external.  A report of a broker stays deliverable for ever: *)
(* it arrives in any order, any number of times, or, when it is lost, not  *)
(* before a reconnect asks for it again.  The adapter inserts what arrives *)
(* and takes a violated key for an event it already has.                   *)
(***************************************************************************)
EXTENDS Integers, FiniteSets, FiniteSetsExt

CONSTANTS Events,     \* what the broker can report, with the table's columns
          None,       \* SQL NULL
          Skew,       \* how far the broker's clock runs ahead of ours
          MaxClock

Accounts == {e.account : e \in Events}
Instruments == {e.instrument : e \in {d \in Events : d.type = "fill"}}
OrderState == {"created", "risk_approved", "submitting", "acknowledged",
               "partially_filled", "filled", "rejected", "canceling", "canceled",
               "unknown"}
Sides == {"buy", "sell"}

ASSUME EventsAreTyped ==
    /\ IsFiniteSet(Events)
    /\ \A e \in Events :
        /\ e.time \in 0..MaxClock /\ e.state \in OrderState
        /\ e.type = "fill" => e.side \in Sides /\ e.quantity \in Nat /\ e.price \in Nat

\* A broker never gives two events of an account one event id or one sequence
\* number, nor an execution id to anything but a fill (it may report one execution
\* under several event ids).
ASSUME BrokersIdentify ==
    \A d \in Events, e \in Events :
        /\ d.account = e.account /\ d.id = e.id => d = e
        /\ d.account = e.account /\ d.sequence = e.sequence /\ d.sequence # None => d = e
        /\ d.type # "fill" => d.execution = None

\* However often a broker reports an execution that it identifies, it is the same
\* one.
ASSUME ReportsAgree ==
    \A d \in Events, e \in Events :
        /\ d.type = "fill" /\ e.type = "fill"
        /\ d.account = e.account /\ d.execution = e.execution /\ d.execution # None
        => d.instrument = e.instrument /\ d.side = e.side /\ d.quantity = e.quantity
ASSUME ClockIsTyped == MaxClock \in Nat /\ Skew \in Nat

VARIABLES clock,      \* the adapter's
          happened,   \* what the brokers have reported
          log,        \* the rows of order_event
          answered    \* what the adapter takes to be in the log

logVars == <<clock, happened, log, answered>>

\* The knowledge time is when we received it.  event_id is fresh and left out.
Row(e) == [event |-> e, knowledge |-> clock]

LogTypeOK ==
    /\ clock \in 0..MaxClock
    /\ happened \subseteq Events /\ answered \subseteq happened
    /\ log \subseteq [event : happened, knowledge : 0..MaxClock]
    /\ \A r \in log : r.knowledge >= r.event.time

LogInit == clock = 0 /\ happened = {} /\ log = {} /\ answered = {}

-----------------------------------------------------------------------------
(* The constraints.                                                        *)

\* A fill has an execution id, and nothing is known before it happened.  Mutants:
\* it is known strictly later; it may be known before.
CheckedLater(e) ==
    /\ e.type = "fill" => e.execution # None
    /\ clock > e.time
CheckedAtAnyTime(e) == e.type = "fill" => e.execution # None
Checked(e) ==
    /\ e.type = "fill" => e.execution # None
    /\ clock >= e.time

SameEvent(d, e) == d.account = e.account /\ d.id = e.id
SameSequence(d, e) ==
    d.account = e.account /\ d.sequence # None /\ d.sequence = e.sequence

SameExecution(d, e) ==
    d.account = e.account /\ d.execution # None /\ d.execution = e.execution

\* Mutants: the key of section 9; no key on executions.
ConflictsByOrderAndTime(e) ==
    \E r \in log : /\ r.event.account = e.account /\ r.event.order = e.order
                   /\ r.event.type = e.type /\ r.event.time = e.time
ConflictsByEvent(e) ==
    \E r \in log : SameEvent(r.event, e) \/ SameSequence(r.event, e)

\* One of the three unique keys has the values of e.
Conflicts(e) ==
    \E r \in log : \/ SameEvent(r.event, e) \/ SameExecution(r.event, e)
                   \/ SameSequence(r.event, e)

-----------------------------------------------------------------------------
(* Brokers and adapter.                                                    *)

Tick ==
    /\ clock < MaxClock
    /\ clock' = clock + 1
    /\ UNCHANGED <<happened, log, answered>>

Happen(e) ==
    /\ e \notin happened /\ e.time <= clock + Skew
    /\ happened' = happened \cup {e}
    /\ UNCHANGED <<clock, log, answered>>

\* INSERT of a row that violates nothing; one that violates a check is an error
\* and leaves nothing, until the clock has caught up with the broker's.
Store(e) ==
    /\ e \in happened /\ Checked(e) /\ ~Conflicts(e)
    /\ log' = log \cup {Row(e)}
    /\ answered' = answered \cup {e}
    /\ UNCHANGED <<clock, happened>>

\* One that violates a key is taken to be there.
Repeat(e) ==
    /\ e \in happened /\ Checked(e) /\ Conflicts(e)
    /\ answered' = answered \cup {e}
    /\ UNCHANGED <<clock, happened, log>>

-----------------------------------------------------------------------------
(* Fills and positions.                                                    *)

IsFill(e) == e.type = "fill"
Execution(e) == <<e.account, e.execution>>
Fills == {Execution(e) : e \in {d \in Events : IsFill(d)}}

\* Mutant: a sell adds to the position.
UnsignedShares(e) == e.quantity
SignedShares(e) == IF e.side = "buy" THEN e.quantity ELSE -e.quantity

LoggedFills(account, instrument) ==
    {r \in log : /\ IsFill(r.event) /\ r.event.account = account
                 /\ r.event.instrument = instrument}

\* execution.position: the signed sum of the fills of an instrument.
Position(account, instrument) ==
    SumFunction([r \in LoggedFills(account, instrument) |-> SignedShares(r.event)])
TimesLogged ==
    [x \in Fills |-> Cardinality({r \in log : IsFill(r.event) /\ Execution(r.event) = x})]
-----------------------------------------------------------------------------
(* Properties.                                                             *)

\* The broker's own sum: of each execution we answered a report of, once.
BrokerPosition(account, instrument) ==
    LET bookings == {[execution |-> e.execution,
                      shares |-> IF e.side = "buy" THEN e.quantity ELSE -e.quantity] :
                        e \in {d \in answered : /\ IsFill(d) /\ d.account = account
                                                 /\ d.instrument = instrument}}
    IN  SumFunction([b \in bookings |-> b.shares])

\* A position of an account is what its broker makes of the same reports: no
\* fill is missing because it looks like another one, and none is added twice,
\* in whatever order and number they came (the keys of order_event; position
\* equals the signed sum of fills).
PositionReconciles ==
    \A a \in Accounts, i \in Instruments : Position(a, i) = BrokerPosition(a, i)

\* What the adapter takes to be in the log is in the log: a violated key means
\* the same event, or the same execution under another identity, never another
\* event that shares an order, a time or an execution id of another account.
NothingIsShadowed ==
    \A e \in answered : \E r \in log :
        r.event = e \/ (IsFill(e) /\ IsFill(r.event) /\ Execution(r.event) = Execution(e))

\* The log counts each execution once (Executions).
Counting == INSTANCE Executions WITH counted <- TimesLogged
CountsOnce == Counting!Spec
=============================================================================
