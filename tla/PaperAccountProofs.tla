------------------------- MODULE PaperAccountProofs -------------------------
(***************************************************************************)
(* Proofs about PaperAccount, for every set of events whose brokers keep   *)
(* their identities, every clock, and every set of components and rates.   *)
(***************************************************************************)
EXTENDS PaperAccount, MoneyProofs, FiniteSums, FiniteSetTheorems, TLAPS

\* Rounding makes integers of integers.
LEMMA ChargeIsTyped ==
    ASSUME NEW e \in Events, IsFill(e), NEW c \in Components
    PROVE  Charge(e, c) \in [value : Int, remainder : Int]
<1> DEFINE exact == [num |-> Notional(e.price, e.quantity) * Rate[c].num,
                     den |-> Rate[c].den]
<1>1. Rate[c] \in Rational
  BY RatesAreTyped
<1>2. Rate[c].num \in Int /\ Rate[c].den \in Nat \ {0}
  BY <1>1 DEF Rational
<1>3. e.price \in Nat /\ e.quantity \in Nat
  BY EventsAreTyped DEF IsFill
<1>4. Notional(e.price, e.quantity) \in Int
  BY <1>3 DEF Notional
<1>5. exact.num \in Int /\ exact.den \in Nat \ {0}
  BY <1>2, <1>4
<1> HIDE DEF exact
<1>6. exact.num \div exact.den \in Int
  BY <1>5
<1>7. ASSUME NEW away \in BOOLEAN
      PROVE  RoundAgainstUs(exact, away) \in [value : Int, remainder : Int]
  <2> DEFINE v == RoundAgainstUs(exact, away).value
  <2>1. v \in Int
    BY <1>6 DEF RoundAgainstUs
  <2>2. v * exact.den \in Int
    BY <1>5, <2>1
  <2> QED
    BY <1>5, <1>6, <2>1, <2>2 DEF RoundAgainstUs
<1>8. Charge(e, c) = RoundAgainstUs(exact, ~IsCredit[c])
  BY RatesAreTyped DEF Charge, ApplyRate, RoundCost, RoundCredit, exact
<1> QED
  BY <1>7, <1>8, RatesAreTyped

LEMMA InitType == Init => TypeOK
BY ClockIsTyped DEF Init, LogInit, ModeInit, TypeOK, LogTypeOK, OperatingState

LEMMA StoreType ==
    ASSUME LogTypeOK, NEW e \in Events, Store(e)
    PROVE  LogTypeOK'
<1>1. clock \in 0..MaxClock /\ e \in happened /\ clock >= e.time
  BY DEF LogTypeOK, Store, Checked
<1>2. log' = log \cup {Row(e)} /\ answered' = answered \cup {e}
      /\ clock' = clock /\ happened' = happened
  BY DEF Store
<1>3. Row(e) \in [event : happened, knowledge : 0..MaxClock] /\ Row(e).knowledge >= Row(e).event.time
  BY <1>1 DEF Row
<1> QED
  BY <1>1, <1>2, <1>3 DEF LogTypeOK

LEMMA ModeType ==
    ASSUME TypeOK, ModeNext
    PROVE  mode' \in OperatingState /\ request' \in OperatingState \cup {NoRequest}
BY DEF TypeOK, ModeNext, Ask, Enter, Trip, OperatingState

\* Every step keeps the types.
LEMMA StepType == TypeOK /\ [Next]_vars => TypeOK'
<1> SUFFICES ASSUME TypeOK, [Next]_vars PROVE TypeOK'
  OBVIOUS
<1>1. ASSUME NEW e \in Events, StoreFill(e) PROVE TypeOK'
  <2>1. LogTypeOK'
    BY <1>1, StoreType DEF TypeOK, StoreFill
  <2>2. \A c \in Components : Charge(e, c) \in [value : Int, remainder : Int]
    BY <1>1, ChargeIsTyped DEF StoreFill
  <2> QED
    BY <1>1, <2>1, <2>2 DEF TypeOK, StoreFill, modeVars
<1>2. ASSUME NEW e \in Events, StoreOther(e) PROVE TypeOK'
  BY <1>2, StoreType DEF TypeOK, StoreOther, modeVars
<1>3. ASSUME NEW e \in Events, Answer(e) PROVE TypeOK'
  BY <1>3 DEF TypeOK, LogTypeOK, Answer, Repeat, modeVars
<1>4. ASSUME NEW e \in Events, Happen(e), UNCHANGED <<modeVars, ledger>> PROVE TypeOK'
  BY <1>4 DEF TypeOK, LogTypeOK, Happen, modeVars
<1>5. ASSUME Tick, UNCHANGED <<modeVars, ledger>> PROVE TypeOK'
  BY <1>5, ClockIsTyped DEF TypeOK, LogTypeOK, Tick, modeVars
<1>6. ASSUME ModeNext, UNCHANGED <<logVars, ledger>> PROVE TypeOK'
  BY <1>6, ModeType DEF TypeOK, LogTypeOK, logVars
<1>7. ASSUME UNCHANGED vars PROVE TypeOK'
  BY <1>7 DEF TypeOK, LogTypeOK, vars, logVars, modeVars
<1> QED
  BY <1>1, <1>2, <1>3, <1>4, <1>5, <1>6, <1>7 DEF Next, Deliver

\* The log holds what the constraints of order_event allow, and a ledger of
\* integers.
THEOREM TypeCorrect == Spec => []TypeOK
BY InitType, StepType, PTL DEF Spec

-----------------------------------------------------------------------------
(* The log.                                                                *)

\* Of an execution the log holds one row at most, and each fill has one.
OneRowPerExecution ==
    \A r \in log : IsFill(r.event) =>
        /\ r.event.execution # None
        /\ \A s \in log :
              IsFill(s.event) /\ Execution(s.event) = Execution(r.event) => s = r

LogInv == OneRowPerExecution /\ NothingIsShadowed

\* A step leaves the log alone, or adds the row of an event it has nothing of.
LEMMA LogSteps ==
    ASSUME [Next]_vars
    PROVE  \/ UNCHANGED <<log, answered>>
           \/ \E e \in Events : Store(e)
           \/ \E e \in Events : Repeat(e)
BY DEF Next, vars, logVars, Tick, Happen, Deliver, StoreFill, StoreOther, Answer

LEMMA StoreKeepsLog ==
    ASSUME TypeOK, LogInv, NEW e \in Events, Store(e)
    PROVE  LogInv'
<1>1. /\ log' = log \cup {Row(e)} /\ answered' = answered \cup {e}
      /\ IsFill(e) => e.execution # None
      /\ ~Conflicts(e) /\ Row(e).event = e
  BY DEF Store, Checked, Row, IsFill
<1>2. ASSUME NEW r \in log, IsFill(r.event), IsFill(e)
      PROVE  Execution(r.event) # Execution(e)
  BY <1>1, <1>2 DEF Conflicts, SameExecution, Execution, LogInv, OneRowPerExecution
<1>3. OneRowPerExecution'
  BY <1>1, <1>2 DEF LogInv, OneRowPerExecution, IsFill, Execution
<1>4. NothingIsShadowed'
  BY <1>1 DEF LogInv, NothingIsShadowed, IsFill, Execution
<1> QED
  BY <1>3, <1>4 DEF LogInv

LEMMA RepeatKeepsLog ==
    ASSUME TypeOK, LogInv, NEW e \in Events, Repeat(e)
    PROVE  LogInv'
<1>1. log' = log /\ answered' = answered \cup {e}
  BY DEF Repeat
<1>2. PICK r \in log : SameEvent(r.event, e) \/ SameExecution(r.event, e)
                       \/ SameSequence(r.event, e)
  BY DEF Repeat, Conflicts
<1>3. r.event \in Events
  BY DEF TypeOK, LogTypeOK
<1>4. r.event = e \/ SameExecution(r.event, e)
  BY <1>2, <1>3, BrokersIdentify DEF SameEvent, SameSequence
<1>5. SameExecution(r.event, e) =>
        IsFill(e) /\ IsFill(r.event) /\ Execution(r.event) = Execution(e)
  BY <1>3, BrokersIdentify DEF SameExecution, IsFill, Execution
<1> QED
  BY <1>1, <1>4, <1>5 DEF LogInv, OneRowPerExecution, NothingIsShadowed, IsFill, Execution

LEMMA LogInvariant == Spec => []LogInv
<1>1. Init => LogInv
  BY DEF Init, LogInit, LogInv, OneRowPerExecution, NothingIsShadowed
<1>2. TypeOK /\ LogInv /\ [Next]_vars => LogInv'
  <2> SUFFICES ASSUME TypeOK, LogInv, [Next]_vars PROVE LogInv'
    OBVIOUS
  <2>1. CASE UNCHANGED <<log, answered>>
    BY <2>1 DEF LogInv, OneRowPerExecution, NothingIsShadowed
  <2> QED
    BY <2>1, LogSteps, StoreKeepsLog, RepeatKeepsLog
<1> QED
  BY <1>1, <1>2, TypeCorrect, PTL DEF Spec

\* What the adapter takes to be in the log is there, as itself or as the same
\* execution (the three unique keys of order_event), whatever arrives when.
THEOREM LogShadowsNothing == Spec => []NothingIsShadowed
BY LogInvariant, PTL DEF LogInv

-----------------------------------------------------------------------------
(* The refinement of Executions.                                           *)

Reports(x) == {r \in log : IsFill(r.event) /\ Execution(r.event) = x}

\* With one row per execution, it is counted once if it is there at all.
LEMMA CountOfExecution ==
    ASSUME LogInv, NEW x \in Fills
    PROVE  TimesLogged[x] = IF \E r \in log : IsFill(r.event) /\ Execution(r.event) = x
                            THEN 1 ELSE 0
<1>1. TimesLogged[x] = Cardinality(Reports(x))
  BY DEF TimesLogged, Reports
<1>2. CASE \E r \in log : IsFill(r.event) /\ Execution(r.event) = x
  <2>1. PICK r \in log : IsFill(r.event) /\ Execution(r.event) = x
    BY <1>2
  <2>2. Reports(x) = {r}
    BY <2>1 DEF Reports, LogInv, OneRowPerExecution
  <2> QED
    BY <1>1, <1>2, <2>2, FS_Singleton
<1>3. CASE ~ \E r \in log : IsFill(r.event) /\ Execution(r.event) = x
  <2>1. Reports(x) = {}
    BY <1>3 DEF Reports
  <2> QED
    BY <1>1, <1>3, <2>1, FS_EmptySet
<1> QED
  BY <1>2, <1>3

\* A stored fill counts its execution, which was not counted, and no other.
LEMMA StoreCounts ==
    ASSUME LogInv, LogInv', NEW e \in Events, Store(e), IsFill(e)
    PROVE  Counting!Count(Execution(e))
<1> DEFINE x == Execution(e)
<1>1. x \in Fills
  BY DEF Fills
<1>2. log' = log \cup {Row(e)} /\ Row(e).event = e /\ ~Conflicts(e) /\ e.execution # None
  BY DEF Store, Row, Checked, IsFill
<1>3. ~ \E r \in log : IsFill(r.event) /\ Execution(r.event) = x
  BY <1>2 DEF Conflicts, SameExecution, Execution
<1>4. TimesLogged[x] = 0
  BY <1>1, <1>3, CountOfExecution
<1>5. TimesLogged'[x] = 1
  <2>1. \E r \in log' : IsFill(r.event) /\ Execution(r.event) = x
    BY <1>2
  <2>2. TimesLogged'[x] = IF \E r \in log' : IsFill(r.event) /\ Execution(r.event) = x
                          THEN 1 ELSE 0
    <3>1. Reports(x)' = {r \in log' : IsFill(r.event) /\ Execution(r.event) = x}
      BY DEF Reports, IsFill, Execution
    <3>2. Reports(x)' = {Row(e)}
      BY <1>2, <1>3, <3>1
    <3>3. TimesLogged'[x] = Cardinality(Reports(x)')
      BY <1>1, <3>1 DEF TimesLogged
    <3> QED
      BY <2>1, <3>2, <3>3, FS_Singleton
  <2> QED
    BY <2>1, <2>2
<1>6. ASSUME NEW y \in Fills, y # x
      PROVE  TimesLogged'[y] = TimesLogged[y]
  <2>1. {r \in log' : IsFill(r.event) /\ Execution(r.event) = y} = Reports(y)
    BY <1>2, <1>6 DEF Reports
  <2> QED
    BY <1>6, <2>1 DEF TimesLogged, Reports
<1>7. TimesLogged' = [TimesLogged EXCEPT ![x] = 1]
  BY <1>1, <1>5, <1>6 DEF TimesLogged
<1> QED
  BY <1>4, <1>7 DEF Counting!Count

\* The log implements the counting of executions: each is counted once, whatever
\* the number, order and time of its reports.
THEOREM LogCountsOnce == Spec => CountsOnce
<1>1. Init => Counting!Init
  <2> SUFFICES ASSUME Init PROVE TimesLogged = [x \in Fills |-> 0]
    BY DEF Counting!Init
  <2>1. log = {}
    BY DEF Init, LogInit
  <2>2. \A x \in Fills : Cardinality({r \in log : IsFill(r.event) /\ Execution(r.event) = x}) = 0
    BY <2>1, FS_EmptySet
  <2> QED
    BY <2>2 DEF TimesLogged
<1>2. LogInv /\ LogInv' /\ [Next]_vars => [Counting!Next]_TimesLogged
  <2> SUFFICES ASSUME LogInv, LogInv', [Next]_vars
               PROVE  Counting!Next \/ TimesLogged' = TimesLogged
    OBVIOUS
  <2>1. CASE UNCHANGED log
    BY <2>1 DEF TimesLogged
  <2>2. ASSUME NEW e \in Events, Store(e), IsFill(e) PROVE Counting!Next
    <3>1. Counting!Count(Execution(e)) /\ Execution(e) \in Fills
      BY <2>2, StoreCounts DEF Fills
    <3> QED
      BY <3>1 DEF Counting!Next
  <2>3. ASSUME NEW e \in Events, Store(e), ~IsFill(e) PROVE TimesLogged' = TimesLogged
    <3>1. log' = log \cup {Row(e)} /\ Row(e).event = e
      BY <2>3 DEF Store, Row
    <3>2. \A x \in Fills : {r \in log' : IsFill(r.event) /\ Execution(r.event) = x}
                             = {r \in log : IsFill(r.event) /\ Execution(r.event) = x}
      BY <2>3, <3>1
    <3> QED
      BY <3>2 DEF TimesLogged
  <2> QED
    BY <2>1, <2>2, <2>3, LogSteps DEF Repeat
<1> QED
  BY <1>1, <1>2, LogInvariant, PTL DEF Spec, CountsOnce, Counting!Spec

-----------------------------------------------------------------------------
(* The operating state.                                                    *)

ModeInv ==
    /\ CapitalIsUnreachable
    /\ mode \in OperatingState /\ request \in OperatingState \cup {NoRequest}

LEMMA ModeInvariant == Spec => []ModeInv
<1>1. Init => ModeInv
  BY RequestsAreTyped DEF Init, ModeInit, ModeInv, CapitalIsUnreachable, IsCapitalAtRisk,
         CapitalStates, OperatingState
<1>2. ModeInv /\ [Next]_vars => ModeInv'
  <2> SUFFICES ASSUME ModeInv, [Next]_vars PROVE ModeInv'
    OBVIOUS
  <2>1. CASE UNCHANGED modeVars
    BY <2>1 DEF ModeInv, CapitalIsUnreachable, modeVars
  <2>2. ASSUME NEW target \in OperatingState, Ask(target) PROVE ModeInv'
    BY <2>2 DEF Ask, MayEnter, ModeInv, CapitalIsUnreachable, IsCapitalAtRisk
  <2>3. CASE Enter
    BY <2>3 DEF Enter, ModeInv, CapitalIsUnreachable, IsCapitalAtRisk, OperatingState
  <2>4. CASE Trip
    BY <2>4 DEF Trip, ModeInv, CapitalIsUnreachable, IsCapitalAtRisk, CapitalStates,
           OperatingState
  <2> QED
    BY <2>1, <2>2, <2>3, <2>4 DEF Next, ModeNext, vars, Deliver, StoreFill, StoreOther, Answer
<1> QED
  BY <1>1, <1>2, PTL DEF Spec

\* No sequence of permitted changes reaches a state that risks capital.
THEOREM CapitalStaysOut == Spec => []CapitalIsUnreachable
BY ModeInvariant, PTL DEF ModeInv


-----------------------------------------------------------------------------
(* The ledger.                                                             *)

FillRows == {r \in log : IsFill(r.event)}
CostOf(c) == [r \in FillRows |-> r.event.price * r.event.quantity * Rate[c].num]

\* A charge is exact: what is booked and what is carried make the cost.
LEMMA ChargeIsExact ==
    ASSUME NEW e \in Events, IsFill(e), NEW c \in Components
    PROVE  LET cost == e.price * e.quantity * Rate[c].num IN
           /\ cost \in Int /\ Rate[c].den \in Nat \ {0}
           /\ Charge(e, c).value * Rate[c].den + Charge(e, c).remainder = cost
           /\ Rate[c].num >= 0 => IF IsCredit[c] THEN Charge(e, c).remainder >= 0
                                                 ELSE Charge(e, c).remainder <= 0
<1> DEFINE cost == e.price * e.quantity * Rate[c].num
           exact == [num |-> cost, den |-> Rate[c].den]
<1>1. Rate[c].num \in Int /\ Rate[c].den \in Nat \ {0} /\ IsCredit[c] \in BOOLEAN
  BY RatesAreTyped DEF Rational
<1>2. e.price \in Nat /\ e.quantity \in Nat
  BY EventsAreTyped DEF IsFill
<1>3. e.price * e.quantity \in Nat
  BY <1>2
<1>4. cost \in Int /\ (Rate[c].num >= 0 => cost >= 0)
  <2> DEFINE n == e.price * e.quantity
             m == Rate[c].num
  <2>1. n \in Nat /\ m \in Int
    BY <1>1, <1>3
  <2> HIDE DEF n, m
  <2>2. n * m \in Int /\ (m >= 0 => n * m >= 0)
    BY <2>1
  <2> QED
    BY <2>2 DEF n, m
<1> HIDE DEF cost
<1>5. exact \in Rational /\ exact.num = cost /\ exact.den = Rate[c].den
  BY <1>1, <1>4 DEF Rational
<1>6. Charge(e, c) = IF IsCredit[c] THEN RoundCredit(exact) ELSE RoundCost(exact)
  BY DEF Charge, ApplyRate, Notional, cost
<1> HIDE DEF exact
<1>7. Charge(e, c).value * exact.den + Charge(e, c).remainder = exact.num
  BY <1>1, <1>5, <1>6, RoundingIsExact DEF RoundCost, RoundCredit
<1>8. cost >= 0 => IF IsCredit[c] THEN Charge(e, c).remainder >= 0
                                  ELSE Charge(e, c).remainder <= 0
  BY <1>1, <1>5, <1>6, RemainderSign
<1> QED
  BY <1>1, <1>4, <1>5, <1>7, <1>8 DEF cost

\* Every carry is on the side of whoever pays.
CarriesAreAgainstUs ==
    (\A c \in Components : Rate[c].num >= 0) =>
        \A c \in Components : IF IsCredit[c] THEN ledger[c].carry >= 0
                                             ELSE ledger[c].carry <= 0

LedgerInv == TypeOK /\ IsFiniteSet(log) /\ LedgerIsExact /\ CarriesAreAgainstUs

LEMMA CostsAreTyped ==
    ASSUME TypeOK, IsFiniteSet(log), NEW c \in Components
    PROVE  /\ IsFiniteSet(FillRows) /\ \A r \in FillRows : CostOf(c)[r] \in Int
           /\ ExactCost(c) = SumFunctionOnSet(CostOf(c), FillRows) /\ ExactCost(c) \in Int
<1>1. IsFiniteSet(FillRows)
  BY FS_Subset DEF FillRows
<1>2. \A r \in FillRows : CostOf(c)[r] \in Int
  <2> SUFFICES ASSUME NEW r \in FillRows PROVE CostOf(c)[r] \in Int
    OBVIOUS
  <2>1. r.event \in Events /\ IsFill(r.event)
    BY DEF TypeOK, LogTypeOK, FillRows
  <2> QED
    BY <2>1, ChargeIsExact DEF CostOf
<1>3. ExactCost(c) = SumFunctionOnSet(CostOf(c), FillRows)
  BY DEF ExactCost, SumFunction, CostOf, FillRows
<1>4. 0 \in Int /\ \A a, b \in Int : a + b \in Int
  OBVIOUS
<1>5. SumFunctionOnSet(CostOf(c), FillRows) \in Int
  BY <1>1, <1>2, <1>4, SumIsTyped
<1> QED
  BY <1>1, <1>2, <1>3, <1>5

\* A row that is stored is a new one, and adds its cost to the exact cost.
LEMMA StoreAddsCost ==
    ASSUME TypeOK, IsFiniteSet(log), NEW e \in Events, IsFill(e), Store(e),
           NEW c \in Components
    PROVE  ExactCost(c)' = ExactCost(c) + e.price * e.quantity * Rate[c].num
<1> DEFINE f == CostOf(c)
           g == CostOf(c)'
           new == Row(e)
<1>1. log' = log \cup {new} /\ new.event = e /\ ~Conflicts(e)
  BY DEF Store, Row
<1>2. new \notin log
  BY <1>1 DEF Conflicts, SameEvent
<1>3. FillRows' = FillRows \cup {new} /\ new \notin FillRows
  BY <1>1, <1>2 DEF FillRows, IsFill
<1>4. g = [r \in FillRows \cup {new} |-> r.event.price * r.event.quantity * Rate[c].num]
  BY <1>3 DEF CostOf
<1>5. /\ IsFiniteSet(FillRows) /\ \A r \in FillRows : f[r] \in Int
      /\ ExactCost(c) = SumFunctionOnSet(f, FillRows) /\ ExactCost(c) \in Int
  BY CostsAreTyped
<1>6. \A r \in FillRows : g[r] = f[r]
  BY <1>4 DEF CostOf
<1>7. g[new] = e.price * e.quantity * Rate[c].num /\ g[new] \in Int
  BY <1>1, <1>4, ChargeIsExact
<1>8. ExactCost(c)' = SumFunctionOnSet(g, FillRows \cup {new})
  <2>1. DOMAIN g = FillRows \cup {new}
    BY <1>4
  <2>2. ExactCost(c)' = SumFunction(g)
    BY DEF ExactCost, CostOf, FillRows
  <2> QED
    BY <2>1, <2>2 DEF SumFunction
<1> HIDE DEF f, g, new
<1>9. SumFunctionOnSet(g, FillRows \cup {new}) = g[new] + SumFunctionOnSet(g, FillRows)
  BY <1>3, <1>5, <1>6, <1>7, SumAddsOne
<1>10. SumFunctionOnSet(g, FillRows) = SumFunctionOnSet(f, FillRows)
  BY <1>5, <1>6, SumIsLocal
<1> QED
  BY <1>5, <1>7, <1>8, <1>9, <1>10

LEMMA StoreKeepsLedger ==
    ASSUME LedgerInv, NEW e \in Events, StoreFill(e)
    PROVE  LedgerIsExact' /\ CarriesAreAgainstUs'
<1>1. IsFill(e) /\ Store(e)
  BY DEF StoreFill
<1>2. ASSUME NEW c \in Components
      PROVE  /\ ledger'[c].booked * Rate[c].den + ledger'[c].carry = ExactCost(c)'
             /\ (\A d \in Components : Rate[d].num >= 0) =>
                   IF IsCredit[c] THEN ledger'[c].carry >= 0 ELSE ledger'[c].carry <= 0
  <2> DEFINE cost == e.price * e.quantity * Rate[c].num
             den == Rate[c].den
             b == ledger[c].booked
             k == ledger[c].carry
             v == Charge(e, c).value
             m == Charge(e, c).remainder
  <2>1. b \in Int /\ k \in Int /\ v \in Int /\ m \in Int
    BY <1>1, ChargeIsTyped DEF LedgerInv, TypeOK
  <2>2. ledger'[c].booked = b + v /\ ledger'[c].carry = k + m
    BY DEF StoreFill
  <2>3. cost \in Int /\ den \in Nat \ {0} /\ v * den + m = cost
    BY <1>1, ChargeIsExact
  <2>4. b * den + k = ExactCost(c)
    BY DEF LedgerInv, LedgerIsExact
  <2>5. ExactCost(c)' = ExactCost(c) + cost
    BY <1>1, StoreAddsCost DEF LedgerInv
  <2>6. (\A d \in Components : Rate[d].num >= 0) =>
           IF IsCredit[c] THEN k >= 0 /\ m >= 0 ELSE k <= 0 /\ m <= 0
    BY <1>1, ChargeIsExact DEF LedgerInv, CarriesAreAgainstUs
  <2> HIDE DEF cost, den, b, k, v, m
  <2>7. (b + v) * den = b * den + v * den /\ b * den \in Int /\ v * den \in Int
    BY <2>1, <2>3
  <2>8. (b + v) * den + (k + m) = ExactCost(c)'
    BY <2>1, <2>3, <2>4, <2>5, <2>7
  <2> QED
    BY <2>1, <2>2, <2>6, <2>8 DEF den
<1> QED
  BY <1>2 DEF LedgerIsExact, CarriesAreAgainstUs

LEMMA LedgerStep == LedgerInv /\ [Next]_vars => LedgerInv'
<1> SUFFICES ASSUME LedgerInv, [Next]_vars PROVE LedgerInv'
  OBVIOUS
<1>1. TypeOK'
  BY StepType DEF LedgerInv
<1>2. IsFiniteSet(log')
  <2>1. \A e : IsFiniteSet(log \cup {Row(e)})
    BY FS_AddElement DEF LedgerInv
  <2>2. UNCHANGED log \/ \E e \in Events : log' = log \cup {Row(e)}
    BY LogSteps DEF Store, Repeat
  <2> QED
    BY <2>1, <2>2 DEF LedgerInv
<1>3. ASSUME UNCHANGED ledger, FillRows' = FillRows PROVE LedgerIsExact' /\ CarriesAreAgainstUs'
  <2>1. \A c \in Components : ExactCost(c)' = ExactCost(c)
    BY <1>3 DEF ExactCost, FillRows, IsFill
  <2> QED
    BY <1>3, <2>1 DEF LedgerInv, LedgerIsExact, CarriesAreAgainstUs
<1>4. ASSUME NEW e \in Events, StoreOther(e) PROVE LedgerIsExact' /\ CarriesAreAgainstUs'
  <2>1. log' = log \cup {Row(e)} /\ Row(e).event = e /\ ~IsFill(e)
    BY <1>4 DEF StoreOther, Store, Row
  <2>2. FillRows' = FillRows
    BY <2>1 DEF FillRows, IsFill
  <2> QED
    BY <1>3, <1>4, <2>2 DEF StoreOther
<1>5. CASE \E e \in Events : StoreFill(e)
  BY <1>1, <1>2, <1>5, StoreKeepsLedger DEF LedgerInv
<1>6. UNCHANGED <<log, ledger>> \/ \E e \in Events : StoreFill(e) \/ StoreOther(e)
  BY DEF Next, vars, logVars, Tick, Happen, Deliver, Answer, Repeat
<1>7. CASE UNCHANGED <<log, ledger>>
  BY <1>1, <1>2, <1>3, <1>7 DEF FillRows, LedgerInv
<1> QED
  BY <1>1, <1>2, <1>4, <1>5, <1>6, <1>7 DEF LedgerInv

LEMMA LedgerInvariant == Spec => []LedgerInv
<1>1. Init => LedgerInv
  <2> SUFFICES ASSUME Init PROVE LedgerInv
    OBVIOUS
  <2>1. TypeOK /\ log = {} /\ IsFiniteSet(log)
    BY InitType, FS_EmptySet DEF Init, LogInit
  <2>2. \A c \in Components : ledger[c].booked = 0 /\ ledger[c].carry = 0
    BY DEF Init
  <2>3. \A c \in Components : ExactCost(c) = 0
    BY <2>1, SumOfEmpty DEF ExactCost, SumFunction
  <2>4. \A c \in Components : Rate[c].den \in Nat
    BY RatesAreTyped DEF Rational
  <2> QED
    BY <2>1, <2>2, <2>3, <2>4 DEF LedgerInv, LedgerIsExact, CarriesAreAgainstUs
<1> QED
  BY <1>1, LedgerStep, PTL DEF Spec

\* No money is created or destroyed by rounding: after any number of fills, from any
\* number of reports, what is booked and what is carried add up to the exact cost
\* (RoundedMoney.exact).
THEOREM LedgerStaysExact == Spec => []LedgerIsExact
BY LedgerInvariant, PTL DEF LedgerInv

\* As long as no rate is negative, what was booked is never below the exact cost nor
\* above the exact credit, over any number of fills (round_cost, round_credit).
THEOREM NeverInOurFavour ==
    ASSUME \A c \in Components : Rate[c].num >= 0
    PROVE  Spec => []NeverOptimistic
<1>1. LedgerInv => NeverOptimistic
  <2> SUFFICES ASSUME LedgerInv, NEW c \in Components
               PROVE  IF IsCredit[c] THEN ledger[c].booked * Rate[c].den <= ExactCost(c)
                                     ELSE ledger[c].booked * Rate[c].den >= ExactCost(c)
    BY DEF NeverOptimistic
  <2> DEFINE total == ledger[c].booked * Rate[c].den
  <2>1. ledger[c].booked \in Int /\ ledger[c].carry \in Int /\ Rate[c].den \in Nat
    BY RatesAreTyped DEF LedgerInv, TypeOK, Rational
  <2>2. total \in Int
    BY <2>1
  <2>3. total + ledger[c].carry = ExactCost(c)
    BY DEF LedgerInv, LedgerIsExact
  <2>4. IF IsCredit[c] THEN ledger[c].carry >= 0 ELSE ledger[c].carry <= 0
    BY DEF LedgerInv, CarriesAreAgainstUs
  <2> HIDE DEF total
  <2>5. IF IsCredit[c] THEN total <= ExactCost(c) ELSE total >= ExactCost(c)
    BY <2>1, <2>2, <2>3, <2>4
  <2> QED
    BY <2>5 DEF total
<1> QED
  BY <1>1, LedgerInvariant, PTL

-----------------------------------------------------------------------------
(* Positions.                                                              *)

LoggedIsAnswered == \A r \in log : r.event \in answered

LEMMA LoggedInvariant == Spec => []LoggedIsAnswered
<1>1. Init => LoggedIsAnswered
  BY DEF Init, LogInit, LoggedIsAnswered
<1>2. LoggedIsAnswered /\ [Next]_vars => LoggedIsAnswered'
  <2> SUFFICES ASSUME LoggedIsAnswered, [Next]_vars PROVE LoggedIsAnswered'
    OBVIOUS
  <2>1. CASE UNCHANGED <<log, answered>>
    BY <2>1 DEF LoggedIsAnswered
  <2>2. ASSUME NEW e \in Events, Store(e) PROVE LoggedIsAnswered'
    BY <2>2 DEF Store, Row, LoggedIsAnswered
  <2>3. ASSUME NEW e \in Events, Repeat(e) PROVE LoggedIsAnswered'
    BY <2>3 DEF Repeat, LoggedIsAnswered
  <2> QED
    BY <2>1, <2>2, <2>3, LogSteps
<1> QED
  BY <1>1, <1>2, PTL DEF Spec

\* What a broker books for a report, and the bookings that BrokerPosition adds up.
Booking(e) == [execution |-> e.execution,
               shares |-> IF e.side = "buy" THEN e.quantity ELSE -e.quantity]
Bookings(account, instrument) ==
    {Booking(e) : e \in {d \in answered : /\ IsFill(d) /\ d.account = account
                                          /\ d.instrument = instrument}}

\* The rows of an account and instrument and the bookings of the broker are the same executions.
LEMMA RowsAreBookings ==
    ASSUME TypeOK, LogInv, LoggedIsAnswered, NEW a, NEW i
    PROVE  /\ Bookings(a, i) = {Booking(r.event) : r \in LoggedFills(a, i)}
           /\ \A r, s \in LoggedFills(a, i) : Booking(r.event) = Booking(s.event) => r = s
<1>1. ASSUME NEW r \in LoggedFills(a, i) PROVE Booking(r.event) \in Bookings(a, i)
  BY DEF LoggedFills, LoggedIsAnswered, Bookings
<1>2. ASSUME NEW e \in answered, IsFill(e), e.account = a, e.instrument = i
      PROVE  \E r \in LoggedFills(a, i) : Booking(e) = Booking(r.event)
  <2>1. PICK r \in log : r.event = e
                         \/ (IsFill(r.event) /\ Execution(r.event) = Execution(e))
    BY <1>2 DEF LogInv, NothingIsShadowed
  <2>2. r.event \in Events /\ e \in Events
    BY DEF TypeOK, LogTypeOK
  <2>3. IsFill(r.event) /\ r.event.account = a /\ r.event.execution = e.execution
    BY <1>2, <2>1 DEF Execution
  <2>4. r.event.execution # None
    BY <2>1, <2>3 DEF LogInv, OneRowPerExecution
  <2>5. /\ r.event.instrument = e.instrument
        /\ r.event.side = e.side /\ r.event.quantity = e.quantity
    BY <1>2, <2>2, <2>3, <2>4, ReportsAgree DEF IsFill
  <2> QED
    BY <1>2, <2>1, <2>3, <2>5 DEF LoggedFills, Booking
<1>3. ASSUME NEW r \in LoggedFills(a, i), NEW s \in LoggedFills(a, i),
             Booking(r.event) = Booking(s.event)
      PROVE  r = s
  <2>1. r.event.execution = s.event.execution
    BY <1>3 DEF Booking
  <2> QED
    BY <2>1 DEF LoggedFills, LogInv, OneRowPerExecution, Execution
<1> QED
  BY <1>1, <1>2, <1>3 DEF Bookings

\* Every position of an account is its broker's: the log has every execution that was
\* reported and answered, once, however often, late or in what order.
THEOREM PositionsReconcile == Spec => []PositionReconciles
<1>1. TypeOK /\ IsFiniteSet(log) /\ LogInv /\ LoggedIsAnswered => PositionReconciles
  <2> SUFFICES ASSUME TypeOK, IsFiniteSet(log), LogInv, LoggedIsAnswered,
                      NEW a \in Accounts, NEW i \in Instruments
               PROVE  Position(a, i) = BrokerPosition(a, i)
    BY DEF PositionReconciles
  <2> DEFINE S == LoggedFills(a, i)
             f == [r \in S |-> SignedShares(r.event)]
             h == [r \in S |-> Booking(r.event)]
             g == [b \in Bookings(a, i) |-> b.shares]
  <2>1. IsFiniteSet(S)
    BY FS_Subset DEF LoggedFills
  <2>2. \A r \in S : f[r] \in Int
    <3> SUFFICES ASSUME NEW r \in S PROVE f[r] \in Int
      OBVIOUS
    <3>1. r.event \in Events /\ IsFill(r.event)
      BY DEF LoggedFills, TypeOK, LogTypeOK
    <3>2. r.event.quantity \in Nat
      BY <3>1, EventsAreTyped DEF IsFill
    <3> QED
      BY <3>2 DEF SignedShares
  <2>3. Bookings(a, i) = {h[r] : r \in S} /\ \A r, s \in S : h[r] = h[s] => r = s
    BY RowsAreBookings
  <2>4. \A r \in S : g[h[r]] = f[r]
    BY <2>3 DEF Booking, SignedShares
  <2>5. Position(a, i) = SumFunctionOnSet(f, S)
    BY DEF Position, SumFunction
  <2>6. BrokerPosition(a, i) = SumFunctionOnSet(g, Bookings(a, i))
    BY DEF BrokerPosition, Bookings, Booking, SumFunction
  <2> HIDE DEF S, f, g, h
  <2>7. SumFunctionOnSet(g, {h[r] : r \in S}) = SumFunctionOnSet(f, S)
    BY <2>1, <2>2, <2>3, <2>4, SumOfImage
  <2> QED
    BY <2>3, <2>5, <2>6, <2>7
<1>2. LedgerInv => TypeOK /\ IsFiniteSet(log)
  BY DEF LedgerInv
<1> QED
  BY <1>1, <1>2, LedgerInvariant, LogInvariant, LoggedInvariant, PTL
=============================================================================
