---------------------------- MODULE RawPartition ----------------------------
(***************************************************************************)
(* The rows of one trade partition.  A capture appends records to its      *)
(* newest file and now and then starts another; a build may run at any     *)
(* time.  It reads the files in name order, which for zero-padded names is *)
(* the order they were started in, normalizes every record, has the writer *)
(* check the rows, aggregates them into bars and has the writer check      *)
(* those.  SnapshotStore says what happens to the files; this module says  *)
(* what a build that succeeds puts into them.                              *)
(*                                                                         *)
(* The rows of a table are a set: their order is that of the ordering key, *)
(* whose source rank and venue sequence are the same for all trades.       *)
(***************************************************************************)
EXTENDS Integers, Sequences, FiniteSets, FiniteSetsExt, Money, Time

CONSTANTS Records,          \* [symbol, stamp, instant, price, size, seq, eligible]
          History,          \* ticker history: [instrument, ticker, from, until]
          Never,            \* the end of an assignment that still holds
          Window, Origin,   \* window length and session open
          Lag,              \* publication lag
          Contexts,         \* the settings a build can be called with
          NoSnapshot,
          MaxRecords, MaxFiles

Policies == {"backfill", "live_capture"}
Context == [policy : Policies, receive : Nat, process : Nat, asOf : Nat]

ASSUME RecordsAreTyped ==
    \A rec \in Records : /\ rec.instant \in Nat /\ rec.price \in Rational /\ rec.size \in Nat
                         /\ IsRfc3339(rec.stamp) => ParseRfc3339(rec.stamp) \in Int
                         /\ rec.seq \in Nat \cup {-1} /\ rec.eligible \in BOOLEAN

\* The venue writes the instant it means.
ASSUME StampsDenote ==
    \A rec \in Records : IsRfc3339(rec.stamp) => Denotes(rec.stamp, rec.instant)
ASSUME WindowsAreTyped == Window \in Nat \ {0} /\ Origin \in Int /\ Lag \in Nat
ASSUME ContextsAreTyped == Contexts \subseteq Context
ASSUME PartitionBounds == MaxRecords \in Nat /\ MaxFiles \in Nat \ {0}

VARIABLES raw,      \* the raw files, each a sequence of records
          sealed    \* the tables and the as-of time of the last snapshot

vars == <<raw, sealed>>

Init == raw = << <<>> >> /\ sealed = NoSnapshot

-----------------------------------------------------------------------------
(* Normalization.                                                          *)

\* A record's place: its file and its line.
Places == UNION {{<<f, k>> : k \in DOMAIN raw[f]} : f \in DOMAIN raw}
RecordAt(p) == raw[p[1]][p[2]]

\* Mutants: positions restart in each file; the newest file is read first;
\* positions count from one.
IngestIndexInFile(p) == p[2] - 1
IngestIndexNewestFirst(p) ==
    Cardinality({q \in Places : q[1] > p[1] \/ (q[1] = p[1] /\ q[2] < p[2])})

IngestIndexFromOne(p) ==
    Cardinality({q \in Places : q[1] < p[1] \/ (q[1] = p[1] /\ q[2] <= p[2])})

\* assign_ingest_index: how many records the concatenated files have before it.
IngestIndex(p) ==
    Cardinality({q \in Places : q[1] < p[1] \/ (q[1] = p[1] /\ q[2] < p[2])})

\* What a record says its time is; the venue meant its instant.
EventTime(rec) == ParseRfc3339(rec.stamp)

\* Mutant: an assignment ends with its last instant.
CoversItsEnd(a, at) == a.from < at /\ (a.until = Never \/ at <= a.until)

\* TickerAssignment.covers, half-open, and the holders of a ticker at an instant.
Covers(a, at) == a.from <= at /\ (a.until = Never \/ at < a.until)
Holders(ticker, at) ==
    {a.instrument : a \in {b \in History : b.ticker = ticker /\ Covers(b, at)}}

\* resolve_ticker raises unless there is exactly one.
Resolvable(rec) == Cardinality(Holders(rec.symbol, EventTime(rec))) = 1
Resolve(rec) == CHOOSE i \in Holders(rec.symbol, EventTime(rec)) : TRUE

KnowledgeTime(time, ctx) ==
    IF ctx.policy = "live_capture" THEN ctx.receive ELSE time + Lag

Row(p, ctx) ==
    LET rec == RecordAt(p) IN
    [time |-> EventTime(rec), seq |-> rec.seq, index |-> IngestIndex(p),
     receive |-> ctx.receive, process |-> ctx.process,
     knowledge |-> KnowledgeTime(EventTime(rec), ctx),
     instrument |-> Resolve(rec), price |-> Dollars(rec.price), size |-> rec.size,
     eligible |-> rec.eligible]

Normalized(ctx) == {Row(p, ctx) : p \in Places}

-----------------------------------------------------------------------------
(* The writer's checks.                                                    *)

Before(r, q) ==
    \/ r.time < q.time
    \/ r.time = q.time /\ r.seq < q.seq
    \/ r.time = q.time /\ r.seq = q.seq /\ r.index < q.index

\* _check_ordering, on rows in key order.
TotallyOrdered(rows) == \A r, q \in rows : r = q \/ Before(r, q) \/ Before(q, r)

\* _check_time_fields: only knowledge times have to be plausible, and a backfill's
\* are compared with nothing but the event times.
TimesChecked(rows, ctx) ==
    \A r \in rows :
        /\ IsPlausible(r.knowledge)
        /\ r.knowledge >= r.time /\ r.receive >= r.time /\ r.process >= r.receive
        /\ ctx.policy = "live_capture" => r.knowledge = r.receive

\* _check_money, of one column.
MoneyChecked(rows, column) == \A r \in rows : Storable(r[column])
PriceColumns == {"open", "high", "low", "close", "vwap"}

-----------------------------------------------------------------------------
(* Bars.                                                                   *)

\* Mutant: the division truncates toward zero.
WindowStartTruncating(time) ==
    IF time >= Origin THEN Origin + ((time - Origin) \div Window) * Window
    ELSE Origin - ((Origin - time) \div Window) * Window

\* Half-open windows from the session open; the division floors.
WindowStart(time) == Origin + ((time - Origin) \div Window) * Window
Prints(rows, start) == {r \in rows : r.eligible /\ WindowStart(r.time) = start}
First(prints) == CHOOSE r \in prints : \A q \in prints : q = r \/ Before(r, q)
Last(prints) == CHOOSE r \in prints : \A q \in prints : q = r \/ Before(q, r)
Volume(prints) == SumFunction([r \in prints |-> r.size])
Traded(prints) == SumFunction([r \in prints |-> Notional(r.price, r.size)])

Vwap(prints) ==
    RoundStatistic([num |-> Traded(prints), den |-> Volume(prints)]).value

\* Mutants: a window is complete once it has begun; a bar is known from the
\* start of its window.
CompleteOnceBegun(end, ctx) == end - Window <= ctx.asOf
BarKnownAtStart(end) == end - Window + Lag

IsComplete(end, ctx) == end <= ctx.asOf
BarKnowledge(end) == end + Lag

Larger(m, n) == IF m >= n THEN m ELSE n

Bar(rows, start, ctx) ==
    LET prints == Prints(rows, start)
        end == start + Window
        known == BarKnowledge(end)
    IN  [time |-> start, knowledge |-> known,
         receive |-> Larger(ctx.receive, known), process |-> Larger(ctx.process, known),
         instrument |-> First(prints).instrument,
         open |-> First(prints).price, close |-> Last(prints).price,
         high |-> Max({r.price : r \in prints}), low |-> Min({r.price : r \in prints}),
         volume |-> Volume(prints), vwap |-> Vwap(prints),
         complete |-> IsComplete(end, ctx)]

\* The windows with an eligible print, and their bars.
Starts(rows) == {WindowStart(r.time) : r \in {q \in rows : q.eligible}}
Bars(rows, ctx) == {Bar(rows, start, ctx) : start \in Starts(rows)}

-----------------------------------------------------------------------------
(* The capture and the build.                                              *)

Receive(rec) ==
    /\ Cardinality(Places) < MaxRecords
    /\ raw' = [raw EXCEPT ![Len(raw)] = Append(@, rec)]
    /\ UNCHANGED sealed

Rotate ==
    /\ Len(raw) < MaxFiles
    /\ raw' = Append(raw, <<>>)
    /\ UNCHANGED sealed

\* What the parser and the normalizer take.
Readable(rec) == IsRfc3339(rec.stamp) /\ Resolvable(rec) /\ IsDollars(rec.price)

AllReadable == \A p \in Places : Readable(RecordAt(p))

\* The average of a window that has only prints of size zero raises.
Usable(rows) == \A start \in Starts(rows) : Volume(Prints(rows, start)) > 0

\* A build that nothing makes raise: every record is read, every window has a
\* volume, and the writer takes both tables.
Build(ctx) ==
    LET rows == Normalized(ctx)
        bars == Bars(rows, ctx)
    IN
    /\ AllReadable
    /\ TotallyOrdered(rows) /\ TimesChecked(rows, ctx) /\ MoneyChecked(rows, "price")
    /\ Usable(rows)
    /\ TimesChecked(bars, ctx)
    /\ \A column \in PriceColumns : MoneyChecked(bars, column)
    /\ sealed' = [trades |-> rows, bars |-> bars, asOf |-> ctx.asOf]
    /\ UNCHANGED raw

Next ==
    \/ \E rec \in Records : Receive(rec)
    \/ Rotate
    \/ \E ctx \in Contexts : Build(ctx)

Spec == Init /\ [][Next]_vars

-----------------------------------------------------------------------------
(* Properties.                                                             *)

Price == {Dollars(rec.price) : rec \in {r \in Records : IsDollars(r.price)}}

TypeOK ==
    /\ raw \in Seq(Seq(Records)) /\ Len(raw) \in 1..MaxFiles
    /\ sealed # NoSnapshot =>
        /\ sealed.asOf \in Nat
        /\ \A r \in sealed.trades :
            /\ r.index \in 0..(MaxRecords - 1) /\ r.seq \in Nat \cup {-1}
            /\ r.instrument \in {a.instrument : a \in History} /\ r.price \in Price
        /\ \A b \in sealed.bars :
            /\ b.knowledge \in Nat /\ b.complete \in BOOLEAN /\ b.volume \in Nat \ {0}
            /\ {b.open, b.close, b.high, b.low} \subseteq Price

\* The same event in the same place of the total order.
SameRow(r, q) ==
    /\ Before(r, q) = FALSE /\ Before(q, r) = FALSE
    /\ r.instrument = q.instrument /\ r.price = q.price /\ r.size = q.size

\* Normalizing a partition again after the capture has gone on gives every
\* earlier event the place it had, across file rotations: the key is a function
\* of the bytes (assign_ingest_index, partition_files).
ReplayKeepsOrder ==
    [][sealed # NoSnapshot =>
          \A r \in sealed.trades : \E q \in sealed'.trades : SameRow(r, q)]_sealed

\* A build (the first one: an earlier snapshot makes no difference) of data that was
\* received after it happened, and not within a window of the end of the plausible band,
\* is never refused by the writer's own checks under the backfill policy, however the
\* capture ordered and cut its records (normalize_trades, build_bars, write_contract_table).
BackfillIsWritable ==
    sealed = NoSnapshot /\ AllReadable =>
        \A ctx \in Contexts :
            LET rows == Normalized(ctx)
                bars == Bars(rows, ctx)
            IN
            /\ ctx.policy = "backfill" /\ ctx.process >= ctx.receive
            /\ \A r \in rows : /\ r.time <= ctx.receive
                               /\ IsPlausible(r.time) /\ IsPlausible(r.time + Window + Lag)
            /\ Usable(rows)
            => /\ Cardinality(rows) = Cardinality(Places)
               /\ TotallyOrdered(rows) /\ TimesChecked(rows, ctx)
               /\ MoneyChecked(rows, "price")
               /\ TimesChecked(bars, ctx)
               /\ \A column \in PriceColumns : MoneyChecked(bars, column)

\* Every eligible print is in exactly one bar, also before the session open,
\* no volume is lost or counted twice, and the average price of a window lies between
\* its prices (window_start, build_bars, round_statistic).
BarsPartitionPrints ==
    sealed # NoSnapshot =>
        /\ \A r \in sealed.trades : r.eligible =>
            \E b \in sealed.bars :
                /\ b.time <= r.time /\ r.time < b.time + Window
                /\ b.low <= r.price /\ r.price <= b.high
        /\ \A b, c \in sealed.bars : b = c \/ b.time + Window <= c.time
                                             \/ c.time + Window <= b.time
        /\ SumFunction([b \in sealed.bars |-> b.volume])
              = Volume({r \in sealed.trades : r.eligible})
        /\ \A b \in sealed.bars : b.low <= b.vwap /\ b.vwap <= b.high

\* No bar is known before a print it is made of, whether prints are known by
\* their time or by when they were received (build_bars: knowledge_lag_ns; a
\* live capture for which this would fail is refused by _check_time_fields).
BarsKnownAfterPrints ==
    sealed # NoSnapshot =>
        \A b \in sealed.bars : \A r \in sealed.trades :
            r.eligible /\ b.time <= r.time /\ r.time < b.time + Window
            => b.knowledge >= r.knowledge

SameBar(b, c) ==
    \A f \in {"time", "knowledge", "instrument", "open", "close", "high", "low",
              "volume", "vwap"} : b[f] = c[f]

\* A bar marked complete is never another one later, as long as everything
\* captured since happened at or after the as-of time (is_complete, as_of).
CompleteBarsStand ==
    [][sealed # NoSnapshot
       /\ (\A q \in sealed'.trades :
              (\E r \in sealed.trades : SameRow(r, q)) \/ q.time >= sealed.asOf)
       => \A b \in sealed.bars : b.complete => \E c \in sealed'.bars : SameBar(b, c)]_sealed

\* Every print is stored at the instant that the venue meant, in whatever zone and
\* with however many digits it was written (parse_rfc3339_ns: losslessly).
PrintsAtTheirInstants ==
    sealed # NoSnapshot =>
        \A r \in sealed.trades : \E p \in Places :
            IngestIndex(p) = r.index /\ RecordAt(p).instant = r.time

\* A print belongs to the instrument that its own record's ticker stood for at
\* that time: that of an assignment which had begun, had not ended and was the
\* last to begin, at a hand-over and beside a gap too, whatever other tickers the
\* partition has (resolve_ticker, TickerAssignment.covers).
InstrumentOfItsTime ==
    sealed # NoSnapshot =>
        \A r \in sealed.trades : \E p \in Places, a \in History :
            /\ IngestIndex(p) = r.index
            /\ a.ticker = RecordAt(p).symbol /\ a.instrument = r.instrument
            /\ a.from <= r.time /\ (a.until = Never \/ r.time < a.until)
            /\ ~ \E b \in History : b.ticker = a.ticker /\ a.from < b.from /\ b.from <= r.time
=============================================================================
