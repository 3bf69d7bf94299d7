------------------------- MODULE RawPartitionProofs -------------------------
(***************************************************************************)
(* What holds of every partition, whatever its records, its ticker history *)
(* and its window.                                                         *)
(***************************************************************************)
EXTENDS RawPartition, MoneyProofs, FiniteSums, FiniteSetTheorems, TLAPS

\* What is appended and rotated keeps its type.
RawOK == raw \in Seq(Seq(Records)) /\ Len(raw) \in Nat \ {0}

KnownInv == RawOK /\ BarsKnownAfterPrints

LEMMA PlaceOfRecord ==
    ASSUME RawOK, NEW p \in Places
    PROVE  RecordAt(p) \in Records
<1>1. PICK f \in DOMAIN raw : \E k \in DOMAIN raw[f] : p = <<f, k>>
  BY DEF Places
<1>2. PICK k \in DOMAIN raw[f] : p = <<f, k>>
  BY <1>1
<1>3. raw[f] \in Seq(Records)
  BY DEF RawOK
<1>4. raw[f][k] \in Records
  BY <1>3
<1> QED BY <1>2, <1>4 DEF RecordAt

\* Windows are half-open and every time lies in its own (window_start).
LEMMA OwnWindow ==
    ASSUME NEW t \in Int
    PROVE  /\ WindowStart(t) \in Int
           /\ WindowStart(t) <= t /\ t < WindowStart(t) + Window
<1> DEFINE q == (t - Origin) \div Window
<1>1. Window \in Nat \ {0} /\ Origin \in Int
  BY WindowsAreTyped
<1>2. q \in Int /\ q * Window <= t - Origin /\ t - Origin < q * Window + Window
  BY <1>1
<1>3. q * Window \in Int
  BY <1>1, <1>2
<1>4. WindowStart(t) = Origin + q * Window
  BY DEF WindowStart
<1> HIDE DEF q
<1> QED BY <1>1, <1>2, <1>3, <1>4

\* A row keeps the time of its record and is known as the policy says
\* (NormalizationContext.knowledge_time).
LEMMA RowIsTyped ==
    ASSUME RawOK, AllReadable, NEW ctx \in Contexts, NEW r \in Normalized(ctx)
    PROVE  r.time \in Int /\ r.knowledge = KnowledgeTime(r.time, ctx)
<1>1. PICK p \in Places : r = Row(p, ctx)
  BY DEF Normalized
<1>2. RecordAt(p) \in Records
  BY PlaceOfRecord
<1>3. EventTime(RecordAt(p)) \in Int
  BY <1>2, RecordsAreTyped DEF AllReadable, Readable, EventTime
<1>4. r.time = EventTime(RecordAt(p)) /\ r.knowledge = KnowledgeTime(EventTime(RecordAt(p)), ctx)
  BY <1>1 DEF Row
<1> QED BY <1>3, <1>4

\* A bar the writer accepts is known no earlier than any print of its window.
LEMMA AcceptedBarIsKnownAfter ==
    ASSUME RawOK, AllReadable, NEW ctx \in Contexts, TimesChecked(Bars(Normalized(ctx), ctx), ctx),
           NEW b \in Bars(Normalized(ctx), ctx), NEW r \in Normalized(ctx),
           r.time < b.time + Window
    PROVE  b.knowledge >= r.knowledge
<1> DEFINE rows == Normalized(ctx)
<1>1. PICK start \in Starts(rows) : b = Bar(rows, start, ctx)
  BY DEF Bars
<1>2. PICK s \in rows : start = WindowStart(s.time)
  BY <1>1 DEF Starts
<1>3. start \in Int /\ Window \in Nat /\ Lag \in Nat
  BY <1>2, RowIsTyped, OwnWindow, WindowsAreTyped
<1>4. /\ b.time = start /\ b.knowledge = start + Window + Lag
      /\ b.receive = Larger(ctx.receive, start + Window + Lag)
  BY <1>1 DEF Bar, BarKnowledge
<1>5. r.time \in Int /\ r.knowledge = KnowledgeTime(r.time, ctx)
  BY RowIsTyped
<1>6. ctx.receive \in Nat
  BY ContextsAreTyped DEF Context
<1>7. CASE ctx.policy = "live_capture"
  <2>1. b.knowledge = b.receive
    BY <1>7 DEF TimesChecked
  <2>2. b.receive >= ctx.receive
    BY <1>3, <1>4, <1>6 DEF Larger
  <2> QED BY <1>5, <1>7, <2>1, <2>2 DEF KnowledgeTime
<1>8. CASE ctx.policy # "live_capture"
  BY <1>3, <1>4, <1>5, <1>8 DEF KnowledgeTime
<1> QED BY <1>7, <1>8

LEMMA KnownInit == Init => KnownInv
<1> SUFFICES ASSUME Init PROVE KnownInv
  OBVIOUS
<1>1. RawOK
  BY DEF Init, RawOK
<1>2. BarsKnownAfterPrints
  BY DEF Init, BarsKnownAfterPrints
<1> QED BY <1>1, <1>2 DEF KnownInv

LEMMA KnownRaw == RawOK /\ [Next]_vars => RawOK'
<1> SUFFICES ASSUME RawOK, [Next]_vars PROVE RawOK'
  OBVIOUS
<1>1. ASSUME NEW rec \in Records, Receive(rec) PROVE RawOK'
  <2>1. raw[Len(raw)] \in Seq(Records)
    BY DEF RawOK
  <2>2. Append(raw[Len(raw)], rec) \in Seq(Records)
    BY <2>1
  <2> QED BY <1>1, <2>2 DEF Receive, RawOK
<1>2. CASE Rotate
  BY <1>2 DEF Rotate, RawOK
<1>3. ASSUME NEW ctx \in Contexts, Build(ctx) PROVE RawOK'
  BY <1>3 DEF Build, RawOK
<1>4. CASE UNCHANGED vars
  BY <1>4 DEF vars, RawOK
<1> QED BY <1>1, <1>2, <1>3, <1>4 DEF Next

LEMMA KnownStep == KnownInv /\ [Next]_vars => KnownInv'
<1> SUFFICES ASSUME KnownInv, [Next]_vars PROVE KnownInv'
  OBVIOUS
<1>1. RawOK'
  BY KnownRaw DEF KnownInv
<1>2. CASE UNCHANGED sealed
  BY <1>1, <1>2 DEF KnownInv, BarsKnownAfterPrints
<1>3. ASSUME NEW ctx \in Contexts, Build(ctx) PROVE BarsKnownAfterPrints'
  <2>1. /\ AllReadable
        /\ TimesChecked(Bars(Normalized(ctx), ctx), ctx)
        /\ sealed' = [trades |-> Normalized(ctx), bars |-> Bars(Normalized(ctx), ctx),
                      asOf |-> ctx.asOf]
    BY <1>3 DEF Build
  <2>2. sealed'.trades = Normalized(ctx) /\ sealed'.bars = Bars(Normalized(ctx), ctx)
    BY <2>1
  <2>3. ASSUME NEW b \in sealed'.bars, NEW r \in sealed'.trades, r.time < b.time + Window
        PROVE  b.knowledge >= r.knowledge
    BY <2>1, <2>2, <2>3, AcceptedBarIsKnownAfter DEF KnownInv
  <2> QED BY <2>3 DEF BarsKnownAfterPrints
<1> QED BY <1>1, <1>2, <1>3 DEF KnownInv, Next, Receive, Rotate, vars

\* No snapshot holds a bar that is known before a print it is made of, under
\* either knowledge policy (build_bars, _check_time_fields).
THEOREM BarsAreKnownAfterPrints == Spec => []BarsKnownAfterPrints
<1>1. KnownInv => BarsKnownAfterPrints
  BY DEF KnownInv
<1> QED BY KnownInit, KnownStep, <1>1, PTL DEF Spec

\* A ticker history whose intervals do not overlap gives a ticker at most one
\* holder at any instant, the instant of a hand-over included, so that
\* resolve_ticker never raises for two matches.
THEOREM DisjointHistoryResolves ==
    ASSUME History \subseteq [instrument : Nat, ticker : STRING, from : Nat,
                              until : Nat \cup {Never}],
           Never \notin Nat,
           \A a, b \in History :
               a.ticker = b.ticker /\ a.instrument # b.instrument
               => \/ a.until # Never /\ a.until <= b.from
                  \/ b.until # Never /\ b.until <= a.from,
           NEW ticker, NEW at \in Nat
    PROVE  Holders(ticker, at) = {} \/ \E i : Holders(ticker, at) = {i}
<1>1. ASSUME NEW i \in Holders(ticker, at), NEW j \in Holders(ticker, at)
      PROVE  i = j
  <2>1. PICK a \in History : a.ticker = ticker /\ Covers(a, at) /\ a.instrument = i
    BY DEF Holders
  <2>2. PICK b \in History : b.ticker = ticker /\ Covers(b, at) /\ b.instrument = j
    BY DEF Holders
  <2>3. /\ a.from \in Nat /\ b.from \in Nat
        /\ a.until \in Nat \cup {Never} /\ b.until \in Nat \cup {Never}
    OBVIOUS
  <2>4. a.instrument = b.instrument
    BY <2>1, <2>2, <2>3 DEF Covers
  <2> QED BY <2>1, <2>2, <2>4
<1> QED BY <1>1

\* No assignment is empty, and two of a ticker do not overlap.
HistoryIsWellFormed ==
    /\ Never \notin Nat
    /\ History \subseteq [instrument : Nat, ticker : STRING, from : Nat,
                          until : Nat \cup {Never}]
    /\ \A a \in History : a.until = Never \/ a.from < a.until
    /\ \A a, b \in History :
          a.ticker = b.ticker /\ a # b
          => \/ a.until # Never /\ a.until <= b.from
             \/ b.until # Never /\ b.until <= a.from

\* resolve_ticker of a readable record returns the instrument of an assignment that
\* covers it.
LEMMA ResolvedIsAHolder ==
    ASSUME NEW rec, Resolvable(rec)
    PROVE  \E a \in History : /\ a.ticker = rec.symbol /\ a.instrument = Resolve(rec)
                             /\ Covers(a, EventTime(rec))
<1> DEFINE H == Holders(rec.symbol, EventTime(rec))
<1>1. H # {}
  BY FS_EmptySet DEF Resolvable
<1>2. Resolve(rec) \in H
  BY <1>1 DEF Resolve
<1> QED BY <1>2 DEF Holders

\* Of assignments that do not overlap, the one that covers an instant is the last
\* that began.
LEMMA CoveringIsLast ==
    ASSUME HistoryIsWellFormed, NEW t \in Int, NEW a \in History, Covers(a, t),
           NEW b \in History, b.ticker = a.ticker, a.from < b.from
    PROVE  ~ (b.from <= t)
<1>1. /\ a.from \in Nat /\ b.from \in Nat
      /\ a.until \in Nat \cup {Never} /\ b.until \in Nat \cup {Never}
  BY DEF HistoryIsWellFormed
<1>2. a # b
  BY <1>1
<1>3. CASE a.until # Never /\ a.until <= b.from
  BY <1>1, <1>3 DEF Covers, HistoryIsWellFormed
<1>4. CASE b.until # Never /\ b.until <= a.from
  BY <1>1, <1>4 DEF HistoryIsWellFormed
<1> QED BY <1>2, <1>3, <1>4 DEF HistoryIsWellFormed

-----------------------------------------------------------------------------
(* Replay.                                                                 *)

\* The places that the ingest index of a place counts.
Earlier(p) == {q \in Places : q[1] < p[1] \/ (q[1] = p[1] /\ q[2] < p[2])}

PlacesOK == RawOK /\ IsFiniteSet(Places)

LEMMA PlaceIsPair ==
    ASSUME RawOK, NEW p \in Places
    PROVE  /\ p = <<p[1], p[2]>> /\ p[1] \in 1..Len(raw)
           /\ p[2] \in 1..Len(raw[p[1]]) /\ p[2] \in Nat
<1>1. PICK f \in DOMAIN raw : \E k \in DOMAIN raw[f] : p = <<f, k>>
  BY DEF Places
<1>2. PICK k \in DOMAIN raw[f] : p = <<f, k>>
  BY <1>1
<1>3. raw[f] \in Seq(Records) /\ DOMAIN raw = 1..Len(raw)
  BY DEF RawOK
<1>4. DOMAIN raw[f] = 1..Len(raw[f]) /\ Len(raw[f]) \in Nat
  BY <1>3
<1> QED BY <1>2, <1>3, <1>4

LEMMA PairIsPlace ==
    ASSUME RawOK, NEW f \in 1..Len(raw), NEW k \in 1..Len(raw[f])
    PROVE  <<f, k>> \in Places
<1>1. f \in DOMAIN raw /\ raw[f] \in Seq(Records)
  BY DEF RawOK
<1>2. k \in DOMAIN raw[f]
  BY <1>1
<1> QED BY <1>1, <1>2 DEF Places

\* Places are in a strict total order, and the index grows along it.
LEMMA IndexGrows ==
    ASSUME PlacesOK, NEW p \in Places, NEW q \in Places,
           p[1] < q[1] \/ (p[1] = q[1] /\ p[2] < q[2])
    PROVE  IngestIndex(p) < IngestIndex(q)
<1>1. p[1] \in Nat /\ p[2] \in Nat /\ q[1] \in Nat /\ q[2] \in Nat
  BY PlaceIsPair DEF PlacesOK
<1>2. Earlier(p) \subseteq Earlier(q)
  <2> SUFFICES ASSUME NEW e \in Earlier(p) PROVE e \in Earlier(q)
    OBVIOUS
  <2>1. e \in Places /\ e[1] \in Nat /\ e[2] \in Nat
    BY PlaceIsPair DEF PlacesOK, Earlier
  <2> QED BY <1>1, <2>1 DEF Earlier
<1>3. p \in Earlier(q) /\ p \notin Earlier(p)
  BY <1>1 DEF Earlier
<1>4. IsFiniteSet(Earlier(q)) /\ IsFiniteSet(Earlier(p))
  BY FS_Subset DEF Earlier, PlacesOK
<1>5. Cardinality(Earlier(p)) <= Cardinality(Earlier(q))
      /\ Cardinality(Earlier(p)) # Cardinality(Earlier(q))
  BY <1>2, <1>3, <1>4, FS_Subset
<1>6. Cardinality(Earlier(p)) \in Nat /\ Cardinality(Earlier(q)) \in Nat
  BY <1>4, FS_CardinalityType
<1> QED BY <1>5, <1>6 DEF IngestIndex, Earlier

LEMMA IndexIsNatural ==
    ASSUME PlacesOK, NEW p \in Places
    PROVE  IngestIndex(p) \in Nat
<1>1. IsFiniteSet(Earlier(p))
  BY FS_Subset DEF Earlier, PlacesOK
<1> QED BY <1>1, FS_CardinalityType DEF IngestIndex, Earlier

\* No two rows of a partition have one ordering key.
LEMMA KeysDiffer ==
    ASSUME PlacesOK, AllReadable, NEW ctx \in Contexts
    PROVE  TotallyOrdered(Normalized(ctx))
<1> SUFFICES ASSUME NEW r \in Normalized(ctx), NEW s \in Normalized(ctx), r # s
             PROVE  Before(r, s) \/ Before(s, r)
  BY DEF TotallyOrdered
<1>1. PICK p \in Places : r = Row(p, ctx)
  BY DEF Normalized
<1>2. PICK q \in Places : s = Row(q, ctx)
  BY DEF Normalized
<1>3. p # q
  BY <1>1, <1>2
<1>4. /\ p = <<p[1], p[2]>> /\ q = <<q[1], q[2]>>
      /\ p[1] \in Nat /\ p[2] \in Nat /\ q[1] \in Nat /\ q[2] \in Nat
  BY PlaceIsPair DEF PlacesOK
<1>5. \/ p[1] < q[1] \/ (p[1] = q[1] /\ p[2] < q[2])
      \/ q[1] < p[1] \/ (q[1] = p[1] /\ q[2] < p[2])
  BY <1>3, <1>4
<1>6. r.index < s.index \/ s.index < r.index
  BY <1>1, <1>2, <1>5, IndexGrows DEF Row
<1>7. r.time \in Int /\ s.time \in Int
  BY RowIsTyped DEF PlacesOK
<1>8. r.seq \in Int /\ s.seq \in Int
  BY <1>1, <1>2, PlaceOfRecord, RecordsAreTyped DEF Row, PlacesOK
<1> QED BY <1>6, <1>7, <1>8 DEF Before

\* Appending and rotating move no earlier record.
LEMMA ReceiveKeepsPlaces ==
    ASSUME PlacesOK, NEW rec \in Records, Receive(rec)
    PROVE  /\ Places' = Places \cup {<<Len(raw), Len(raw[Len(raw)]) + 1>>}
           /\ \A p \in Places : RecordAt(p)' = RecordAt(p)
<1> DEFINE n == Len(raw)
           k == Len(raw[n]) + 1
<1>1. n \in Nat \ {0} /\ n \in 1..Len(raw) /\ raw[n] \in Seq(Records)
  BY DEF PlacesOK, RawOK
<1>2. raw' = [raw EXCEPT ![n] = Append(raw[n], rec)]
  BY DEF Receive
<1>3. RawOK'
  BY KnownRaw DEF PlacesOK, Next
<1>4. Len(raw') = n /\ raw'[n] = Append(raw[n], rec)
  BY <1>1, <1>2 DEF PlacesOK, RawOK
<1>5. Len(raw[n]) \in Nat /\ Len(raw'[n]) = k
  BY <1>1, <1>4
<1>6. \A f \in 1..n : f # n => raw'[f] = raw[f]
  BY <1>2 DEF PlacesOK, RawOK
<1>7. ASSUME NEW p \in Places' PROVE p \in Places \cup {<<n, k>>}
  <2>1. p = <<p[1], p[2]>> /\ p[1] \in 1..n /\ p[2] \in 1..Len(raw'[p[1]])
    <3>1. \A p1 \in Places' : /\ p1 = <<p1[1], p1[2]>> /\ p1[1] \in 1..Len(raw')
                              /\ p1[2] \in 1..Len(raw'[p1[1]])
      <4> USE <1>3
      <4> SUFFICES ASSUME NEW p1 \in Places'
                   PROVE  /\ p1 = <<p1[1], p1[2]>> /\ p1[1] \in 1..Len(raw')
                          /\ p1[2] \in 1..Len(raw'[p1[1]])
        OBVIOUS
      <4>1. PICK f \in DOMAIN raw' : \E j \in DOMAIN raw'[f] : p1 = <<f, j>>
        BY DEF Places
      <4>2. PICK j \in DOMAIN raw'[f] : p1 = <<f, j>>
        BY <4>1
      <4>3. raw'[f] \in Seq(Records) /\ DOMAIN raw' = 1..Len(raw')
        BY DEF RawOK
      <4>4. DOMAIN raw'[f] = 1..Len(raw'[f])
        BY <4>3
      <4> QED BY <4>2, <4>3, <4>4
    <3> QED BY <1>4, <3>1
  <2>2. CASE p[1] = n
    <3>1. p[2] \in 1..k
      BY <1>5, <2>1, <2>2
    <3>2. p[2] = k \/ p[2] \in 1..Len(raw[n])
      BY <1>5, <3>1
    <3> QED BY <1>1, <2>1, <2>2, <3>2, PairIsPlace DEF PlacesOK
  <2>3. CASE p[1] # n
    BY <1>6, <2>1, <2>3, PairIsPlace DEF PlacesOK
  <2> QED BY <2>2, <2>3
<1>8. ASSUME NEW f \in 1..n, NEW j \in 1..Len(raw'[f]) PROVE <<f, j>> \in Places'
  <2>1. raw' \in Seq(Seq(Records)) /\ DOMAIN raw' = 1..n
    BY <1>3, <1>4 DEF RawOK
  <2>2. j \in DOMAIN raw'[f]
    BY <2>1
  <2> QED BY <2>1, <2>2 DEF Places
<1>9. ASSUME NEW p \in Places PROVE p \in Places' /\ RecordAt(p)' = RecordAt(p)
  <2>1. p = <<p[1], p[2]>> /\ p[1] \in 1..n /\ p[2] \in 1..Len(raw[p[1]])
    BY PlaceIsPair DEF PlacesOK
  <2>2. p[2] \in 1..Len(raw'[p[1]]) /\ raw'[p[1]][p[2]] = raw[p[1]][p[2]]
    <3>1. CASE p[1] = n
      BY <1>1, <1>4, <1>5, <2>1, <3>1
    <3>2. CASE p[1] # n
      BY <1>6, <2>1, <3>2
    <3> QED BY <3>1, <3>2
  <2> QED BY <1>8, <2>1, <2>2 DEF RecordAt
<1>10. <<n, k>> \in Places'
  BY <1>1, <1>5, <1>8
<1> QED BY <1>7, <1>9, <1>10

LEMMA RotateKeepsPlaces ==
    ASSUME PlacesOK, Rotate
    PROVE  Places' = Places /\ \A p \in Places : RecordAt(p)' = RecordAt(p)
<1> DEFINE n == Len(raw)
<1>1. n \in Nat /\ DOMAIN raw = 1..n /\ raw' = Append(raw, <<>>)
  BY DEF PlacesOK, RawOK, Rotate
<1>2. DOMAIN raw' = 1..(n + 1) /\ raw'[n + 1] = <<>> /\ \A f \in 1..n : raw'[f] = raw[f]
  BY <1>1 DEF PlacesOK, RawOK
<1>3. DOMAIN raw'[n + 1] = {}
  BY <1>2
<1>4. ASSUME NEW p \in Places' PROVE p \in Places
  <2>1. PICK f \in DOMAIN raw' : \E k \in DOMAIN raw'[f] : p = <<f, k>>
    BY DEF Places
  <2>2. f \in 1..n
    BY <1>1, <1>2, <1>3, <2>1
  <2> QED BY <1>1, <1>2, <2>1, <2>2 DEF Places
<1>5. ASSUME NEW p \in Places PROVE p \in Places' /\ RecordAt(p)' = RecordAt(p)
  <2>1. PICK f \in DOMAIN raw : \E k \in DOMAIN raw[f] : p = <<f, k>>
    BY DEF Places
  <2>2. f \in DOMAIN raw' /\ raw'[f] = raw[f]
    BY <1>1, <1>2, <2>1
  <2> QED BY <2>1, <2>2 DEF Places, RecordAt
<1> QED BY <1>4, <1>5

\* The index of a place is the same after the capture has gone on.
LEMMA IndexStays ==
    ASSUME PlacesOK, \/ \E rec \in Records : Receive(rec)
                     \/ Rotate,
           NEW p \in Places
    PROVE  p \in Places' /\ RecordAt(p)' = RecordAt(p) /\ IngestIndex(p)' = IngestIndex(p)
<1>1. CASE Rotate
  BY <1>1, RotateKeepsPlaces DEF IngestIndex
<1>2. ASSUME NEW rec \in Records, Receive(rec)
      PROVE  p \in Places' /\ RecordAt(p)' = RecordAt(p) /\ IngestIndex(p)' = IngestIndex(p)
  <2> DEFINE new == <<Len(raw), Len(raw[Len(raw)]) + 1>>
  <2>1. Places' = Places \cup {new} /\ RecordAt(p)' = RecordAt(p)
    BY <1>2, ReceiveKeepsPlaces
  <2>2. /\ p[1] \in 1..Len(raw) /\ p[2] \in 1..Len(raw[p[1]])
        /\ Len(raw) \in Nat \ {0} /\ raw[Len(raw)] \in Seq(Records)
    BY PlaceIsPair DEF PlacesOK, RawOK
  <2>3. Len(raw[Len(raw)]) \in Nat
    BY <2>2
  <2>4. ~ (new[1] < p[1] \/ (new[1] = p[1] /\ new[2] < p[2]))
    BY <2>2, <2>3
  <2>5. Earlier(p)' = Earlier(p)
    BY <2>1, <2>4 DEF Earlier
  <2> QED BY <2>1, <2>5 DEF IngestIndex, Earlier
<1> QED BY <1>1, <1>2

\* A row is that of a record, wherever the settings of its build came from.
OfPlace(r, p) ==
    LET rec == RecordAt(p) IN
    /\ r.time = EventTime(rec) /\ r.seq = rec.seq /\ r.index = IngestIndex(p)
    /\ r.instrument = Resolve(rec) /\ r.price = Dollars(rec.price) /\ r.size = rec.size

ReplayInv ==
    /\ PlacesOK
    /\ sealed # NoSnapshot =>
        \A r \in sealed.trades : /\ r.time \in Int /\ r.seq \in Int /\ r.index \in Nat
                                 /\ \E p \in Places : OfPlace(r, p)

LEMMA RowOfPlace ==
    ASSUME PlacesOK, AllReadable, NEW ctx \in Contexts, NEW p \in Places
    PROVE  /\ OfPlace(Row(p, ctx), p)
           /\ Row(p, ctx).time \in Int /\ Row(p, ctx).seq \in Int
           /\ Row(p, ctx).index \in Nat
<1>1. OfPlace(Row(p, ctx), p)
  BY DEF OfPlace, Row
<1>2. Row(p, ctx) \in Normalized(ctx)
  BY DEF Normalized
<1>3. Row(p, ctx).time \in Int
  BY <1>2, RowIsTyped DEF PlacesOK
<1>4. Row(p, ctx).seq \in Int
  BY PlaceOfRecord, RecordsAreTyped DEF Row, PlacesOK
<1>5. Row(p, ctx).index \in Nat
  BY IndexIsNatural DEF Row
<1> QED BY <1>1, <1>3, <1>4, <1>5

LEMMA PlacesStep == PlacesOK /\ [Next]_vars => PlacesOK'
<1> SUFFICES ASSUME PlacesOK, [Next]_vars PROVE PlacesOK'
  OBVIOUS
<1>1. RawOK'
  BY KnownRaw DEF PlacesOK
<1>2. ASSUME NEW rec \in Records, Receive(rec) PROVE IsFiniteSet(Places')
  BY <1>2, ReceiveKeepsPlaces, FS_AddElement DEF PlacesOK
<1>3. CASE Rotate
  BY <1>1, <1>3, RotateKeepsPlaces DEF PlacesOK
<1>4. CASE UNCHANGED raw
  BY <1>1, <1>4 DEF PlacesOK, Places
<1> QED BY <1>1, <1>2, <1>3, <1>4 DEF PlacesOK, Next, Build, vars

LEMMA ReplayInit == Init => ReplayInv
<1> SUFFICES ASSUME Init PROVE ReplayInv
  OBVIOUS
<1>1. RawOK /\ sealed = NoSnapshot
  BY DEF Init, RawOK
<1>2. Places = {}
  BY DEF Init, Places
<1> QED BY <1>1, <1>2, FS_EmptySet DEF ReplayInv, PlacesOK

LEMMA ReplayStep == ReplayInv /\ [Next]_vars => ReplayInv'
<1> SUFFICES ASSUME ReplayInv, [Next]_vars PROVE ReplayInv'
  OBVIOUS
<1>1. PlacesOK'
  BY PlacesStep DEF ReplayInv
<1>2. ASSUME (\E rec \in Records : Receive(rec)) \/ Rotate PROVE ReplayInv'
  <2>1. \A p \in Places : /\ p \in Places' /\ RecordAt(p)' = RecordAt(p)
                          /\ IngestIndex(p)' = IngestIndex(p)
    BY <1>2, IndexStays DEF ReplayInv
  <2>2. ASSUME NEW r, NEW p \in Places, OfPlace(r, p) PROVE p \in Places' /\ OfPlace(r, p)'
    BY <2>1, <2>2 DEF OfPlace
  <2>3. sealed' = sealed
    BY <1>2 DEF Receive, Rotate
  <2> QED BY <1>1, <2>2, <2>3 DEF ReplayInv
<1>3. ASSUME NEW ctx \in Contexts, Build(ctx) PROVE ReplayInv'
  <2>1. AllReadable /\ sealed'.trades = Normalized(ctx) /\ raw' = raw
    BY <1>3 DEF Build
  <2>2. \A p \in Places : \A r : OfPlace(r, p)' <=> OfPlace(r, p)
    BY <2>1 DEF OfPlace, RecordAt, IngestIndex, Places
  <2>3. Places' = Places
    BY <2>1 DEF Places
  <2>4. ASSUME NEW r \in sealed'.trades
        PROVE  /\ r.time \in Int /\ r.seq \in Int /\ r.index \in Nat
               /\ \E p \in Places' : OfPlace(r, p)'
    <3>1. PICK p \in Places : r = Row(p, ctx)
      BY <2>1, <2>4 DEF Normalized
    <3> QED BY <2>1, <2>2, <2>3, <3>1, RowOfPlace DEF ReplayInv
  <2> QED BY <1>1, <2>4 DEF ReplayInv
<1>4. CASE UNCHANGED vars
  BY <1>1, <1>4 DEF ReplayInv, OfPlace, RecordAt, IngestIndex, Places, vars
<1> QED BY <1>2, <1>3, <1>4 DEF Next

\* The key of an event is a function of the bytes captured before it: a build of a
\* partition that has grown since gives each earlier event its old place in the order
\* (assign_ingest_index).
THEOREM ReplayIsStable == Spec => ReplayKeepsOrder
<1> DEFINE Kept == sealed # NoSnapshot =>
                      \A r \in sealed.trades : \E q \in sealed'.trades : SameRow(r, q)
<1>1. ASSUME ReplayInv, [Next]_vars PROVE Kept \/ sealed' = sealed
  <2>1. CASE UNCHANGED sealed
    BY <2>1
  <2>2. ASSUME NEW ctx \in Contexts, Build(ctx), sealed # NoSnapshot, NEW r \in sealed.trades
        PROVE  \E q \in sealed'.trades : SameRow(r, q)
    <3>1. AllReadable /\ sealed'.trades = Normalized(ctx)
      BY <2>2 DEF Build
    <3>2. PICK p \in Places : OfPlace(r, p)
      BY <1>1, <2>2 DEF ReplayInv
    <3>3. OfPlace(Row(p, ctx), p) /\ Row(p, ctx) \in sealed'.trades
      BY <1>1, <3>1, RowOfPlace DEF ReplayInv, Normalized
    <3>4. r.time \in Int /\ r.seq \in Int /\ r.index \in Nat
      BY <1>1, <2>2 DEF ReplayInv
    <3> QED BY <3>2, <3>3, <3>4 DEF OfPlace, SameRow, Before
  <2> QED BY <1>1, <2>1, <2>2 DEF Next, Receive, Rotate, vars
<1>2. ReplayInv /\ [Next]_vars => [Kept]_sealed
  BY <1>1
<1> QED BY <1>2, ReplayInit, ReplayStep, PTL DEF Spec, ReplayKeepsOrder

\* The ordering check never refuses the rows of a partition that can be read: two
\* records always differ in the last component of the key (_check_ordering).
THEOREM OrderIsTotal ==
    Spec => [](AllReadable => \A ctx \in Contexts : TotallyOrdered(Normalized(ctx)))
<1>1. ReplayInv => (AllReadable => \A ctx \in Contexts : TotallyOrdered(Normalized(ctx)))
  BY KeysDiffer DEF ReplayInv
<1> QED BY <1>1, ReplayInit, ReplayStep, PTL DEF Spec

-----------------------------------------------------------------------------
(* Tables of rows.                                                         *)

\* What the aggregation needs of the rows it is given.
RowsOK(rows) ==
    /\ IsFiniteSet(rows)
    /\ \A r \in rows : /\ r.time \in Int /\ r.seq \in Int /\ r.index \in Nat
                       /\ r.price \in Int /\ r.size \in Nat /\ r.eligible \in BOOLEAN
    /\ \A r, q \in rows : r.index = q.index => r = q

\* The rows of some places, as of some build.
RowsOf(Q, ctx) == {Row(p, ctx) : p \in Q}

LEMMA DollarsAreTyped ==
    ASSUME NEW amount \in Rational
    PROVE  Dollars(amount) \in Int
<1>1. amount.num \in Int /\ amount.den \in Nat \ {0} /\ Nano \in Nat
  BY MoneyIsTyped DEF Rational
<1>2. amount.num * Nano \in Int
  BY <1>1
<1> QED
  BY <1>1, <1>2 DEF Dollars

LEMMA IndexIsOfOne ==
    ASSUME PlacesOK, NEW p \in Places, NEW q \in Places, IngestIndex(p) = IngestIndex(q)
    PROVE  p = q
<1> SUFFICES ASSUME p # q PROVE FALSE
  OBVIOUS
<1>1. /\ p = <<p[1], p[2]>> /\ q = <<q[1], q[2]>>
      /\ p[1] \in Nat /\ p[2] \in Nat /\ q[1] \in Nat /\ q[2] \in Nat
  BY PlaceIsPair DEF PlacesOK
<1>2. \/ p[1] < q[1] \/ (p[1] = q[1] /\ p[2] < q[2])
      \/ q[1] < p[1] \/ (q[1] = p[1] /\ q[2] < p[2])
  BY <1>1
<1>3. IngestIndex(p) < IngestIndex(q) \/ IngestIndex(q) < IngestIndex(p)
  BY <1>2, IndexGrows
<1> QED
  BY <1>3, IndexIsNatural

LEMMA RowFields ==
    ASSUME PlacesOK, NEW p \in Places, Readable(RecordAt(p)), NEW ctx \in Contexts
    PROVE  LET r == Row(p, ctx) IN
           /\ r.time \in Int /\ r.seq \in Int /\ r.seq \in Nat \cup {-1}
           /\ r.index \in Nat /\ r.index = IngestIndex(p)
           /\ r.price \in Int /\ r.price \in Price /\ r.size \in Nat /\ r.eligible \in BOOLEAN
<1> DEFINE rec == RecordAt(p)
           r == Row(p, ctx)
<1>1. rec \in Records
  BY PlaceOfRecord DEF PlacesOK
<1>2. /\ r.time = EventTime(rec) /\ r.seq = rec.seq /\ r.index = IngestIndex(p)
      /\ r.price = Dollars(rec.price) /\ r.size = rec.size /\ r.eligible = rec.eligible
  BY DEF Row
<1>3. EventTime(rec) \in Int
  BY <1>1, RecordsAreTyped DEF Readable, EventTime
<1>4. Dollars(rec.price) \in Int /\ Dollars(rec.price) \in Price
  BY <1>1, RecordsAreTyped, DollarsAreTyped DEF Readable, Price
<1> HIDE DEF rec, r
<1>5. rec.seq \in Nat \cup {-1} /\ rec.seq \in Int /\ rec.size \in Nat /\ rec.eligible \in BOOLEAN
  BY <1>1, RecordsAreTyped
<1>6. IngestIndex(p) \in Nat
  BY IndexIsNatural
<1> QED
  BY <1>2, <1>3, <1>4, <1>5, <1>6 DEF r

LEMMA RowsAreOK ==
    ASSUME PlacesOK, NEW Q \in SUBSET Places, \A p \in Q : Readable(RecordAt(p)),
           NEW ctx \in Contexts
    PROVE  /\ RowsOK(RowsOf(Q, ctx)) /\ IsFiniteSet(Q)
           /\ Cardinality(RowsOf(Q, ctx)) = Cardinality(Q)
<1> DEFINE h == [p \in Q |-> Row(p, ctx)]
<1>1. IsFiniteSet(Q)
  BY FS_Subset DEF PlacesOK
<1>2. RowsOf(Q, ctx) = {h[p] : p \in Q}
  BY DEF RowsOf
<1>3. \A p \in Q : h[p] = Row(p, ctx)
  OBVIOUS
<1>4. \A p, q \in Q : Row(p, ctx).index = Row(q, ctx).index => p = q
  BY RowFields, IndexIsOfOne
<1>5. \A p, q \in Q : h[p] = h[q] => p = q
  BY <1>3, <1>4
<1> HIDE DEF h
<1>6. IsFiniteSet(RowsOf(Q, ctx)) /\ Cardinality(RowsOf(Q, ctx)) = Cardinality(Q)
  BY <1>1, <1>2, <1>5, ImageIsFinite
<1>7. \A r, q \in RowsOf(Q, ctx) : r.index = q.index => r = q
  BY <1>4 DEF RowsOf
<1>8. \A r \in RowsOf(Q, ctx) : /\ r.time \in Int /\ r.seq \in Int /\ r.index \in Nat
                                /\ r.price \in Int /\ r.size \in Nat /\ r.eligible \in BOOLEAN
  BY RowFields DEF RowsOf
<1> QED
  BY <1>1, <1>6, <1>7, <1>8 DEF RowsOK

\* The first and the last print of a window, and its volume.
LEMMA EndsOfPrints ==
    ASSUME NEW rows, RowsOK(rows), rows # {}
    PROVE  /\ First(rows) \in rows /\ \A q \in rows : q = First(rows) \/ Before(First(rows), q)
           /\ Last(rows) \in rows /\ \A q \in rows : q = Last(rows) \/ Before(q, Last(rows))
<1> DEFINE Up == {pair \in rows \X rows : Before(pair[1], pair[2])}
           Down == {pair \in rows \X rows : Before(pair[2], pair[1])}
<1>1. \A x, y \in rows : (<<x, y>> \in Up <=> Before(x, y)) /\ (<<x, y>> \in Down <=> Before(y, x))
  OBVIOUS
<1> HIDE DEF Up, Down
<1>2. ASSUME NEW x \in rows, NEW y \in rows PROVE x = y \/ Before(x, y) \/ Before(y, x)
  BY DEF RowsOK, Before
<1>3. ASSUME NEW x \in rows, NEW y \in rows, NEW z \in rows, Before(x, y), Before(y, z)
      PROVE  Before(x, z)
  BY <1>3 DEF RowsOK, Before
<1>4. IsFiniteSet(rows)
  BY DEF RowsOK
<1>5. PICK first \in rows : \A y \in rows : y = first \/ <<first, y>> \in Up
  <2>1. \A x, y \in rows : x = y \/ <<x, y>> \in Up \/ <<y, x>> \in Up
    BY <1>1, <1>2
  <2>2. \A x, y, z \in rows : <<x, y>> \in Up /\ <<y, z>> \in Up => <<x, z>> \in Up
    BY <1>1, <1>3
  <2> QED
    BY <1>4, <2>1, <2>2, OrderHasFirst
<1>6. PICK last \in rows : \A y \in rows : y = last \/ <<last, y>> \in Down
  <2>1. \A x, y \in rows : x = y \/ <<x, y>> \in Down \/ <<y, x>> \in Down
    BY <1>1, <1>2
  <2>2. \A x, y, z \in rows : <<x, y>> \in Down /\ <<y, z>> \in Down => <<x, z>> \in Down
    BY <1>1, <1>3
  <2> QED
    BY <1>4, <2>1, <2>2, OrderHasFirst
<1>7. \E x \in rows : \A y \in rows : y = x \/ Before(x, y)
  BY <1>1, <1>5
<1>8. \E x \in rows : \A y \in rows : y = x \/ Before(y, x)
  BY <1>1, <1>6
<1> QED
  BY <1>7, <1>8 DEF First, Last

LEMMA PrintsAreOK ==
    ASSUME NEW rows, RowsOK(rows), NEW start
    PROVE  RowsOK(Prints(rows, start)) /\ Prints(rows, start) \subseteq rows
<1>1. Prints(rows, start) \subseteq rows
  BY DEF Prints
<1>2. IsFiniteSet(Prints(rows, start))
  BY <1>1, FS_Subset DEF RowsOK
<1> QED
  BY <1>1, <1>2 DEF RowsOK

LEMMA VolumeIsTyped ==
    ASSUME NEW rows, RowsOK(rows)
    PROVE  Volume(rows) \in Nat /\ Traded(rows) \in Int
<1> DEFINE f == [r \in rows |-> r.size]
           g == [r \in rows |-> Notional(r.price, r.size)]
<1>1. /\ 0 \in Nat /\ \A a, b \in Nat : a + b \in Nat
      /\ 0 \in Int /\ \A a, b \in Int : a + b \in Int
  OBVIOUS
<1>2. IsFiniteSet(rows) /\ \A r \in rows : f[r] \in Nat
  BY DEF RowsOK
<1>3. \A r \in rows : g[r] \in Int
  <2> SUFFICES ASSUME NEW r \in rows PROVE r.price * r.size \in Int
    BY DEF Notional
  <2>1. r.price \in Int /\ r.size \in Int
    BY DEF RowsOK
  <2> QED
    BY <2>1
<1>4. Volume(rows) = SumFunctionOnSet(f, rows) /\ Traded(rows) = SumFunctionOnSet(g, rows)
  BY DEF Volume, Traded, SumFunction
<1> HIDE DEF f, g
<1>5. SumFunctionOnSet(f, rows) \in Nat
  BY <1>1, <1>2, SumIsTyped
<1>6. SumFunctionOnSet(g, rows) \in Int
  BY <1>1, <1>2, <1>3, SumIsTyped
<1> QED
  BY <1>4, <1>5, <1>6

Prices(rows) == {r.price : r \in rows}

LEMMA PriceRange ==
    ASSUME NEW rows, RowsOK(rows), rows # {}
    PROVE  /\ Max(Prices(rows)) \in Int /\ Max(Prices(rows)) \in Prices(rows)
           /\ Min(Prices(rows)) \in Int /\ Min(Prices(rows)) \in Prices(rows)
           /\ \A r \in rows : Min(Prices(rows)) <= r.price /\ r.price <= Max(Prices(rows))
<1> DEFINE h == [r \in rows |-> r.price]
<1>1. Prices(rows) = {h[r] : r \in rows}
  BY DEF Prices
<1>2. IsFiniteSet(rows)
  BY DEF RowsOK
<1> HIDE DEF h
<1>3. IsFiniteSet(Prices(rows))
  BY <1>1, <1>2, ImageIsFinite
<1>4. Prices(rows) \in SUBSET Int /\ Prices(rows) # {}
  BY DEF RowsOK, Prices
<1>5. \A r \in rows : r.price \in Prices(rows)
  BY DEF Prices
<1> QED
  BY <1>3, <1>4, <1>5, MaxAndMin

\* What was paid in a window lies between its lowest and its highest price for all of it.
LEMMA TradedIsBetween ==
    ASSUME NEW rows, RowsOK(rows), NEW low \in Int, NEW high \in Int,
           \A r \in rows : low <= r.price /\ r.price <= high
    PROVE  low * Volume(rows) <= Traded(rows) /\ Traded(rows) <= high * Volume(rows)
<1> DEFINE size == [r \in rows |-> r.size]
           paid == [r \in rows |-> Notional(r.price, r.size)]
           least == [r \in rows |-> low * r.size]
           most == [r \in rows |-> high * r.size]
<1>1. IsFiniteSet(rows) /\ \A r \in rows : size[r] \in Int
  BY DEF RowsOK
<1>2. ASSUME NEW r \in rows
      PROVE  /\ least[r] \in Int /\ paid[r] \in Int /\ most[r] \in Int
             /\ least[r] <= paid[r] /\ paid[r] <= most[r]
  <2> DEFINE p == r.price
             n == r.size
  <2>1. p \in Int /\ n \in Nat /\ low <= p /\ p <= high
    BY DEF RowsOK
  <2> HIDE DEF p, n
  <2>2. low * n <= p * n /\ p * n <= high * n
    BY <2>1
  <2>3. low * n \in Int /\ p * n \in Int /\ high * n \in Int
    BY <2>1
  <2> QED
    BY <2>2, <2>3 DEF Notional, p, n
<1>3. \A r \in rows : least[r] = low * size[r] /\ most[r] = high * size[r]
  OBVIOUS
<1>4. Volume(rows) = SumFunctionOnSet(size, rows) /\ Traded(rows) = SumFunctionOnSet(paid, rows)
  BY DEF Volume, Traded, SumFunction
<1> HIDE DEF size, paid, least, most
<1>5. /\ SumFunctionOnSet(least, rows) = low * SumFunctionOnSet(size, rows)
      /\ SumFunctionOnSet(most, rows) = high * SumFunctionOnSet(size, rows)
  BY <1>1, <1>3, SumIsScaled
<1>6. /\ SumFunctionOnSet(least, rows) <= SumFunctionOnSet(paid, rows)
      /\ SumFunctionOnSet(paid, rows) <= SumFunctionOnSet(most, rows)
  BY <1>1, <1>2, SumIsMonotone
<1> QED
  BY <1>4, <1>5, <1>6

\* So the average price does, after rounding to a whole number, too (round_statistic).
LEMMA RoundedIsBetween ==
    ASSUME NEW n \in Int, NEW d \in Nat \ {0}, NEW low \in Int, NEW high \in Int,
           low * d <= n, n <= high * d
    PROVE  LET v == RoundStatistic([num |-> n, den |-> d]).value IN
           v \in Int /\ low <= v /\ v <= high
<1> DEFINE floor == n \div d
           rest == n % d
           exact == [num |-> n, den |-> d]
           v == RoundAgainstUs(exact, FALSE).value
<1>1. floor \in Int /\ rest \in 0..(d - 1) /\ n = d * floor + rest
  BY FloorAndRest
<1>2. v \in {floor, floor + 1} /\ (rest = 0 => v = floor)
  <2>1. exact \in Rational /\ exact.num = n /\ exact.den = d
    BY DEF Rational
  <2> HIDE DEF exact
  <2> QED
    BY <2>1, RoundingCases
<1> HIDE DEF floor, rest, v
<1>3. low <= floor
  <2> SUFFICES ASSUME floor + 1 <= low PROVE FALSE
    BY <1>1
  <2>1. d * (floor + 1) <= d * low /\ d * low = low * d /\ d * (floor + 1) = d * floor + d
    BY <1>1
  <2> QED
    BY <1>1, <2>1
<1>4. floor <= high /\ (rest # 0 => floor + 1 <= high)
  <2>1. ASSUME high + 1 <= floor PROVE FALSE
    <3>1. d * (high + 1) <= d * floor /\ d * (high + 1) = high * d + d
      BY <1>1, <2>1
    <3> QED
      BY <1>1, <3>1
  <2>2. ASSUME rest # 0, high = floor PROVE FALSE
    BY <1>1, <2>2
  <2> QED
    BY <1>1, <2>1, <2>2
<1>5. v \in Int /\ low <= v /\ v <= high
  BY <1>1, <1>2, <1>3, <1>4
<1> QED
  BY <1>5 DEF v, RoundStatistic

LEMMA VwapIsBetween ==
    ASSUME NEW rows, RowsOK(rows), rows # {}, Volume(rows) > 0
    PROVE  /\ Vwap(rows) \in Int
           /\ Min(Prices(rows)) <= Vwap(rows) /\ Vwap(rows) <= Max(Prices(rows))
<1> DEFINE low == Min(Prices(rows))
           high == Max(Prices(rows))
<1>1. low \in Int /\ high \in Int /\ \A r \in rows : low <= r.price /\ r.price <= high
  BY PriceRange
<1>2. Volume(rows) \in Nat \ {0} /\ Traded(rows) \in Int
  BY VolumeIsTyped
<1> HIDE DEF low, high
<1>3. low * Volume(rows) <= Traded(rows) /\ Traded(rows) <= high * Volume(rows)
  BY <1>1, TradedIsBetween
<1>4. Vwap(rows) \in Int /\ low <= Vwap(rows) /\ Vwap(rows) <= high
  BY <1>1, <1>2, <1>3, RoundedIsBetween DEF Vwap
<1> QED
  BY <1>4 DEF low, high

-----------------------------------------------------------------------------
(* Bars.                                                                   *)

\* Windows that differ do not overlap.
LEMMA WindowsApart ==
    ASSUME NEW t \in Int, NEW u \in Int, WindowStart(t) # WindowStart(u)
    PROVE  \/ WindowStart(t) + Window <= WindowStart(u)
           \/ WindowStart(u) + Window <= WindowStart(t)
<1> DEFINE m == (t - Origin) \div Window
           n == (u - Origin) \div Window
<1>1. Window \in Nat \ {0} /\ Origin \in Int
  BY WindowsAreTyped
<1>2. m \in Int /\ n \in Int
  BY <1>1
<1>3. WindowStart(t) = Origin + m * Window /\ WindowStart(u) = Origin + n * Window
  BY DEF WindowStart
<1> HIDE DEF m, n
<1>4. m * Window \in Int /\ n * Window \in Int
  BY <1>1, <1>2
<1>5. ASSUME m < n PROVE m * Window + Window <= n * Window
  <2>1. (m + 1) * Window <= n * Window /\ (m + 1) * Window = m * Window + Window
    BY <1>1, <1>2, <1>5
  <2> QED
    BY <2>1
<1>6. ASSUME n < m PROVE n * Window + Window <= m * Window
  <2>1. (n + 1) * Window <= m * Window /\ (n + 1) * Window = n * Window + Window
    BY <1>1, <1>2, <1>6
  <2> QED
    BY <2>1
<1>7. m < n \/ n < m
  BY <1>2, <1>3
<1> QED
  BY <1>1, <1>3, <1>4, <1>5, <1>6, <1>7

\* A bar is that of the eligible prints of its window, of which there is one.
LEMMA BarIsOfPrints ==
    ASSUME NEW rows, RowsOK(rows), NEW ctx, NEW start \in Starts(rows)
    PROVE  LET prints == Prints(rows, start)
               b == Bar(rows, start, ctx) IN
           /\ prints # {} /\ RowsOK(prints) /\ start \in Int
           /\ \E r \in prints : start = WindowStart(r.time)
           /\ b.time = start /\ b.knowledge = start + Window + Lag
           /\ b.instrument = First(prints).instrument
           /\ b.open = First(prints).price /\ b.close = Last(prints).price
           /\ b.high = Max(Prices(prints)) /\ b.low = Min(Prices(prints))
           /\ b.volume = Volume(prints) /\ b.vwap = Vwap(prints)
           /\ b.receive = Larger(ctx.receive, start + Window + Lag)
           /\ b.process = Larger(ctx.process, start + Window + Lag)
           /\ b.complete = (start + Window <= ctx.asOf)
<1>1. PICK r \in rows : r.eligible /\ start = WindowStart(r.time)
  BY DEF Starts
<1>2. r \in Prints(rows, start)
  BY <1>1 DEF Prints
<1>3. start \in Int
  BY <1>1, OwnWindow DEF RowsOK
<1> QED
  BY <1>1, <1>2, <1>3, PrintsAreOK DEF Bar, BarKnowledge, IsComplete, Prices

\* Each eligible row is a print of the bar of its window.
LEMMA RowHasBar ==
    ASSUME NEW rows, RowsOK(rows), NEW ctx, NEW r \in rows, r.eligible
    PROVE  /\ WindowStart(r.time) \in Starts(rows)
           /\ r \in Prints(rows, WindowStart(r.time))
           /\ Bar(rows, WindowStart(r.time), ctx) \in Bars(rows, ctx)
BY DEF Starts, Prints, Bars

LEMMA BarsKeepVolume ==
    ASSUME NEW rows, RowsOK(rows), NEW ctx
    PROVE  SumFunction([b \in Bars(rows, ctx) |-> b.volume])
             = Volume({r \in rows : r.eligible})
<1> DEFINE S == {r \in rows : r.eligible}
           key == [r \in S |-> WindowStart(r.time)]
           size == [r \in S |-> r.size]
           total == [start \in Starts(rows) |-> Volume(Prints(rows, start))]
           h == [start \in Starts(rows) |-> Bar(rows, start, ctx)]
           vol == [b \in Bars(rows, ctx) |-> b.volume]
<1>1. IsFiniteSet(S) /\ \A r \in S : size[r] \in Int
  BY FS_Subset DEF RowsOK
<1>2. Starts(rows) = {key[r] : r \in S}
  BY DEF Starts
<1>3. \A v \in {key[r] : r \in S} : total[v] = SumFunctionOnSet(size, OfKey(S, key, v))
  <2> SUFFICES ASSUME NEW v \in Starts(rows)
               PROVE  Volume(Prints(rows, v)) = SumFunctionOnSet(size, OfKey(S, key, v))
    BY <1>2
  <2>1. Prints(rows, v) = OfKey(S, key, v)
    BY DEF Prints, OfKey
  <2> DEFINE part == [r \in Prints(rows, v) |-> r.size]
  <2>2. IsFiniteSet(Prints(rows, v)) /\ \A r \in Prints(rows, v) : part[r] = size[r]
    BY <2>1, <1>1, FS_Subset DEF OfKey
  <2>3. Volume(Prints(rows, v)) = SumFunctionOnSet(part, Prints(rows, v))
    BY DEF Volume, SumFunction
  <2> HIDE DEF part, size, key, S
  <2>4. SumFunctionOnSet(part, Prints(rows, v)) = SumFunctionOnSet(size, Prints(rows, v))
    BY <2>2, SumIsLocal
  <2> QED
    BY <2>1, <2>3, <2>4
<1>4. Volume(S) = SumFunctionOnSet(size, S)
  BY DEF Volume, SumFunction
<1>5. Bars(rows, ctx) = {h[start] : start \in Starts(rows)}
  BY DEF Bars
<1>6. \A start \in Starts(rows) : /\ h[start].time = start
                                  /\ vol[h[start]] = total[start] /\ total[start] \in Int
  <2> SUFFICES ASSUME NEW start \in Starts(rows)
               PROVE  /\ h[start].time = start
                      /\ vol[h[start]] = total[start] /\ total[start] \in Int
    OBVIOUS
  <2>1. /\ Bar(rows, start, ctx).time = start
        /\ Bar(rows, start, ctx).volume = Volume(Prints(rows, start))
        /\ RowsOK(Prints(rows, start))
    BY BarIsOfPrints
  <2>2. Volume(Prints(rows, start)) \in Int
    BY <2>1, VolumeIsTyped
  <2> QED
    BY <1>5, <2>1, <2>2
<1>7. SumFunction(vol) = SumFunctionOnSet(vol, Bars(rows, ctx))
  BY DEF SumFunction
<1> HIDE DEF S, key, size, total, h, vol
<1>8. IsFiniteSet(Starts(rows))
  BY <1>1, <1>2, ImageIsFinite
<1>9. SumFunctionOnSet(total, Starts(rows)) = SumFunctionOnSet(size, S)
  <2>1. SumFunctionOnSet(total, {key[r] : r \in S}) = SumFunctionOnSet(size, S)
    BY <1>1, <1>3, SumByKey
  <2> QED
    BY <1>2, <2>1
<1>10. SumFunctionOnSet(vol, {h[start] : start \in Starts(rows)})
         = SumFunctionOnSet(total, Starts(rows))
  <2>1. \A x, y \in Starts(rows) : h[x] = h[y] => x = y
    BY <1>6
  <2> QED
    BY <1>6, <1>8, <2>1, SumOfImage
<1>11. SumFunction(vol) = Volume(S)
  BY <1>4, <1>5, <1>7, <1>9, <1>10
<1> QED
  BY <1>11 DEF vol, S

-----------------------------------------------------------------------------
(* What a snapshot is.                                                     *)

\* The tables are those of a build that found some of the places, each readable, and
\* that the writer accepted.
SnapshotOf(Q, ctx) ==
    /\ \A p \in Q : Readable(RecordAt(p))
    /\ sealed.trades = RowsOf(Q, ctx) /\ sealed.bars = Bars(sealed.trades, ctx)
    /\ sealed.asOf = ctx.asOf
    /\ Usable(sealed.trades) /\ TimesChecked(sealed.bars, ctx)

SealedInv ==
    /\ PlacesOK /\ Cardinality(Places) <= MaxRecords /\ Len(raw) <= MaxFiles
    /\ sealed # NoSnapshot =>
          \E ctx \in Contexts : \E Q \in SUBSET Places : SnapshotOf(Q, ctx)

\* The capture going on changes no row of a place.
LEMMA SnapshotStays ==
    ASSUME PlacesOK, (\E rec \in Records : Receive(rec)) \/ Rotate,
           NEW ctx \in Contexts, NEW Q \in SUBSET Places, SnapshotOf(Q, ctx)
    PROVE  Q \in SUBSET Places' /\ SnapshotOf(Q, ctx)'
<1>1. \A p \in Q : /\ p \in Places' /\ RecordAt(p)' = RecordAt(p)
                   /\ IngestIndex(p)' = IngestIndex(p)
  BY IndexStays
<1>2. sealed' = sealed
  BY DEF Receive, Rotate
<1>3. \A p \in Q : Row(p, ctx)' = Row(p, ctx)
  BY <1>1 DEF Row
<1>4. RowsOf(Q, ctx)' = RowsOf(Q, ctx)
  BY <1>3 DEF RowsOf
<1> QED
  BY <1>1, <1>2, <1>4 DEF SnapshotOf

LEMMA SealedStep == SealedInv /\ [Next]_vars => SealedInv'
<1> SUFFICES ASSUME SealedInv, [Next]_vars PROVE SealedInv'
  OBVIOUS
<1>1. PlacesOK'
  BY PlacesStep DEF SealedInv
<1>2. Cardinality(Places') <= MaxRecords /\ Len(raw') <= MaxFiles
  <2>1. ASSUME NEW rec \in Records, Receive(rec)
        PROVE  Cardinality(Places') <= MaxRecords /\ Len(raw') <= MaxFiles
    <3>1. Cardinality(Places') <= Cardinality(Places) + 1 /\ Cardinality(Places) \in Nat
      <4> DEFINE new == <<Len(raw), Len(raw[Len(raw)]) + 1>>
      <4>1. Places' = Places \cup {new}
        BY <2>1, ReceiveKeepsPlaces DEF SealedInv
      <4>2. IsFiniteSet(Places) /\ Cardinality(Places) \in Nat
        BY FS_CardinalityType DEF SealedInv, PlacesOK
      <4> HIDE DEF new
      <4>3. Cardinality(Places \cup {new}) = IF new \in Places THEN Cardinality(Places)
                                             ELSE Cardinality(Places) + 1
        BY <4>2, FS_AddElement
      <4> QED
        BY <4>1, <4>2, <4>3
    <3>2. Cardinality(Places) < MaxRecords /\ Len(raw') = Len(raw)
      BY <2>1 DEF Receive, SealedInv, PlacesOK, RawOK
    <3>3. Cardinality(Places') \in Nat
      BY <1>1, FS_CardinalityType DEF PlacesOK
    <3> QED
      BY <3>1, <3>2, <3>3, PartitionBounds DEF SealedInv
  <2>2. CASE Rotate
    <3>1. Places' = Places
      BY <2>2, RotateKeepsPlaces DEF SealedInv
    <3>2. Len(raw) \in Nat /\ Len(raw) < MaxFiles /\ Len(raw') = Len(raw) + 1
      BY <2>2 DEF Rotate, SealedInv, PlacesOK, RawOK
    <3> QED
      BY <3>1, <3>2, PartitionBounds DEF SealedInv
  <2>3. CASE UNCHANGED raw
    BY <2>3 DEF SealedInv, Places
  <2> QED
    BY <2>1, <2>2, <2>3 DEF Next, Build, vars
<1>3. CASE (\E rec \in Records : Receive(rec)) \/ Rotate
  <2>1. sealed' = sealed
    BY <1>3 DEF Receive, Rotate
  <2>2. ASSUME sealed # NoSnapshot
        PROVE  \E ctx \in Contexts : \E Q \in SUBSET Places' : SnapshotOf(Q, ctx)'
    <3>1. PICK ctx \in Contexts : \E Q \in SUBSET Places : SnapshotOf(Q, ctx)
      BY <2>2 DEF SealedInv
    <3>2. PICK Q \in SUBSET Places : SnapshotOf(Q, ctx)
      BY <3>1
    <3>3. Q \in SUBSET Places' /\ SnapshotOf(Q, ctx)'
      BY <1>3, <3>2, SnapshotStays DEF SealedInv
    <3> QED
      BY <3>3
  <2> QED
    BY <1>1, <1>2, <2>1, <2>2 DEF SealedInv
<1>4. ASSUME NEW ctx \in Contexts, Build(ctx) PROVE SealedInv'
  <2>1. /\ AllReadable /\ Usable(Normalized(ctx))
        /\ TimesChecked(Bars(Normalized(ctx), ctx), ctx)
        /\ sealed'.trades = Normalized(ctx) /\ sealed'.bars = Bars(Normalized(ctx), ctx)
        /\ sealed'.asOf = ctx.asOf /\ raw' = raw
    BY <1>4 DEF Build
  <2>2. Places' = Places /\ Normalized(ctx) = RowsOf(Places, ctx)
    BY <2>1 DEF Places, Normalized, RowsOf
  <2>3. RowsOf(Places, ctx)' = RowsOf(Places, ctx)
    BY <2>1 DEF RowsOf, Row, RecordAt, IngestIndex, Places
  <2>4. \A p \in Places : Readable(RecordAt(p)')
    BY <2>1 DEF AllReadable, RecordAt
  <2>5. SnapshotOf(Places, ctx)'
    BY <2>1, <2>2, <2>3, <2>4 DEF SnapshotOf
  <2> QED
    BY <1>1, <1>2, <2>2, <2>5 DEF SealedInv
<1>5. CASE UNCHANGED vars
  <2>1. Places' = Places
    BY <1>5 DEF Places, vars
  <2>2. \A ctx \in Contexts : \A Q \in SUBSET Places : SnapshotOf(Q, ctx)' <=> SnapshotOf(Q, ctx)
    BY <1>5 DEF SnapshotOf, RowsOf, Row, RecordAt, IngestIndex, Places, vars
  <2> QED
    BY <1>1, <1>2, <1>5, <2>1, <2>2 DEF SealedInv, vars
<1> QED
  BY <1>3, <1>4, <1>5 DEF Next

LEMMA SealedInvariant == Spec => []SealedInv
<1>1. Init => SealedInv
  <2> SUFFICES ASSUME Init PROVE SealedInv
    OBVIOUS
  <2>1. PlacesOK /\ sealed = NoSnapshot /\ raw = << <<>> >>
    BY ReplayInit DEF ReplayInv, Init
  <2>2. Places = {} /\ Cardinality(Places) = 0 /\ Len(raw) = 1
    BY <2>1, FS_EmptySet DEF Places
  <2> QED
    BY <2>1, <2>2, PartitionBounds DEF SealedInv
<1> QED
  BY <1>1, SealedStep, PTL DEF Spec

\* What a snapshot has for one of its bars.
LEMMA SealedBar ==
    ASSUME PlacesOK, NEW ctx \in Contexts, NEW Q \in SUBSET Places, SnapshotOf(Q, ctx),
           NEW b \in sealed.bars
    PROVE  /\ RowsOK(sealed.trades)
           /\ b.time \in Starts(sealed.trades) /\ b = Bar(sealed.trades, b.time, ctx)
           /\ Volume(Prints(sealed.trades, b.time)) > 0
<1>1. PICK start \in Starts(sealed.trades) : b = Bar(sealed.trades, start, ctx)
  BY DEF SnapshotOf, Bars
<1>2. RowsOK(sealed.trades)
  BY RowsAreOK DEF SnapshotOf
<1>3. b.time = start
  BY <1>1, <1>2, BarIsOfPrints
<1> QED
  BY <1>1, <1>2, <1>3 DEF SnapshotOf, Usable

\* Every eligible print is in one bar, bars do not overlap, no volume is lost or counted
\* twice, and the average price of a bar lies between its prices (build_bars).
THEOREM BarsArePartition == Spec => []BarsPartitionPrints
<1>1. SealedInv => BarsPartitionPrints
  <2> SUFFICES ASSUME SealedInv, sealed # NoSnapshot, NEW ctx \in Contexts,
                      NEW Q \in SUBSET Places, SnapshotOf(Q, ctx)
               PROVE  BarsPartitionPrints
    BY DEF SealedInv, BarsPartitionPrints
  <2> DEFINE rows == sealed.trades
  <2>1. PlacesOK /\ RowsOK(rows) /\ sealed.bars = Bars(rows, ctx)
    BY RowsAreOK DEF SealedInv, SnapshotOf
  <2>2. ASSUME NEW r \in rows, r.eligible
        PROVE  \E b \in sealed.bars : /\ b.time <= r.time /\ r.time < b.time + Window
                                      /\ b.low <= r.price /\ r.price <= b.high
    <3> DEFINE start == WindowStart(r.time)
               b == Bar(rows, start, ctx)
    <3>1. start \in Starts(rows) /\ r \in Prints(rows, start) /\ b \in sealed.bars
      BY <2>1, <2>2, RowHasBar
    <3>2. r.time \in Int
      BY <2>1 DEF RowsOK
    <3>3. start <= r.time /\ r.time < start + Window
      BY <3>2, OwnWindow
    <3>4. /\ b.time = start /\ RowsOK(Prints(rows, start)) /\ Prints(rows, start) # {}
          /\ b.high = Max(Prices(Prints(rows, start)))
          /\ b.low = Min(Prices(Prints(rows, start)))
      BY <2>1, <3>1, BarIsOfPrints
    <3> HIDE DEF b, start
    <3>5. b.low <= r.price /\ r.price <= b.high
      BY <3>1, <3>4, PriceRange
    <3> QED
      BY <3>1, <3>3, <3>4, <3>5
  <2>3. ASSUME NEW b \in sealed.bars, NEW c \in sealed.bars
        PROVE  b = c \/ b.time + Window <= c.time \/ c.time + Window <= b.time
    <3>1. /\ b.time \in Starts(rows) /\ b = Bar(rows, b.time, ctx)
          /\ c.time \in Starts(rows) /\ c = Bar(rows, c.time, ctx)
      BY <2>1, SealedBar
    <3>2. PICK r \in rows : b.time = WindowStart(r.time)
      BY <3>1 DEF Starts
    <3>3. PICK q \in rows : c.time = WindowStart(q.time)
      BY <3>1 DEF Starts
    <3>4. r.time \in Int /\ q.time \in Int
      BY <2>1 DEF RowsOK
    <3> QED
      BY <3>1, <3>2, <3>3, <3>4, WindowsApart
  <2>4. SumFunction([b \in sealed.bars |-> b.volume]) = Volume({r \in rows : r.eligible})
    BY <2>1, BarsKeepVolume
  <2>5. ASSUME NEW b \in sealed.bars PROVE b.low <= b.vwap /\ b.vwap <= b.high
    <3> DEFINE prints == Prints(rows, b.time)
    <3>1. b.time \in Starts(rows) /\ b = Bar(rows, b.time, ctx) /\ Volume(prints) > 0
      BY <2>1, SealedBar
    <3>2. /\ RowsOK(prints) /\ prints # {} /\ b.vwap = Vwap(prints)
          /\ b.high = Max(Prices(prints)) /\ b.low = Min(Prices(prints))
      BY <2>1, <3>1, BarIsOfPrints
    <3> HIDE DEF prints
    <3> QED
      BY <3>1, <3>2, VwapIsBetween
  <2> QED
    BY <2>2, <2>3, <2>4, <2>5 DEF BarsPartitionPrints
<1> QED
  BY <1>1, SealedInvariant, PTL

\* The tables of every snapshot keep their types: an index below the number of records,
\* an instrument of the history, prices of records, and a volume in every bar.
THEOREM TypeCorrect == Spec => []TypeOK
<1>1. SealedInv => TypeOK
  <2> SUFFICES ASSUME SealedInv PROVE TypeOK
    OBVIOUS
  <2>1. raw \in Seq(Seq(Records)) /\ Len(raw) \in 1..MaxFiles
    BY PartitionBounds DEF SealedInv, PlacesOK, RawOK
  <2>2. ASSUME sealed # NoSnapshot, NEW ctx \in Contexts, NEW Q \in SUBSET Places,
               SnapshotOf(Q, ctx)
        PROVE  /\ sealed.asOf \in Nat
               /\ \A r \in sealed.trades :
                     /\ r.index \in 0..(MaxRecords - 1) /\ r.seq \in Nat \cup {-1}
                     /\ r.instrument \in {a.instrument : a \in History} /\ r.price \in Price
               /\ \A b \in sealed.bars :
                     /\ b.knowledge \in Nat /\ b.complete \in BOOLEAN /\ b.volume \in Nat \ {0}
                     /\ {b.open, b.close, b.high, b.low} \subseteq Price
    <3>1. PlacesOK /\ RowsOK(sealed.trades) /\ ctx \in Context
      BY <2>2, RowsAreOK, ContextsAreTyped DEF SealedInv, SnapshotOf
    <3>2. sealed.asOf \in Nat
      BY <2>2, <3>1 DEF SnapshotOf, Context
    <3>3. ASSUME NEW r \in sealed.trades
          PROVE  /\ r.index \in 0..(MaxRecords - 1) /\ r.seq \in Nat \cup {-1}
                 /\ r.instrument \in {a.instrument : a \in History} /\ r.price \in Price
      <4>1. PICK p \in Q : r = Row(p, ctx)
        BY <2>2 DEF SnapshotOf, RowsOf
      <4>2. p \in Places /\ Readable(RecordAt(p))
        BY <2>2 DEF SnapshotOf
      <4>3. r.index = IngestIndex(p) /\ r.seq \in Nat \cup {-1} /\ r.price \in Price
        BY <3>1, <4>1, <4>2, RowFields
      <4>4. IngestIndex(p) \in Nat /\ IngestIndex(p) < Cardinality(Places)
        <5>1. p \notin Earlier(p) /\ Earlier(p) \subseteq Places
          BY <3>1, <4>2, PlaceIsPair DEF Earlier, PlacesOK
        <5>2. IsFiniteSet(Places) /\ IsFiniteSet(Earlier(p))
          BY <3>1, <5>1, FS_Subset DEF PlacesOK
        <5>3. /\ Cardinality(Earlier(p)) <= Cardinality(Places)
              /\ Cardinality(Earlier(p)) # Cardinality(Places)
              /\ Cardinality(Earlier(p)) \in Nat /\ Cardinality(Places) \in Nat
          BY <4>2, <5>1, <5>2, FS_Subset, FS_CardinalityType
        <5> QED
          BY <5>3 DEF IngestIndex, Earlier
      <4>5. Cardinality(Places) <= MaxRecords /\ Cardinality(Places) \in Nat
        BY <3>1, FS_CardinalityType DEF SealedInv, PlacesOK
      <4>6. r.instrument \in {a.instrument : a \in History}
        BY <4>1, <4>2, ResolvedIsAHolder DEF Row, Readable
      <4>7. r.index \in 0..(MaxRecords - 1)
        BY <4>3, <4>4, <4>5, PartitionBounds
      <4> QED
        BY <4>3, <4>6, <4>7
    <3>4. ASSUME NEW b \in sealed.bars
          PROVE  /\ b.knowledge \in Nat /\ b.complete \in BOOLEAN /\ b.volume \in Nat \ {0}
                 /\ {b.open, b.close, b.high, b.low} \subseteq Price
      <4> DEFINE prints == Prints(sealed.trades, b.time)
      <4>1. /\ b.time \in Starts(sealed.trades) /\ b = Bar(sealed.trades, b.time, ctx)
            /\ Volume(prints) > 0
        BY <2>2, <3>1, SealedBar
      <4>2. /\ prints # {} /\ RowsOK(prints) /\ b.time \in Int
            /\ b.knowledge = b.time + Window + Lag
            /\ b.open = First(prints).price /\ b.close = Last(prints).price
            /\ b.high = Max(Prices(prints)) /\ b.low = Min(Prices(prints))
            /\ b.volume = Volume(prints) /\ b.complete = (b.time + Window <= ctx.asOf)
        BY <3>1, <4>1, BarIsOfPrints
      <4>3. b.knowledge \in Nat
        <5>1. IsPlausible(b.knowledge)
          BY <2>2 DEF SnapshotOf, TimesChecked
        <5>2. b.knowledge \in Int
          BY <4>2, WindowsAreTyped
        <5> QED
          BY <5>1, <5>2, TimeIsTyped DEF IsPlausible
      <4>4. prints \subseteq sealed.trades
        BY <3>1, PrintsAreOK
      <4> HIDE DEF prints
      <4>5. b.volume \in Nat \ {0}
        BY <4>1, <4>2, VolumeIsTyped
      <4>6. /\ First(prints) \in prints /\ Last(prints) \in prints
            /\ Max(Prices(prints)) \in Prices(prints) /\ Min(Prices(prints)) \in Prices(prints)
        BY <4>2, EndsOfPrints, PriceRange
      <4>7. \A r \in prints : r.price \in Price
        BY <3>3, <4>4
      <4>8. {b.open, b.close, b.high, b.low} \subseteq Price
        BY <4>2, <4>6, <4>7 DEF Prices
      <4> QED
        BY <4>2, <4>3, <4>5, <4>8
    <3> QED
      BY <3>2, <3>3, <3>4
  <2> QED
    BY <2>1, <2>2 DEF SealedInv, TypeOK
<1> QED
  BY <1>1, SealedInvariant, PTL

-----------------------------------------------------------------------------
(* Time.                                                                   *)

\* The powers of ten are what their definition says.  Recursion on a finite domain: the
\* function is built up one argument at a time.
Ten(g, n) == IF n = 0 THEN 1 ELSE 10 * g[n - 1]

LEMMA TenToExists == \E g : g = [n \in 0..Digits |-> Ten(g, n)]
<1> DEFINE UpTo(g, m) == /\ g = [n \in 0..Digits |-> g[n]]
                         /\ \A n \in 0..Digits : n <= m => g[n] = Ten(g, n)
           Good == {m \in Nat : \E g : UpTo(g, m)}
<1>1. 0 \in Good
  <2> DEFINE g == [n \in 0..Digits |-> 1]
  <2>1. UpTo(g, 0)
    BY TimeIsTyped DEF Ten
  <2> QED
    BY <2>1
<1>2. ASSUME NEW m \in Good PROVE m + 1 \in Good
  <2>1. PICK g : UpTo(g, m)
    BY <1>2
  <2>2. m \in Nat
    BY <1>2
  <2> DEFINE h == [n \in 0..Digits |-> Ten(g, n)]
  <2>3. \A n \in 0..Digits : n <= m => h[n] = g[n]
    BY <2>1
  <2>4. \A n \in 0..Digits : h[n] = Ten(g, n)
    OBVIOUS
  <2>5. h = [n \in 0..Digits |-> h[n]]
    OBVIOUS
  <2> HIDE DEF h
  <2>6. ASSUME NEW n \in 0..Digits, n <= m + 1 PROVE h[n] = Ten(h, n)
    <3>1. CASE n = 0
      BY <2>4, <3>1 DEF Ten
    <3>2. CASE n # 0
      <4>1. n - 1 \in 0..Digits /\ n - 1 <= m
        BY <2>2, <2>6, <3>2, TimeIsTyped
      <4>2. h[n - 1] = g[n - 1]
        BY <2>3, <4>1
      <4> QED
        BY <2>4, <4>2 DEF Ten
    <3> QED
      BY <3>1, <3>2
  <2>7. UpTo(h, m + 1)
    BY <2>5, <2>6
  <2> HIDE DEF UpTo
  <2>8. \E e : UpTo(e, m + 1)
    BY <2>7
  <2> QED
    BY <2>2, <2>8
<1>3. Good = Nat
  <2> HIDE DEF Good
  <2>1. Good \in SUBSET Nat
    BY DEF Good
  <2> QED
    BY <1>1, <1>2, <2>1, InductionOnNumbers
<1>4. PICK g : UpTo(g, Digits)
  BY <1>3, TimeIsTyped
<1>5. \A n \in 0..Digits : g[n] = Ten(g, n)
  BY <1>4, TimeIsTyped
<1>6. g = [n \in 0..Digits |-> Ten(g, n)]
  BY <1>4, <1>5
<1> QED
  BY <1>6

LEMMA TenToUnfolds ==
    ASSUME NEW n \in 0..Digits
    PROVE  TenTo[n] = IF n = 0 THEN 1 ELSE 10 * TenTo[n - 1]
<1> DEFINE Is(g) == g = [k \in 0..Digits |-> Ten(g, k)]
<1>1. TenTo = CHOOSE g : Is(g)
  BY DEF TenTo, Ten
<1>2. \E g : Is(g)
  BY TenToExists
<1>3. Is(TenTo)
  <2> HIDE DEF Is
  <2> QED
    BY <1>1, <1>2
<1> QED
  BY <1>3 DEF Ten

\* A power of ten is a positive number, and the product of two that make up its exponent.
LEMMA TenToIsPower ==
    ASSUME NEW w \in 0..Digits
    PROVE  /\ TenTo[w] \in Nat \ {0} /\ TenTo[Digits - w] \in Nat \ {0}
           /\ PerSecond = TenTo[w] * TenTo[Digits - w] /\ PerSecond \in Nat \ {0}
<1> DEFINE Typed == {n \in Nat : n <= Digits => TenTo[n] \in Nat \ {0}}
           Good == {n \in Nat : n <= Digits => PerSecond = TenTo[n] * TenTo[Digits - n]}
<1>1. TenTo[0] = 1
  BY TenToUnfolds, TimeIsTyped
<1>2. Typed = Nat
  <2>1. 0 \in Typed
    BY <1>1
  <2>2. ASSUME NEW n \in Typed PROVE n + 1 \in Typed
    <3> SUFFICES ASSUME n + 1 <= Digits PROVE TenTo[n + 1] \in Nat \ {0}
      OBVIOUS
    <3>1. n \in Nat /\ n + 1 \in 0..Digits /\ n + 1 # 0 /\ TenTo[n] \in Nat \ {0}
      BY TimeIsTyped
    <3>2. TenTo[n + 1] = 10 * TenTo[n]
      BY <3>1, TenToUnfolds
    <3> QED
      BY <3>1, <3>2
  <2> HIDE DEF Typed
  <2>3. Typed \in SUBSET Nat
    BY DEF Typed
  <2> QED
    BY <2>1, <2>2, <2>3, InductionOnNumbers
<1>3. \A n \in 0..Digits : TenTo[n] \in Nat \ {0}
  BY <1>2, TimeIsTyped
<1>4. Good = Nat
  <2>1. 0 \in Good
    <3>1. TenTo[Digits] \in Nat
      BY <1>3, TimeIsTyped
    <3> QED
      BY <1>1, <3>1, TimeIsTyped DEF PerSecond
  <2>2. ASSUME NEW n \in Good PROVE n + 1 \in Good
    <3> SUFFICES ASSUME n + 1 <= Digits PROVE PerSecond = TenTo[n + 1] * TenTo[Digits - (n + 1)]
      OBVIOUS
    <3>1. /\ n \in Nat /\ n \in 0..Digits /\ n + 1 \in 0..Digits /\ n + 1 # 0
          /\ Digits - n \in 0..Digits /\ Digits - n # 0
          /\ (Digits - n) - 1 = Digits - (n + 1) /\ Digits - (n + 1) \in 0..Digits
      BY TimeIsTyped
    <3> DEFINE a == TenTo[n]
               b == TenTo[Digits - (n + 1)]
    <3>2. TenTo[n + 1] = 10 * a /\ TenTo[Digits - n] = 10 * b
      BY <3>1, TenToUnfolds
    <3>3. a \in Nat /\ b \in Nat
      BY <1>3, <3>1
    <3>4. PerSecond = a * TenTo[Digits - n]
      BY <3>1
    <3> HIDE DEF a, b
    <3>5. a * (10 * b) = (10 * a) * b
      BY <3>3
    <3>6. PerSecond = TenTo[n + 1] * b
      BY <3>2, <3>4, <3>5
    <3> QED
      BY <3>6 DEF b
  <2> HIDE DEF Good
  <2>3. Good \in SUBSET Nat
    BY DEF Good
  <2> QED
    BY <2>1, <2>2, <2>3, InductionOnNumbers
<1>5. Digits - w \in 0..Digits /\ Digits \in 0..Digits /\ w \in Nat /\ w <= Digits
  BY TimeIsTyped
<1> QED
  BY <1>3, <1>4, <1>5 DEF PerSecond

\* A text is parsed to the instant that it means, whatever its zone and however many
\* digits of a fraction it gives (parse_rfc3339_ns).
THEOREM ParsingIsLossless ==
    ASSUME NEW stamp, NEW instant \in Int, Denotes(stamp, instant)
    PROVE  ParseRfc3339(stamp) = instant
<1> DEFINE P == PerSecond
           h == stamp.offset.hours
           m == stamp.offset.minutes
           s == stamp.seconds
           v == stamp.fraction.value
           w == stamp.fraction.width
           minus == stamp.offset.sign = "-"
           ahead == IF minus THEN -60 * (60 * h + m) ELSE 60 * (60 * h + m)
           rest == instant + ahead * P - s * P
<1>1. /\ h \in Nat /\ m \in Nat /\ s \in Int /\ v \in Nat /\ w \in 0..Digits
      /\ v * P = rest * TenTo[w]
  BY DEF Denotes
<1>2. /\ TenTo[w] \in Nat \ {0} /\ TenTo[Digits - w] \in Nat \ {0}
      /\ P = TenTo[w] * TenTo[Digits - w] /\ P \in Nat \ {0}
  BY <1>1, TenToIsPower
<1>3. Padded(stamp.fraction) = v * TenTo[Digits - w]
  BY DEF Padded
<1>4. Offset(stamp.offset) = IF minus THEN -(h * (60 * (60 * P)) + m * (60 * P))
                                      ELSE h * (60 * (60 * P)) + m * (60 * P)
  BY DEF Offset, PerHour, PerMinute
<1>5. ParseRfc3339(stamp) = s * P + Padded(stamp.fraction) - Offset(stamp.offset)
  BY DEF ParseRfc3339
<1> HIDE DEF P, h, m, s, v, w, minus
<1>6. ahead \in Int /\ ahead * P \in Int /\ s * P \in Int /\ rest \in Int
  BY <1>1, <1>2
<1>7. Offset(stamp.offset) = ahead * P
  <2>1. h * (60 * (60 * P)) + m * (60 * P) = (60 * (60 * h + m)) * P
    BY <1>1, <1>2
  <2>2. -(h * (60 * (60 * P)) + m * (60 * P)) = (-60 * (60 * h + m)) * P
    BY <1>1, <1>2
  <2> QED
    BY <1>4, <2>1, <2>2
<1> HIDE DEF ahead
<1>8. v * TenTo[Digits - w] = rest
  <2> DEFINE a == TenTo[w]
             b == TenTo[Digits - w]
             r == rest
  <2>1. a \in Nat \ {0} /\ b \in Nat \ {0} /\ v * (a * b) = r * a /\ r \in Int /\ v \in Nat
    BY <1>1, <1>2, <1>6
  <2> HIDE DEF a, b, r
  <2>2. v * (a * b) = (v * b) * a /\ v * b \in Int
    BY <2>1
  <2>3. (v * b) * a = r * a
    BY <2>1, <2>2
  <2>4. v * b = r
    BY <2>1, <2>2, <2>3
  <2> QED
    BY <2>4 DEF b, r
<1> QED
  BY <1>3, <1>5, <1>6, <1>7, <1>8

\* Every print is stored at the instant that the venue meant (parse_rfc3339_ns).
THEOREM InstantsAreKept == Spec => []PrintsAtTheirInstants
<1>1. SealedInv => PrintsAtTheirInstants
  <2> SUFFICES ASSUME SealedInv, NEW ctx \in Contexts, NEW Q \in SUBSET Places,
                      SnapshotOf(Q, ctx), NEW r \in sealed.trades
               PROVE  \E p \in Places : IngestIndex(p) = r.index /\ RecordAt(p).instant = r.time
    BY DEF SealedInv, PrintsAtTheirInstants
  <2>1. PICK p \in Q : r = Row(p, ctx)
    BY DEF SnapshotOf, RowsOf
  <2>2. p \in Places /\ Readable(RecordAt(p))
    BY DEF SnapshotOf
  <2>3. RecordAt(p) \in Records
    BY <2>2, PlaceOfRecord DEF SealedInv, PlacesOK
  <2>4. RecordAt(p).instant \in Int /\ Denotes(RecordAt(p).stamp, RecordAt(p).instant)
    BY <2>2, <2>3, RecordsAreTyped, StampsDenote DEF Readable
  <2>5. ParseRfc3339(RecordAt(p).stamp) = RecordAt(p).instant
    BY <2>4, ParsingIsLossless
  <2> QED
    BY <2>1, <2>2, <2>5 DEF Row, EventTime
<1> QED
  BY <1>1, SealedInvariant, PTL

-----------------------------------------------------------------------------
(* Hand-overs.                                                             *)

\* With a ticker history whose assignments do not overlap, every print is stored
\* under the instrument that held its record's ticker then, at a hand-over the new
\* one, whatever other tickers the partition has.
THEOREM InstrumentsAreOfTheirTime ==
    ASSUME HistoryIsWellFormed
    PROVE  Spec => []InstrumentOfItsTime
<1>1. SealedInv => InstrumentOfItsTime
  <2> SUFFICES ASSUME SealedInv, NEW ctx \in Contexts, NEW Q \in SUBSET Places,
                      SnapshotOf(Q, ctx), NEW r \in sealed.trades
               PROVE  \E p \in Places, a \in History :
                         /\ IngestIndex(p) = r.index
                         /\ a.ticker = RecordAt(p).symbol /\ a.instrument = r.instrument
                         /\ a.from <= r.time /\ (a.until = Never \/ r.time < a.until)
                         /\ ~ \E b \in History : /\ b.ticker = a.ticker
                                                /\ a.from < b.from /\ b.from <= r.time
    BY DEF SealedInv, InstrumentOfItsTime
  <2>1. PICK p \in Q : r = Row(p, ctx)
    BY DEF SnapshotOf, RowsOf
  <2>2. p \in Places /\ Readable(RecordAt(p)) /\ RecordAt(p) \in Records
    BY PlaceOfRecord DEF SnapshotOf, SealedInv, PlacesOK
  <2>3. /\ r.time = EventTime(RecordAt(p)) /\ r.instrument = Resolve(RecordAt(p))
        /\ r.index = IngestIndex(p)
    BY <2>1 DEF Row
  <2>4. r.time \in Int
    BY <2>2, <2>3, RecordsAreTyped DEF Readable, EventTime
  <2>5. PICK a \in History : /\ a.ticker = RecordAt(p).symbol
                             /\ a.instrument = r.instrument /\ Covers(a, r.time)
    BY <2>2, <2>3, ResolvedIsAHolder DEF Readable
  <2>6. ASSUME NEW b \in History, b.ticker = a.ticker, a.from < b.from
        PROVE  ~ (b.from <= r.time)
    BY <2>4, <2>5, <2>6, CoveringIsLast
  <2> QED
    BY <2>2, <2>3, <2>5, <2>6 DEF Covers
<1> QED
  BY <1>1, SealedInvariant, PTL

-----------------------------------------------------------------------------
(* What the writer accepts.                                                *)

LEMMA LargerIs ==
    ASSUME NEW m \in Int, NEW n \in Int
    PROVE  /\ Larger(m, n) \in Int /\ Larger(m, n) >= m /\ Larger(m, n) >= n
           /\ \A k \in Int : k >= m => Larger(k, n) >= Larger(m, n)
BY DEF Larger

LEMMA PricesAreStorable == \A price \in Price : Storable(price)
BY DEF Price, IsDollars, Dollars

\* Under the backfill policy the writer takes the rows and the bars of any partition whose
\* records can be read, were received after they happened and lie in the plausible band, a
\* window and the lag short of its end: whatever their order and the cuts between the files.
THEOREM BackfillIsAccepted == Spec => []BackfillIsWritable
<1>1. SealedInv => BackfillIsWritable
  <2> SUFFICES ASSUME SealedInv, AllReadable, NEW ctx \in Contexts,
                      ctx.policy = "backfill", ctx.process >= ctx.receive,
                      \A r \in Normalized(ctx) :
                          /\ r.time <= ctx.receive
                          /\ IsPlausible(r.time) /\ IsPlausible(r.time + Window + Lag),
                      Usable(Normalized(ctx))
               PROVE  LET rows == Normalized(ctx)
                          bars == Bars(rows, ctx)
                      IN  /\ Cardinality(rows) = Cardinality(Places)
                          /\ TotallyOrdered(rows) /\ TimesChecked(rows, ctx)
                          /\ MoneyChecked(rows, "price")
                          /\ TimesChecked(bars, ctx)
                          /\ \A column \in PriceColumns : MoneyChecked(bars, column)
    BY DEF BackfillIsWritable
  <2> DEFINE rows == Normalized(ctx)
             bars == Bars(rows, ctx)
  <2>1. PlacesOK /\ rows = RowsOf(Places, ctx)
    BY DEF SealedInv, Normalized, RowsOf
  <2>2. /\ RowsOK(rows) /\ Cardinality(rows) = Cardinality(Places)
        /\ \A p \in Places : Readable(RecordAt(p))
    BY <2>1, RowsAreOK DEF AllReadable
  <2>3. ctx.receive \in Nat /\ ctx.process \in Nat /\ ctx.policy # "live_capture"
    BY ContextsAreTyped DEF Context
  <2>4. Window \in Nat \ {0} /\ Lag \in Nat /\ MinPlausible \in Nat /\ MaxPlausible \in Nat
    BY WindowsAreTyped, TimeIsTyped
  <2>5. TotallyOrdered(rows)
    BY <2>1, KeysDiffer
  <2>6. ASSUME NEW r \in rows
        PROVE  /\ IsPlausible(r.knowledge) /\ r.knowledge >= r.time
               /\ r.receive >= r.time /\ r.process >= r.receive /\ Storable(r.price)
    <3>1. r.time \in Int /\ r.knowledge = r.time + Lag
      BY <2>1, <2>3, RowIsTyped DEF PlacesOK, KnowledgeTime
    <3>2. r.receive = ctx.receive /\ r.process = ctx.process
      BY DEF Normalized, Row
    <3>3. r.price \in Price
      BY <2>1, <2>2, RowFields DEF RowsOf
    <3>4. /\ r.time <= ctx.receive /\ MinPlausible <= r.time
          /\ r.time + Window + Lag <= MaxPlausible
      BY DEF IsPlausible
    <3> QED
      BY <2>3, <2>4, <3>1, <3>2, <3>3, <3>4, PricesAreStorable DEF IsPlausible
  <2>7. TimesChecked(rows, ctx) /\ MoneyChecked(rows, "price")
    BY <2>3, <2>6 DEF TimesChecked, MoneyChecked
  <2>8. ASSUME NEW b \in bars
        PROVE  /\ IsPlausible(b.knowledge) /\ b.knowledge >= b.time
               /\ b.receive >= b.time /\ b.process >= b.receive
               /\ \A column \in PriceColumns : Storable(b[column])
    <3>1. PICK start \in Starts(rows) : b = Bar(rows, start, ctx)
      BY DEF Bars
    <3> DEFINE prints == Prints(rows, start)
               known == start + Window + Lag
    <3>2. /\ prints # {} /\ RowsOK(prints) /\ start \in Int
          /\ \E r \in prints : start = WindowStart(r.time)
          /\ b.time = start /\ b.knowledge = known /\ b.vwap = Vwap(prints)
          /\ b.open = First(prints).price /\ b.close = Last(prints).price
          /\ b.high = Max(Prices(prints)) /\ b.low = Min(Prices(prints))
          /\ b.receive = Larger(ctx.receive, known) /\ b.process = Larger(ctx.process, known)
      BY <2>2, <3>1, BarIsOfPrints
    <3>3. prints \subseteq rows /\ Volume(prints) > 0
      BY <2>2, <3>1, PrintsAreOK DEF Usable
    <3> HIDE DEF prints
    <3>4. PICK r \in prints : start = WindowStart(r.time)
      BY <3>2
    <3>5. r \in rows /\ r.time \in Int
      BY <3>2, <3>3, <3>4 DEF RowsOK
    <3>6. start <= r.time /\ r.time < start + Window
      BY <3>4, <3>5, OwnWindow
    <3>7. /\ MinPlausible <= r.time /\ r.time + Window + Lag <= MaxPlausible
      BY <3>5 DEF IsPlausible
    <3>8. known \in Int /\ MinPlausible <= known /\ known <= MaxPlausible /\ known >= start
      BY <2>4, <3>2, <3>5, <3>6, <3>7
    <3> HIDE DEF known
    <3>9. b.receive >= known /\ b.process >= b.receive /\ b.receive \in Int
      <4>1. ctx.receive \in Int /\ ctx.process \in Int /\ ctx.process >= ctx.receive
        BY <2>3
      <4>2. /\ Larger(ctx.receive, known) \in Int /\ Larger(ctx.receive, known) >= known
            /\ Larger(ctx.process, known) >= Larger(ctx.receive, known)
        BY <3>8, <4>1, LargerIs
      <4> QED
        BY <3>2, <4>2
    <3>10. \A column \in PriceColumns : Storable(b[column])
      <4>1. /\ Min(Prices(prints)) \in Prices(prints) /\ Min(Prices(prints)) \in Int
            /\ Max(Prices(prints)) \in Prices(prints) /\ Max(Prices(prints)) \in Int
            /\ Vwap(prints) \in Int
            /\ Min(Prices(prints)) <= Vwap(prints) /\ Vwap(prints) <= Max(Prices(prints))
        BY <3>2, <3>3, PriceRange, VwapIsBetween
      <4>2. Storable(Min(Prices(prints))) /\ Storable(Max(Prices(prints)))
        BY <2>6, <3>3, <4>1 DEF Prices
      <4>3. Storable(Vwap(prints))
        BY <4>1, <4>2, MoneyIsTyped DEF Storable, StorableMin
      <4>4. Storable(First(prints).price) /\ Storable(Last(prints).price)
        BY <2>6, <3>2, <3>3, EndsOfPrints
      <4> QED
        BY <3>2, <4>2, <4>3, <4>4 DEF PriceColumns
    <3> QED
      BY <3>2, <3>8, <3>9, <3>10 DEF IsPlausible
  <2>9. TimesChecked(bars, ctx) /\ \A column \in PriceColumns : MoneyChecked(bars, column)
    BY <2>3, <2>8 DEF TimesChecked, MoneyChecked
  <2> QED
    BY <2>2, <2>5, <2>7, <2>9
<1> QED
  BY <1>1, SealedInvariant, PTL

-----------------------------------------------------------------------------
(* Complete bars.                                                          *)

\* The rows of one place in two builds have one key, and one content.
LEMMA RowOfAnyBuild ==
    ASSUME NEW p, NEW ctx, NEW other
    PROVE  LET r == Row(p, ctx)
               q == Row(p, other) IN
           /\ r.time = q.time /\ r.seq = q.seq /\ r.index = q.index
           /\ r.instrument = q.instrument /\ r.price = q.price /\ r.size = q.size
           /\ r.eligible = q.eligible
           /\ r.time = EventTime(RecordAt(p)) /\ r.eligible = RecordAt(p).eligible
           /\ r.price = Dollars(RecordAt(p).price) /\ r.size = RecordAt(p).size
BY DEF Row

SizesOf(W) == [p \in W |-> RecordAt(p).size]
PaidFor(W) == [p \in W |-> Notional(Dollars(RecordAt(p).price), RecordAt(p).size)]

\* Volume, turnover and prices of the rows of some places are those of their records.
LEMMA SumsOfPlaces ==
    ASSUME PlacesOK, NEW W \in SUBSET Places, \A p \in W : Readable(RecordAt(p)),
           NEW ctx \in Contexts
    PROVE  /\ Volume(RowsOf(W, ctx)) = SumFunctionOnSet(SizesOf(W), W)
           /\ Traded(RowsOf(W, ctx)) = SumFunctionOnSet(PaidFor(W), W)
           /\ Prices(RowsOf(W, ctx)) = {Dollars(RecordAt(p).price) : p \in W}
<1> DEFINE rows == RowsOf(W, ctx)
           h == [p \in W |-> Row(p, ctx)]
           size == [r \in rows |-> r.size]
           paid == [r \in rows |-> Notional(r.price, r.size)]
           f == SizesOf(W)
           g == PaidFor(W)
<1>1. IsFiniteSet(W) /\ rows = {h[p] : p \in W}
  BY RowsAreOK DEF RowsOf
<1>2. \A p, q \in W : h[p] = h[q] => p = q
  <2> SUFFICES ASSUME NEW p \in W, NEW q \in W, Row(p, ctx) = Row(q, ctx) PROVE p = q
    OBVIOUS
  <2>1. Row(p, ctx).index = IngestIndex(p) /\ Row(q, ctx).index = IngestIndex(q)
    BY RowFields
  <2> QED
    BY <2>1, IndexIsOfOne
<1>3. ASSUME NEW p \in W
      PROVE  /\ size[h[p]] = f[p] /\ f[p] \in Int /\ paid[h[p]] = g[p] /\ g[p] \in Int
  <2>1. /\ Row(p, ctx).size = RecordAt(p).size
        /\ Row(p, ctx).price = Dollars(RecordAt(p).price)
        /\ Row(p, ctx).size \in Int /\ Row(p, ctx).price \in Int /\ Row(p, ctx) \in rows
    BY RowFields, RowOfAnyBuild DEF RowsOf
  <2>2. Row(p, ctx).price * Row(p, ctx).size \in Int
    BY <2>1
  <2> QED
    BY <2>1, <2>2 DEF SizesOf, PaidFor, Notional
<1>4. Volume(rows) = SumFunctionOnSet(size, rows) /\ Traded(rows) = SumFunctionOnSet(paid, rows)
  BY DEF Volume, Traded, SumFunction
<1>5. Prices(rows) = {Dollars(RecordAt(p).price) : p \in W}
  BY RowOfAnyBuild DEF Prices, RowsOf
<1> HIDE DEF rows, h, size, paid, f, g
<1>6. SumFunctionOnSet(size, {h[p] : p \in W}) = SumFunctionOnSet(f, W)
  BY <1>1, <1>2, <1>3, SumOfImage
<1>7. SumFunctionOnSet(paid, {h[p] : p \in W}) = SumFunctionOnSet(g, W)
  BY <1>1, <1>2, <1>3, SumOfImage
<1> QED
  BY <1>1, <1>4, <1>5, <1>6, <1>7 DEF rows, f, g

\* The first and the last print of some places is of the same place in every build.
LEMMA EndsOfPlaces ==
    ASSUME PlacesOK, NEW W \in SUBSET Places, W # {}, \A p \in W : Readable(RecordAt(p)),
           NEW ctx \in Contexts, NEW other \in Contexts
    PROVE  /\ \E p \in W : First(RowsOf(W, ctx)) = Row(p, ctx)
                           /\ First(RowsOf(W, other)) = Row(p, other)
           /\ \E p \in W : Last(RowsOf(W, ctx)) = Row(p, ctx)
                           /\ Last(RowsOf(W, other)) = Row(p, other)
<1> DEFINE P == RowsOf(W, ctx)
           O == RowsOf(W, other)
<1>1. RowsOK(P) /\ RowsOK(O) /\ P # {} /\ O # {}
  BY RowsAreOK DEF RowsOf
<1>2. /\ First(P) \in P /\ \A q \in P : q = First(P) \/ Before(First(P), q)
      /\ Last(P) \in P /\ \A q \in P : q = Last(P) \/ Before(q, Last(P))
      /\ First(O) \in O /\ \A q \in O : q = First(O) \/ Before(First(O), q)
      /\ Last(O) \in O /\ \A q \in O : q = Last(O) \/ Before(q, Last(O))
  BY <1>1, EndsOfPrints
<1>3. \A p, q \in W : Before(Row(p, ctx), Row(q, ctx)) <=> Before(Row(p, other), Row(q, other))
  BY RowOfAnyBuild DEF Before
<1>4. \A p, q \in W : ~ (Before(Row(p, ctx), Row(q, ctx)) /\ Before(Row(q, ctx), Row(p, ctx)))
  BY <1>1 DEF RowsOK, RowsOf, Before
<1>5. \A p, q \in W : /\ Row(p, ctx) = Row(q, ctx) => p = q
                      /\ Row(p, other) = Row(q, other) => p = q
  BY RowFields, IndexIsOfOne
<1>6. \A p \in W : Row(p, ctx) \in P /\ Row(p, other) \in O
  BY DEF RowsOf
<1>7. PICK p \in W, q \in W : First(P) = Row(p, ctx) /\ First(O) = Row(q, other)
  BY <1>2 DEF RowsOf
<1>8. PICK s \in W, t \in W : Last(P) = Row(s, ctx) /\ Last(O) = Row(t, other)
  BY <1>2 DEF RowsOf
<1> HIDE DEF P, O
<1>9. p = q
  BY <1>2, <1>3, <1>4, <1>5, <1>6, <1>7
<1>10. s = t
  BY <1>2, <1>3, <1>4, <1>5, <1>6, <1>8
<1> QED
  BY <1>7, <1>8, <1>9, <1>10 DEF P, O

\* Bars of the same prints are the same in every build, but for whether they are complete.
LEMMA BarOfPlaces ==
    ASSUME PlacesOK, NEW W \in SUBSET Places, W # {}, \A p \in W : Readable(RecordAt(p)),
           NEW ctx \in Contexts, NEW other \in Contexts, NEW start,
           NEW rows, RowsOK(rows), start \in Starts(rows), Prints(rows, start) = RowsOf(W, ctx),
           NEW later, RowsOK(later), start \in Starts(later),
           Prints(later, start) = RowsOf(W, other)
    PROVE  SameBar(Bar(rows, start, ctx), Bar(later, start, other))
<1> DEFINE P == RowsOf(W, ctx)
           O == RowsOf(W, other)
           b == Bar(rows, start, ctx)
           c == Bar(later, start, other)
<1>1. Volume(P) = Volume(O) /\ Traded(P) = Traded(O) /\ Prices(P) = Prices(O)
  BY SumsOfPlaces
<1>2. Vwap(P) = Vwap(O)
  BY <1>1 DEF Vwap
<1>3. /\ First(P).price = First(O).price /\ First(P).instrument = First(O).instrument
      /\ Last(P).price = Last(O).price
  BY EndsOfPlaces, RowOfAnyBuild
<1>4. /\ b.time = start /\ b.knowledge = start + Window + Lag
      /\ b.instrument = First(P).instrument
      /\ b.open = First(P).price /\ b.close = Last(P).price
      /\ b.high = Max(Prices(P)) /\ b.low = Min(Prices(P))
      /\ b.volume = Volume(P) /\ b.vwap = Vwap(P)
  BY BarIsOfPrints
<1>5. /\ c.time = start /\ c.knowledge = start + Window + Lag
      /\ c.instrument = First(O).instrument
      /\ c.open = First(O).price /\ c.close = Last(O).price
      /\ c.high = Max(Prices(O)) /\ c.low = Min(Prices(O))
      /\ c.volume = Volume(O) /\ c.vwap = Vwap(O)
  BY BarIsOfPrints
<1> HIDE DEF P, O, b, c
<1>6. SameBar(b, c)
  BY <1>1, <1>2, <1>3, <1>4, <1>5 DEF SameBar
<1> QED
  BY <1>6 DEF b, c

\* A bar marked complete is the bar of every later build, whatever was captured since, as
\* long as that happened at or after the as-of time (is_complete).
THEOREM CompleteStands == Spec => CompleteBarsStand
<1> DEFINE Stand ==
      sealed # NoSnapshot
      /\ (\A q \in sealed'.trades :
             (\E r \in sealed.trades : SameRow(r, q)) \/ q.time >= sealed.asOf)
      => \A b \in sealed.bars : b.complete => \E c \in sealed'.bars : SameBar(b, c)
<1>1. ASSUME SealedInv, [Next]_vars PROVE Stand \/ sealed' = sealed
  <2> SUFFICES ASSUME sealed # NoSnapshot,
                      \A q \in sealed'.trades :
                          (\E r \in sealed.trades : SameRow(r, q)) \/ q.time >= sealed.asOf,
                      NEW b \in sealed.bars, b.complete,
                      NEW other \in Contexts, Build(other)
               PROVE  \E c \in sealed'.bars : SameBar(b, c)
    BY <1>1 DEF Next, Receive, Rotate, vars
  <2>1. PICK ctx \in Contexts : \E Q \in SUBSET Places : SnapshotOf(Q, ctx)
    BY <1>1 DEF SealedInv
  <2>2. PICK Q \in SUBSET Places : SnapshotOf(Q, ctx)
    BY <2>1
  <2> DEFINE rows == sealed.trades
             later == RowsOf(Places, other)
             start == b.time
             W == {p \in Q : RecordAt(p).eligible /\ WindowStart(EventTime(RecordAt(p))) = start}
  <2>3. /\ PlacesOK /\ \A p \in Places : Readable(RecordAt(p))
        /\ sealed'.trades = later /\ sealed'.bars = Bars(later, other)
    BY <1>1 DEF SealedInv, Build, AllReadable, Normalized, RowsOf
  <2>4. rows = RowsOf(Q, ctx) /\ sealed.asOf = ctx.asOf
    BY <2>2 DEF SnapshotOf
  <2>5. /\ RowsOK(rows) /\ start \in Starts(rows) /\ b = Bar(rows, start, ctx)
        /\ RowsOK(later)
    BY <2>2, <2>3, SealedBar, RowsAreOK
  <2>6. Prints(rows, start) # {} /\ start \in Int /\ start + Window <= ctx.asOf
    <3> HIDE DEF rows, start
    <3>1. /\ Prints(rows, start) # {} /\ start \in Int
          /\ Bar(rows, start, ctx).complete = (start + Window <= ctx.asOf)
      BY <2>5, BarIsOfPrints
    <3> QED
      BY <2>5, <3>1
  <2>7. Prints(rows, start) = RowsOf(W, ctx)
    BY <2>4, RowOfAnyBuild DEF Prints, RowsOf
  <2>8. W \in SUBSET Places /\ W # {}
    BY <2>6, <2>7 DEF RowsOf
  <2>9. ASSUME NEW p \in Places, RecordAt(p).eligible,
               WindowStart(EventTime(RecordAt(p))) = start
        PROVE  p \in W
    <3> DEFINE q == Row(p, other)
    <3>1. /\ q \in later /\ q.time = EventTime(RecordAt(p)) /\ q.time \in Int
          /\ q.index = IngestIndex(p) /\ q.seq \in Int /\ q.index \in Nat
      BY <2>3, RowFields, RowOfAnyBuild DEF RowsOf
    <3>2. q.time < start + Window
      BY <2>9, <3>1, OwnWindow
    <3>3. ctx.asOf \in Int
      BY ContextsAreTyped DEF Context
    <3>4. ~ (q.time >= sealed.asOf)
      BY <2>4, <2>6, <3>1, <3>2, <3>3, WindowsAreTyped
    <3>5. PICK r \in rows : SameRow(r, q)
      BY <2>3, <3>1, <3>4
    <3>6. r.time \in Int /\ r.seq \in Int /\ r.index \in Nat
      BY <2>5 DEF RowsOK
    <3>7. r.index = q.index
      BY <3>1, <3>5, <3>6 DEF SameRow, Before
    <3>8. PICK o \in Q : r = Row(o, ctx)
      BY <2>4, <3>5 DEF RowsOf
    <3>9. r.index = IngestIndex(o)
      BY <3>8 DEF Row
    <3>10. o = p
      BY <2>3, <3>1, <3>7, <3>9, IndexIsOfOne
    <3> QED
      BY <2>9, <3>8, <3>10
  <2>10. Prints(later, start) = RowsOf(W, other)
    <3>1. ASSUME NEW q \in Prints(later, start) PROVE q \in RowsOf(W, other)
      <4>1. PICK p \in Places : q = Row(p, other)
        BY DEF Prints, RowsOf
      <4>2. RecordAt(p).eligible /\ WindowStart(EventTime(RecordAt(p))) = start
        BY <4>1, RowOfAnyBuild DEF Prints
      <4>3. p \in W
        BY <2>9, <4>2
      <4> QED
        BY <4>1, <4>3 DEF RowsOf
    <3>2. ASSUME NEW p \in W PROVE Row(p, other) \in Prints(later, start)
      BY <2>8, RowOfAnyBuild DEF Prints, RowsOf
    <3> QED
      BY <3>1, <3>2 DEF RowsOf
  <2>11. start \in Starts(later)
    <3>1. PICK q \in Prints(later, start) : TRUE
      BY <2>8, <2>10 DEF RowsOf
    <3> QED
      BY <3>1 DEF Prints, Starts
  <2>12. \A p \in W : Readable(RecordAt(p))
    BY <2>3, <2>8
  <2> HIDE DEF rows, later, start, W
  <2>13. SameBar(Bar(rows, start, ctx), Bar(later, start, other))
    BY <2>3, <2>5, <2>7, <2>8, <2>10, <2>11, <2>12, BarOfPlaces
  <2>14. Bar(later, start, other) \in Bars(later, other)
    BY <2>11 DEF Bars
  <2> QED
    BY <2>3, <2>5, <2>13, <2>14
<1>2. SealedInv /\ [Next]_vars => [Stand]_sealed
  BY <1>1
<1> QED
  BY <1>2, SealedInvariant, PTL DEF Spec, CompleteBarsStand
=============================================================================
