--------------------------- MODULE MCRawPartition ---------------------------
(***************************************************************************)
(* A small instance of RawPartition with hundredths of a second.  Windows  *)
(* of two seconds from the open at 300, so that 200 is before the open.    *)
(* Ticker A passes from instrument 1 to 2 at 400, within a window, and to  *)
(* 4 at 500, on its edge; ticker B is instrument 3 until 300 and 5 from    *)
(* 400, with nobody holding it in between.  No raw file names a ticker, so *)
(* a partition and a window may have both. The records tie in time, are    *)
(* written in several zones, arrive without a sequence number, have no     *)
(* size, or are not eligible for bars; one is stamped with the epoch, one  *)
(* has no offset, and one a price below the nano-dollar.                   *)
(***************************************************************************)
EXTENDS RawPartition

\* How the venue writes an instant: hours ahead of UTC, and no more digits than it
\* needs.
Written(instant, sign, hours, width) ==
    LET local == instant + (IF sign = "-" THEN -hours ELSE hours) * PerHour
    IN  [seconds |-> local \div PerSecond,
         fraction |-> [value |-> (local % PerSecond) \div 10^(Digits - width), width |-> width],
         offset |-> [sign |-> sign, hours |-> hours, minutes |-> 0]]

TradedAt(symbol, instant, stamp, cents, size, seq, eligible) ==
    [symbol |-> symbol, instant |-> instant, stamp |-> stamp,
     price |-> [num |-> cents, den |-> 100], size |-> size, seq |-> seq,
     eligible |-> eligible]

MCRecords ==
    {TradedAt("A", 200, Written(200, "Z", 0, 0), 20, 1, -1, TRUE),
     TradedAt("A", 300, Written(300, "+", 5, 0), 40, 2, 2, TRUE),
     TradedAt("A", 300, Written(300, "Z", 0, 2), 10, 0, 1, TRUE),
     TradedAt("A", 300, Written(300, "-", 5, 1), 10, 1, -1, TRUE),
     TradedAt("A", 450, Written(450, "Z", 0, 1), 30, 1, -1, TRUE),
     TradedAt("A", 500, Written(500, "Z", 0, 0), 20, 1, -1, TRUE),
     TradedAt("A", 650, Written(650, "+", 1, 1), 21, 1, -1, TRUE),
     TradedAt("B", 350, Written(350, "Z", 0, 2), 70, 1, -1, TRUE),
     TradedAt("B", 450, Written(450, "Z", 0, 1), 70, 1, -1, TRUE),
     TradedAt("A", 0, Written(0, "Z", 0, 0), 90, 3, -1, FALSE),
     TradedAt("A", 300, Written(300, "none", 0, 0), 20, 1, -1, TRUE),
     [TradedAt("A", 300, Written(300, "Z", 0, 0), 20, 1, -1, TRUE) EXCEPT !.price.den = 3000]}

Setting(policy, receive, process, asOf) ==
    [policy |-> policy, receive |-> receive, process |-> process, asOf |-> asOf]

\* The last one was processed before it was received, and is refused.
MCContexts ==
    {Setting("live_capture", 500, 500, 500), Setting("live_capture", 900, 900, 900),
     Setting("backfill", 500, 900, 500), Setting("backfill", 900, 900, 900),
     Setting("backfill", 900, 500, 900)}

Held(instrument, ticker, from, until) ==
    [instrument |-> instrument, ticker |-> ticker, from |-> from, until |-> until]

MCHistory ==
    {Held(1, "A", 0, 400), Held(2, "A", 400, 500), Held(4, "A", 500, Never),
     Held(3, "B", 0, 300), Held(5, "B", 400, Never)}
=============================================================================
