--------------------------- MODULE MCPaperAccount ---------------------------
(***************************************************************************)
(* A small instance of PaperAccount.  Two partial fills of one order at    *)
(* one instant; the first of them a second time from another source, which *)
(* has no sequence number and derives another event id; and a sell of      *)
(* another account whose broker uses the same execution id and event id.   *)
(* A cancellation that nobody asked for belongs to no order of ours.  A    *)
(* fill of another instrument has no execution id.                         *)
(***************************************************************************)
EXTENDS PaperAccount

Fill(account, instrument, id, execution, sequence, time, side, quantity, price) ==
    [account |-> account, instrument |-> instrument, order |-> "o", id |-> id, execution |-> execution,
     sequence |-> sequence, type |-> "fill", state |-> "partially_filled",
     time |-> time, side |-> side, quantity |-> quantity, price |-> price]

Cancellation ==
    [account |-> "p", order |-> None, id |-> "e3", execution |-> None, sequence |-> 3,
     type |-> "canceled", state |-> "canceled", time |-> 1]

MCEvents ==
    {Fill("p", "i", "e1", "x1", 1, 1, "buy", 2, 5),
     Fill("p", "i", "e2", "x2", 2, 1, "buy", 1, 5),
     Fill("p", "i", "polled", "x1", None, 1, "buy", 2, 5),
     Fill("p", "j", "e4", None, 4, 1, "buy", 1, 5), Cancellation,
     Fill("q", "j", "e1", "x1", None, 0, "sell", 1, 4)}

MCComponents == {"commission", "rebate"}
MCRate == [c \in MCComponents |-> IF c = "rebate" THEN [num |-> 1, den |-> 4]
                                  ELSE [num |-> 2, den |-> 3]]
MCIsCredit == [c \in MCComponents |-> c = "rebate"]
=============================================================================
