------------------------------ MODULE Executions ------------------------------
(***************************************************************************)
(* What the order event log promises whoever adds up its fills: an         *)
(* execution that a broker reports is counted once, whatever the number,   *)
(* order and time of its reports, and stays counted.                       *)
(***************************************************************************)
EXTENDS Naturals

CONSTANT Fills

VARIABLE counted   \* how often the log counts each execution

Init == counted = [x \in Fills |-> 0]

Count(x) ==
    /\ counted[x] = 0
    /\ counted' = [counted EXCEPT ![x] = 1]

Next == \E x \in Fills : Count(x)

Spec == Init /\ [][Next]_counted
=============================================================================
