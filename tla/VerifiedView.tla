---------------------------- MODULE VerifiedView ----------------------------
(***************************************************************************)
(* What a snapshot root promises a consumer who verifies before reading:   *)
(* it shows either no snapshot at all or one whole snapshot, and it never  *)
(* turns one snapshot into another without showing nothing in between.     *)
(***************************************************************************)
CONSTANTS Snapshots,    \* the identities a build can seal
          Nothing       \* what an unverifiable root shows

VARIABLE view

Init == view = Nothing

\* A build seals, or a rewritten file again matches the manifest that lists it.
Publish == view = Nothing /\ view' \in Snapshots

\* A rebuild overwrites a listed file, or a file is damaged at rest.
Withdraw == view \in Snapshots /\ view' = Nothing

Next == Publish \/ Withdraw

Spec == Init /\ [][Next]_view
=============================================================================
