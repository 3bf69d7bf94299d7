--------------------------- MODULE MCSnapshotStore ---------------------------
(***************************************************************************)
(* Small instances of SnapshotStore.  Four inputs: a day, the same day     *)
(* with a revised price (as many rows), the next day, and a longer capture *)
(* of the first day whose bars the writer refuses.                         *)
(***************************************************************************)
EXTENDS SnapshotStore

AllInputs == {"base", "revised", "nextday", "refused"}
GoodInputs == {"base", "revised"}

MCDate(i) == IF i = "nextday" THEN "d2" ELSE "d1"
MCNormalized(k, i) == <<k, i>>
MCBarsOf(t, i) == <<"bar", t[2]>>
MCRows(t) == IF t[2] = "refused" THEN 2 ELSE 1
MCTables == Kinds \X AllInputs
MCRejected == {<<"bar", "refused">>}
=============================================================================
