-------------------------- MODULE MCContractRegistry --------------------------
(***************************************************************************)
(* Small instances of ContractRegistry.  Three shapes: a field list, the   *)
(* same columns under another codeset, and one with a column more.         *)
(***************************************************************************)
EXTENDS ContractRegistry

MCVersions == 1..2
MCShapes == {"v1 codes", "v2 codes", "wider"}
MCTwoShapes == {"v1 codes", "wider"}
MCColumns(s) == IF s = "wider" THEN "wide" ELSE "narrow"
=============================================================================
