---------------------------- MODULE MCMigrations ----------------------------
(***************************************************************************)
(* Small instances of Migrations: numbers 0 to 2, two texts each.  The     *)
(* repository starts with the ledger's migration, so that files can be     *)
(* added above it and slipped in below an applied one.  The texts of       *)
(* version 0 make the same object, those of version 1 different ones, and  *)
(* one text of version 2 makes what a text of version 1 does.              *)
(***************************************************************************)
EXTENDS Migrations

MCVersions == 0..2
MCInitialFiles == {<<0, "a">>}
MCCreates ==
    [m \in Files |->
        CASE m[1] = 0 -> {"schema_migration"}
          [] m = <<1, "a">> -> {"t1"}
          [] m = <<1, "b">> -> {"u1"}
          [] m = <<2, "a">> -> {"t2"}
          [] m = <<2, "b">> -> {"t1", "u2"}]
=============================================================================
