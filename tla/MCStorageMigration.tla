-------------------------- MODULE MCStorageMigration --------------------------
(***************************************************************************)
(* Small instances of StorageMigration for TLC: which commands the users   *)
(* of an instance run.  All commands: AllCommands.                         *)
(***************************************************************************)
EXTENDS StorageMigration

(* Only switches of the mode, and the loads that recover them, and resolutions of conflicts. *)
Switching == {"protect", "unprotect", "recover", "resolve"}

(* Two crashes in one migration, or one crash and two migrations. *)
FewDisturbances == spent.migration + spent.crash <= 3
===============================================================================
