----------------------------- MODULE MCMigration -----------------------------
(***************************************************************************)
(* Instances of Migration for TLC.                                         *)
(***************************************************************************)
EXTENDS Migration

(* The table of postgres_migrations.go in small: unsupported entries with  *)
(* and without the blocking flag, then dropTxnBytesColumn,                 *)
(* convertAccountData and createAppBoxTable.                               *)
CodeUnsupported == {0, 1}
CodeOnce        == {2}
CodeBlocking    == {1, 2, 3, 4}
CodeOldStates   == -1 .. 5

(* One batch is exactly full, or a second one is needed. *)
CodeOldLive == {{2, 3}, {1, 2, 3}}

CodeOldOwns ==
    [a \in Addresses |-> [account_asset |-> 2, asset |-> 1, app |-> 2, account_app |-> 2]]
=============================================================================
