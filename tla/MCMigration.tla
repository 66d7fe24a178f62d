---------------------------- MODULE MCMigration ----------------------------
(* The migrations of this repository, for TLC. *)
EXTENDS Migration, TLC

MCAll == <<"0001", "0002">>

\* One client may have a checkout from before the second one.
MCCheckouts == "c1" :> {2} @@ "c2" :> {1, 2}
=============================================================================
