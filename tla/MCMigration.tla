------------------------------ MODULE MCMigration ------------------------------
(* Small instances of Migration: module "a" has four migrations, of which the first *)
(* and the third by timestamp are those of a fresh install, "b" has one.            *)
EXTENDS Migration

MCMod == [m \in Mig |-> IF m = "b1" THEN "b" ELSE "a"]
MCTime == [m \in Mig |-> CASE m \in {"a1", "b1"} -> 1 [] m = "a2" -> 2
                           [] m = "a3" -> 3 [] OTHER -> 4]
=============================================================================
