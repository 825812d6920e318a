------------------------------ MODULE MCMigration ------------------------------
EXTENDS Migration, TLC

(* One player for each of two shards. *)
HashDef == 1 :> 4 @@ 2 :> 7

Settings(generation, count, routing) ==
  [generation |-> generation, count |-> count, routing |-> routing]

(* The old and the new generation, and the old one with the new sharding. *)
DeploymentsDef ==
  { Settings("protected-v1", 1, "single_compatibility"),
    Settings("public-v1", 2, "sharded_migration_ready"),
    Settings("protected-v1", 2, "sharded_migration_ready") }

=============================================================================
