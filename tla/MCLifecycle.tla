---------------------------- MODULE MCLifecycle ----------------------------
(* Two instances of one deployment.  The environments are the one of the   *)
(* runbook, the same after the first deployment (no more migrations), one  *)
(* without the schema check, and an invalid one.  The database is empty,   *)
(* migrated, or lost a table or the record of its version.                 *)
EXTENDS Lifecycle

Env(migrate, check, jwt, keys) ==
    [url |-> TRUE, migrate |-> migrate, check |-> check, jwt |-> jwt, keys |-> keys]

MCConfigs == {Env(TRUE, TRUE, TRUE, TRUE), Env(FALSE, TRUE, TRUE, TRUE),
              Env(TRUE, FALSE, FALSE, FALSE), Env(TRUE, TRUE, TRUE, FALSE)}

MCDatabases == {[tables |-> {}, version |-> 0], [tables |-> AllTables, version |-> 1],
                [tables |-> AllTables \ {"audit_events"}, version |-> 1],
                [tables |-> AllTables, version |-> 0]}
=============================================================================
