----------------------------- MODULE Deployment -----------------------------
(***************************************************************************)
(* docker-compose.yml: the API waits for the migration runner of its own   *)
(* release to complete successfully, while runners of other releases may   *)
(* be at work on the same database.                                        *)
(***************************************************************************)
EXTENDS Migrations, Api

CONSTANT Migrate    \* the runner the API depends on

ASSUME DeploymentConfig == Migrate \in Runners

vars == <<migrationVars, apiVars>>

Init == MigrationsInit /\ ApiInit

\* Mutant: the API waits for the runner to be started only.
MigratedStarted == runs[Migrate].pc # "idle"

\* condition: service_completed_successfully
Migrated == runs[Migrate].pc = "done"

MigrationStep == MigrationsNext /\ UNCHANGED apiVars

BootStep == Migrated /\ Boot /\ UNCHANGED migrationVars

ApiStep ==
    /\ \/ Connect \/ Terminate \/ Stop \/ Kill
       \/ \E q \in Requests : Accept(q) \/ Handle(q)
    /\ UNCHANGED migrationVars

Next == MigrationStep \/ BootStep \/ ApiStep

Spec == Init /\ [][Next]_vars /\ ApiFairness

-----------------------------------------------------------------------------
\* Runners, requests and the process have their types; a pool is not exceeded.
TypeOK == RunsOK /\ ApiTypeOK

(***************************************************************************)
(* No process of the API runs on part of its schema, also when another     *)
(* runner fails, is killed or applies newer files under it (depends_on).   *)
(***************************************************************************)
ServesOnWholeSchema ==
    server # "down" => \A f \in 1..Carries[Migrate] : f \in ledger /\ applied[f] = 1
=============================================================================
