----------------------------- MODULE Migrations -----------------------------
(***************************************************************************)
(* migrations.Apply, as cmd/migrate runs it: several runners, of releases  *)
(* that carry more or fewer files, apply the up migrations to one database *)
(* at the same time.  Each statement is one step.  The objects and the     *)
(* ledger row of a file are written in one transaction, whose statements   *)
(* wait for what another transaction has created and not committed.        *)
(***************************************************************************)
EXTENDS Integers

CONSTANTS
    Runners,
    LastFile,       \* up migrations of the newest release, 1 .. LastFile by name
    Carries,        \* runner -> how many of them its binary embeds
    MaxRunFaults    \* bound on failed statements, lost replies, timeouts and kills

Files == 1..LastFile

ASSUME MigrationsConfig ==
    /\ LastFile \in Nat
    /\ Carries \in [Runners -> 0..LastFile]
    /\ MaxRunFaults \in Nat

VARIABLES
    table,      \* the table schema_migrations: absent or present
    ledger,     \* files with a row in it
    applied,    \* file -> how often its statements have taken effect
    runs,       \* runner -> the statement it executes next, and for which file
    runFaults

migrationVars == <<table, ledger, applied, runs, runFaults>>

\* "look" and "create" are CREATE TABLE IF NOT EXISTS; "done" and "failed" are
\* exit codes 0 and 1.
Run == [pc : {"idle", "look", "create", "check", "exec", "record", "commit", "done", "failed"},
        file : Nat]

MigrationsInit ==
    /\ table = "absent" /\ ledger = {}
    /\ applied = [f \in Files |-> 0]
    /\ runs = [r \in Runners |-> [pc |-> "idle", file |-> 0]]
    /\ runFaults = 0

Goto(r, pc, file) == runs' = [runs EXCEPT ![r] = [pc |-> pc, file |-> file]]

\* An error ends Apply; its transaction, if any, is rolled back.
Abort(r) == Goto(r, "failed", 0)

\* The container is started; one that failed may be started again.
StartRun(r) ==
    /\ runs[r].pc \in {"idle", "failed"}
    /\ Goto(r, "look", 0)
    /\ UNCHANGED <<table, ledger, applied, runFaults>>

\* IF NOT EXISTS looks first ...
LookForLedger(r) ==
    /\ runs[r].pc = "look"
    /\ IF table = "present" THEN Goto(r, "check", 1) ELSE Goto(r, "create", 0)
    /\ UNCHANGED <<table, ledger, applied, runFaults>>

\* ... and fails on the catalog's unique index if another was faster.
CreateLedger(r) ==
    /\ runs[r].pc = "create"
    /\ IF table = "present" THEN Abort(r) ELSE Goto(r, "check", 1)
    /\ table' = "present"
    /\ UNCHANGED <<ledger, applied, runFaults>>

\* SELECT EXISTS, for the next file in the order of their names.
ReadLedger(r) ==
    /\ runs[r].pc = "check"
    /\ \/ /\ runs[r].file > Carries[r]
          /\ Goto(r, "done", 0)
       \/ /\ runs[r].file <= Carries[r] /\ runs[r].file \in ledger
          /\ Goto(r, "check", runs[r].file + 1)
       \/ /\ runs[r].file <= Carries[r] /\ runs[r].file \notin ledger
          /\ Goto(r, "exec", runs[r].file)
    /\ UNCHANGED <<table, ledger, applied, runFaults>>

\* r has created the objects of file f and not committed them.
Creating(r, f) == runs[r].pc \in {"record", "commit"} /\ runs[r].file = f

\* CREATE TABLE and CREATE INDEX of a file that is in the schema already.
Exists(f) == applied[f] > 0

\* BEGIN and the statements of the file.
ExecFile(r) ==
    /\ runs[r].pc = "exec"
    /\ \A other \in Runners \ {r} : ~Creating(other, runs[r].file)
    /\ IF Exists(runs[r].file) THEN Abort(r) ELSE Goto(r, "record", runs[r].file)
    /\ UNCHANGED <<table, ledger, applied, runFaults>>

\* INSERT INTO schema_migrations, whose version is its primary key.
RecordFile(r) ==
    /\ runs[r].pc = "record"
    /\ IF runs[r].file \in ledger THEN Abort(r) ELSE Goto(r, "commit", runs[r].file)
    /\ UNCHANGED <<table, ledger, applied, runFaults>>

\* Mutant: the file has no transaction around it, and the ledger is not written.
ApplyOutside(f) ==
    /\ applied' = [applied EXCEPT ![f] = @ + 1]
    /\ UNCHANGED ledger

\* What the transaction of a file makes durable.
ApplyFile(f) ==
    /\ applied' = [applied EXCEPT ![f] = @ + 1]
    /\ ledger' = ledger \cup {f}

CommitFile(r) ==
    /\ runs[r].pc = "commit"
    /\ ApplyFile(runs[r].file)
    /\ \/ /\ Goto(r, "check", runs[r].file + 1)
          /\ UNCHANGED runFaults
       \/ /\ runFaults < MaxRunFaults /\ runFaults' = runFaults + 1     \* the reply is lost
          /\ Abort(r)
    /\ UNCHANGED table

\* A statement fails, the 30 s of cmd/migrate are over or the container is killed.
LoseRun(r) ==
    /\ runs[r].pc \notin {"idle", "done", "failed"}
    /\ runFaults < MaxRunFaults /\ runFaults' = runFaults + 1
    /\ Abort(r)
    /\ UNCHANGED <<table, ledger, applied>>

Statement(r) ==
    \/ LookForLedger(r) \/ CreateLedger(r)
    \/ ReadLedger(r) \/ ExecFile(r) \/ RecordFile(r) \/ CommitFile(r)

MigrationsNext == \E r \in Runners : StartRun(r) \/ Statement(r) \/ LoseRun(r)

MigrationsSpec == MigrationsInit /\ [][MigrationsNext]_migrationVars

-----------------------------------------------------------------------------
RunsOK ==
    /\ table \in {"absent", "present"}
    /\ ledger \subseteq Files
    /\ applied \in [Files -> Nat]
    /\ runs \in [Runners -> Run]
    /\ runFaults \in 0..MaxRunFaults

(***************************************************************************)
(* "Apply applies every embedded up migration exactly once", whatever      *)
(* runners of different releases do at the same time and wherever they     *)
(* stop: a file took effect once if it is in the ledger and not at all     *)
(* otherwise, and the files in the ledger are the first ones by name.      *)
(***************************************************************************)
AppliedExactlyOnce ==
    /\ \A f \in Files : applied[f] = IF f \in ledger THEN 1 ELSE 0
    /\ \A f \in ledger : 1..f \subseteq ledger
=============================================================================
