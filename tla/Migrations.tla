----------------------------- MODULE Migrations -----------------------------
(***************************************************************************)
(* How an api process starts: main() of index.js up to app.listen, with    *)
(* runMigrations of migrate.js.  The queries are awaited one after the     *)
(* other, so pool.query finds the same idle client each time and BEGIN,    *)
(* the migration, its id and COMMIT are one transaction.  What it has      *)
(* written before COMMIT is in no variable: a kill or a rejected query     *)
(* takes it away.                                                          *)
(*                                                                         *)
(* Migrations are numbered in the order of their sorted file names.        *)
(***************************************************************************)
EXTENDS Naturals, Sequences

CONSTANTS MaxFiles   \* bound on the migrations ever written

VARIABLES files,     \* how many migrations the deployed image has
          recorded,  \* ids in schema_migrations; {} too when it is missing
          schema,    \* the migrations that have taken effect, in order
          at,        \* what main() awaits, or "off"
          already,   \* the Set that appliedIds returned
          file       \* the migration it has come to

bootVars == <<files, recorded, schema, at, already, file>>
stored == <<files, recorded, schema>>

ASSUME MigrationsAssumption == MaxFiles \in Nat \ {0}

BootInit ==
    /\ files = 1
    /\ recorded = {} /\ schema = <<>>
    /\ at = "off" /\ already = {} /\ file = 0

(***************************************************************************)
(* An image with one more migration replaces a process that has ended.     *)
(***************************************************************************)
Deploy ==
    /\ at = "off"
    /\ files < MaxFiles
    /\ files' = files + 1
    /\ UNCHANGED <<recorded, schema, at, already, file>>

Launch == at = "off" /\ at' = "ready" /\ UNCHANGED <<stored, already, file>>
Ready == at = "ready" /\ at' = "ensure" /\ UNCHANGED <<stored, already, file>>
EnsureMigrationsTable ==
    at = "ensure" /\ at' = "applied" /\ UNCHANGED <<stored, already, file>>

AppliedIds ==
    /\ at = "applied"
    /\ already' = recorded /\ file' = 1
    /\ at' = "next"
    /\ UNCHANGED stored

SkipApplied ==
    /\ at = "next" /\ file \in already
    /\ file' = file + 1
    /\ UNCHANGED <<stored, at, already>>

(***************************************************************************)
(* applyMigration.  A slip: without BEGIN the id is recorded at once.      *)
(***************************************************************************)
BeginMigration ==
    /\ at = "next" /\ file <= files /\ file \notin already
    /\ at' = "sql"
    /\ UNCHANGED <<stored, already, file>>

RunSql == at = "sql" /\ at' = "record" /\ UNCHANGED <<stored, already, file>>

RecordAtOnce ==
    /\ at = "record"
    /\ recorded' = recorded \cup {file}
    /\ at' = "commit"
    /\ UNCHANGED <<files, schema, already, file>>

RecordId == at = "record" /\ at' = "commit" /\ UNCHANGED <<stored, already, file>>

Committed ==
    /\ schema' = Append(schema, file)
    /\ recorded' = recorded \cup {file}
    /\ UNCHANGED files

Commit ==
    /\ at = "commit"
    /\ Committed
    /\ file' = file + 1
    /\ at' = "next"
    /\ UNCHANGED already

Migrated ==
    /\ at = "next" /\ file > files /\ file \notin already
    /\ at' = "connect"
    /\ UNCHANGED <<stored, already, file>>

(***************************************************************************)
(* producer.connect and startResultsSink.                                  *)
(***************************************************************************)
Connect == at = "connect" /\ at' = "listen" /\ UNCHANGED <<stored, already, file>>

Listen == at = "listen" /\ at' = "serving" /\ UNCHANGED <<stored, already, file>>

(***************************************************************************)
(* An awaited call rejects, COMMIT perhaps after it was carried out;       *)
(* ROLLBACK and process.exit(1) follow.                                    *)
(***************************************************************************)
Booting == at \notin {"off", "serving"}

BootRejects ==
    /\ Booting /\ at # "next"
    /\ (at = "commit" /\ Committed) \/ UNCHANGED stored
    /\ at' = "off"
    /\ UNCHANGED <<already, file>>

(***************************************************************************)
(* The process ends: it is killed at whatever it awaits, or exits.         *)
(***************************************************************************)
End ==
    /\ at # "off"
    /\ (at = "commit" /\ Committed) \/ UNCHANGED stored
    /\ at' = "off"
    /\ UNCHANGED <<already, file>>

BootStep ==
    \/ Launch \/ Ready \/ EnsureMigrationsTable \/ AppliedIds \/ SkipApplied
    \/ BeginMigration \/ RunSql \/ RecordId \/ Commit \/ Migrated \/ Connect
=============================================================================
