------------------------------ MODULE Migrations ------------------------------
(***************************************************************************)
(* database/migrations.rs: the schema of the database, the version written *)
(* beside it, and the runs, rollbacks and resets that processes sharing    *)
(* the file take it through, each of them in several transactions between  *)
(* which the process may stop or another one may come.                     *)
(***************************************************************************)
EXTENDS Integers, FiniteSets, Sequences, Functions, FiniteSetsExt

CONSTANTS
  Procs,        \* processes that have the database file open
  DataTables,   \* tables whose having rows matters
  Targets,      \* versions asked of rollback_to_version
  MaxUndos      \* bound: rollbacks and resets

ASSUME ProcAssumption   == IsFiniteSet(Procs)
ASSUME TargetAssumption == Targets \subseteq Nat /\ MaxUndos \in Nat

----------------------------------------------------------------------------
(* The migrations: what each creates, in this order.                       *)

Initial   == <<"users", "nodes", "license_cache">>
Messaging == <<"messages", "groups", "group_memberships">>
Routing   == <<"network_nodes", "message_routes", "sync_state">>
Events    == <<"event_log", "config_settings">>
Attaching == <<"attachments">>
\* Indexes over earlier tables. An index over a table of its own migration comes and
\* goes with it.
Tuning    == <<"idx_messages_sender_created", "idx_messages_recipient_status",
               "idx_users_status_role", "idx_groups_status_type">>
IndexedBy == [users    |-> {Tuning[3]},
              messages |-> {Tuning[1], Tuning[2]},
              groups   |-> {Tuning[4]}]

get_all_migrations == <<Initial, Messaging, Routing, Events, Attaching, Tuning>>
Versions   == DOMAIN get_all_migrations
Creates(v) == Range(get_all_migrations[v])
Latest     == 6

TableOrder == Initial \o Messaging \o Routing \o Events \o Attaching
Tracking   == {"schema_migrations", "schema_metadata"}
Tables     == Range(TableOrder) \cup Tracking
Objects    == Tables \cup Creates(Latest)

\* Indexes have no rows.
ASSUME TableAssumption == DataTables \subseteq Tables

\* The tables with a row whose foreign key, which may not be NULL, is into t.
Referring == [users         |-> {"messages", "groups", "group_memberships", "attachments"},
              nodes         |-> {"messages", "event_log"},
              messages      |-> {"message_routes", "attachments"},
              groups        |-> {"group_memberships"},
              network_nodes |-> {"message_routes", "sync_state"}]

----------------------------------------------------------------------------
VARIABLES
  objects,   \* the tables and indexes there are
  filled,    \* the tables of DataTables that have rows
  applied,   \* the versions in schema_migrations
  version,   \* the version in schema_metadata, NoRow if there is none
  job,       \* what each process is doing
  undos,     \* history: rollbacks and resets begun
  harm       \* history: how those went wrong

migrationVars == <<objects, filled, applied, version, job, undos, harm>>

NoRow == -1
\* met: history of a run: another one overlapped it.
Idle    == [at |-> "idle", left |-> {}, names |-> {}, target |-> 0, met |-> FALSE]
\* At "serving" a process has migrated and does its work; "failed", it is about to end
\* with an error.
Job     == [at: {"idle", "ensure", "version", "up", "down", "drop", "serving", "failed"},
            left: SUBSET Versions, names: SUBSET Tables, target: Nat, met: BOOLEAN]
Serving == [Idle EXCEPT !.at = "serving"]
\* stopped: a rollback ended in the middle; reset: a reset did; mixed: a rollback or a
\* reset overlapped another job.
Harms   == {"stopped", "reset", "mixed"}

MigrationsTypeOK ==
  /\ objects \subseteq Objects
  /\ filled \subseteq DataTables \cap objects
  /\ applied \subseteq Versions
  /\ version \in {NoRow} \cup Nat
  /\ job \in [Procs -> Job]
  /\ undos \in 0..MaxUndos
  /\ harm \subseteq Harms

MigrationsInit ==
  /\ objects = {} /\ filled = {} /\ applied = {} /\ version = NoRow
  /\ job = [p \in Procs |-> Idle]
  /\ undos = 0 /\ harm = {}

At(p, place) == job[p].at = place
Running(p)   == job[p].at \in {"ensure", "version", "up"}
Undoing(p)   == job[p].at \in {"down", "drop"}
Others(p)    == Procs \ {p}

Enter(p, place) == job' = [job EXCEPT ![p].at = place]
Harm(kinds)     == harm' = harm \cup kinds
Fail(p) == Enter(p, "failed") /\ UNCHANGED <<objects, filled, applied, version, undos>>

\* A table that goes takes its rows and indexes with it.
Gone(names)  == names \cup UNION {IndexedBy[t] : t \in names \cap DOMAIN IndexedBy}
Drop(names) ==
  /\ objects' = objects \ Gone(names)
  /\ filled' = filled \ names

\* DROP TABLE deletes the rows first, which the foreign keys of others may forbid.
Droppable(names) ==
  \A t \in names \cap objects \cap DOMAIN Referring :
    Referring[t] \cap filled \subseteq names

\* get_current_version: the row of schema_metadata, or the rows of schema_migrations.
VersionReadable == /\ "schema_metadata" \in objects
                   /\ version = NoRow => "schema_migrations" \in objects
Newest == IF applied = {} THEN 0 ELSE Max(applied)
CurrentVersion == IF version # NoRow THEN version ELSE Newest

----------------------------------------------------------------------------
(* run_migrations: every process begins with it.                           *)

\* A run that begins meets those under way, and they meet it.
Meeting(p) == \E q \in Others(p) : Running(q)
Begun(p)   == [q \in Procs |->
                 IF q = p THEN [Idle EXCEPT !.at = "ensure", !.met = Meeting(p)]
                 ELSE IF Running(q) THEN [job[q] EXCEPT !.met = TRUE]
                 ELSE job[q]]
Disturbing(p) == IF \E q \in Others(p) : Undoing(q) THEN {"mixed"} ELSE {}

BeginRun(p) ==
  /\ job' = Begun(p)
  /\ Harm(Disturbing(p))
  /\ UNCHANGED <<objects, filled, applied, version, undos>>

RunMigrations(p) == At(p, "idle") /\ BeginRun(p)

EnsureMigrationTable(p) ==
  /\ At(p, "ensure")
  /\ objects' = objects \cup Tracking
  /\ Enter(p, "version")
  /\ UNCHANGED <<filled, applied, version, undos, harm>>

Pending_Again(current) == {v \in Versions : v >= current}
Pending(current) == {v \in Versions : v > current}
ReadVersion(p) ==
  /\ At(p, "version")
  /\ IF VersionReadable
     THEN /\ job' = [job EXCEPT ![p] =
               IF Pending(CurrentVersion) = {} THEN Serving
               ELSE [job[p] EXCEPT !.at = "up", !.left = Pending(CurrentVersion)]]
          /\ UNCHANGED <<objects, filled, applied, version, undos>>
     ELSE Fail(p)
  /\ UNCHANGED harm

\* One transaction: the statements, which none of them says IF NOT EXISTS, the row of
\* the migration and the version.
Creatable_IfNotExists(v) ==
  /\ v = Latest => \A t \in DOMAIN IndexedBy : t \in objects
  /\ Tracking \subseteq objects
Creatable(v) ==
  /\ Creates(v) \cap objects = {}
  /\ v = Latest => \A t \in DOMAIN IndexedBy : t \in objects
  /\ v \notin applied
  /\ Tracking \subseteq objects

ApplyMigration(p) ==
  /\ At(p, "up")
  /\ LET v == Min(job[p].left) IN
     IF Creatable(v)
     THEN /\ objects' = objects \cup Creates(v)
          /\ applied' = applied \cup {v}
          /\ version' = v
          /\ job' = [job EXCEPT ![p] = IF job[p].left = {v} THEN Serving
                                       ELSE [job[p] EXCEPT !.left = @ \ {v}]]
          /\ UNCHANGED <<filled, undos>>
     ELSE Fail(p)
  /\ UNCHANGED harm

----------------------------------------------------------------------------
(* rollback_to_version: downwards, one transaction for each migration, and *)
(* the version after the last.                                             *)

Mixed(p) == IF \E q \in Others(p) : Running(q) \/ Undoing(q) THEN {"mixed"} ELSE {}

StartRollback(p, target) ==
  /\ At(p, "serving")
  /\ undos < MaxUndos
  /\ VersionReadable
  /\ target < CurrentVersion
  /\ job' = [job EXCEPT ![p] =
       [Idle EXCEPT !.at = "down", !.target = target,
                    !.left = {v \in Versions : target < v /\ v <= CurrentVersion}]]
  /\ undos' = undos + 1
  /\ Harm(Mixed(p))
  /\ UNCHANGED <<objects, filled, applied, version>>

\* The statements say IF EXISTS, and drop a table before the tables it refers to.
RollBack(p) ==
  /\ At(p, "down") /\ job[p].left # {}
  /\ LET v == Max(job[p].left) IN
     IF Droppable(Creates(v)) /\ "schema_migrations" \in objects
     THEN /\ Drop(Creates(v))
          /\ applied' = applied \ {v}
          /\ job' = [job EXCEPT ![p].left = @ \ {v}]
          /\ UNCHANGED <<version, undos, harm>>
     ELSE Fail(p) /\ Harm({"stopped"})

WriteVersion(p) ==
  /\ At(p, "down") /\ job[p].left = {}
  /\ IF "schema_metadata" \in objects
     THEN /\ version' = job[p].target
          /\ job' = [job EXCEPT ![p] = Serving]
          /\ UNCHANGED <<objects, filled, applied, undos, harm>>
     ELSE Fail(p) /\ Harm({"stopped"})

----------------------------------------------------------------------------
(* reset_database: one statement for each table, in no transaction, and    *)
(* then a run.                                                             *)

StartReset(p) ==
  /\ At(p, "serving")
  /\ undos < MaxUndos
  /\ job' = [job EXCEPT ![p] = [Idle EXCEPT !.at = "drop", !.names = objects \cap Tables]]
  /\ undos' = undos + 1
  /\ Harm(Mixed(p))
  /\ UNCHANGED <<objects, filled, applied, version>>

\* The names come in the order of the catalogue: the tables of the migrations in theirs,
\* those of the tracking wherever they were created last.
Rank(t) == CHOOSE i \in DOMAIN TableOrder : TableOrder[i] = t
Listed(names) ==
  {t \in names : t \in Tracking \/ \A u \in names \ Tracking : Rank(t) <= Rank(u)}

DropTable(p) ==
  /\ At(p, "drop") /\ job[p].names # {}
  /\ \E t \in Listed(job[p].names) :
       IF Droppable({t})
       THEN /\ Drop({t})
            /\ applied' = IF t = "schema_migrations" THEN {} ELSE applied
            /\ version' = IF t = "schema_metadata" THEN NoRow ELSE version
            /\ job' = [job EXCEPT ![p].names = @ \ {t}]
            /\ UNCHANGED <<undos, harm>>
       ELSE Fail(p) /\ Harm({"reset"})

RunAgain(p) ==
  /\ At(p, "drop") /\ job[p].names = {}
  /\ Enter(p, "ensure")
  /\ UNCHANGED <<objects, filled, applied, version, undos, harm>>

----------------------------------------------------------------------------
(* Rows, and the end of a process.                                         *)

\* A serving process inserts a row that refers to rows there are.
AddRow(t) ==
  /\ \E p \in Procs : At(p, "serving")
  /\ t \in objects \ filled
  /\ \A u \in DOMAIN Referring \cap DataTables : t \in Referring[u] => u \in filled
  /\ filled' = filled \cup {t}
  /\ UNCHANGED <<objects, applied, version, job, undos, harm>>

\* The process stops, wherever it is.
Stop(p) ==
  /\ ~At(p, "idle")
  /\ job' = [job EXCEPT ![p] = Idle]
  /\ Harm(IF At(p, "down") THEN {"stopped"} ELSE IF At(p, "drop") THEN {"reset"} ELSE {})
  /\ UNCHANGED <<objects, filled, applied, version, undos>>

Step(p) ==
  \/ EnsureMigrationTable(p) \/ ReadVersion(p) \/ ApplyMigration(p)
  \/ RollBack(p) \/ WriteVersion(p)
  \/ DropTable(p) \/ RunAgain(p)

MigrationsNext ==
  \/ \E p \in Procs : RunMigrations(p) \/ Step(p) \/ StartReset(p) \/ Stop(p)
  \/ \E p \in Procs, target \in Targets : StartRollback(p, target)
  \/ \E t \in DataTables : AddRow(t)

MigrationsSpec == MigrationsInit /\ [][MigrationsNext]_migrationVars

----------------------------------------------------------------------------
(* Properties.                                                             *)

Schema(n)  == UNION {Creates(v) : v \in 1..n}
Consistent == /\ applied = 1..CurrentVersion
              /\ objects \ Tracking = Schema(CurrentVersion)

\* run_migrations, however it is stopped or overlapped, leaves the schema the version says,
\* and so does a rollback or a reset that is let alone and comes to its end.
SchemaMatches ==
  harm = {} /\ (\A p \in Procs : ~Undoing(p)) => Consistent

\* On a schema that no rollback or reset was stopped on, or overlapped another job on, a
\* start fails only if another one was under way together with it: however many have
\* overlapped, failed or stopped before, the next one that is alone succeeds. After a
\* rollback that was stopped, the version is above the schema: the next start skips what
\* is missing, and fails if it has an index to create over it.
StartFails == harm = {} => \A p \in Procs : At(p, "failed") => job[p].met
=============================================================================
