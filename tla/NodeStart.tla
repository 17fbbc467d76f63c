------------------------------ MODULE NodeStart -------------------------------
(***************************************************************************)
(* main.rs and the node functions of database/mod.rs: what a process does  *)
(* from its start to its end, over the schema of Migrations, and the       *)
(* identity of the node, which setup writes and a serving process caches.  *)
(***************************************************************************)
EXTENDS Migrations

CONSTANTS
  Callsigns,
  NoCopy      \* no cached node information

ASSUME CopyAssumption == NoCopy \notin Callsigns

VARIABLES
  nodes,      \* the rows of nodes, oldest first: their callsigns
  command,    \* what each process was started for
  copy,       \* node_cache of each process
  forced,     \* history: a setup was told to --force
  together    \* history: two setups were past their check at once

nodeVars == <<nodes, command, copy, forced, together>>
startVars == <<migrationVars, nodeVars>>

Plain(what) == [do |-> what, callsign |-> CHOOSE c \in Callsigns : TRUE, force |-> FALSE]
\* check, create: a setup before and after its look at node_exists. Database compact and
\* stats and the import of callsigns write no row of these tables.
Commands == [do: {"check", "create"}, callsign: Callsigns, force: BOOLEAN]
            \cup {Plain(what) : what \in {"serve", "migrate", "other"}}
Given    == {c \in Commands : c.do # "create"}

NodeStartTypeOK ==
  /\ nodes \in Seq(Callsigns)
  /\ command \in [Procs -> Commands]
  /\ copy \in [Procs -> Callsigns \cup {NoCopy}]
  /\ forced \in BOOLEAN /\ together \in BOOLEAN

NodesInit ==
  /\ nodes = <<>>
  /\ command = [p \in Procs |-> Plain("other")]
  /\ copy = [p \in Procs |-> NoCopy]
  /\ forced = FALSE /\ together = FALSE

NodeStartInit == MigrationsInit /\ NodesInit

----------------------------------------------------------------------------
(* The start and the end of a process.                                     *)

\* Every command opens the database and migrates it first, with an empty cache.
Launch(p, c) ==
  /\ RunMigrations(p)
  /\ command' = [command EXCEPT ![p] = c]
  /\ copy' = [copy EXCEPT ![p] = NoCopy]
  /\ UNCHANGED <<nodes, forced, together>>

\* A migration, and whatever else changes the schema: the rows go with their table.
Migrating(p) ==
  /\ Step(p)
  /\ nodes' = IF "nodes" \in objects' THEN nodes ELSE <<>>
  /\ UNCHANGED <<command, copy, forced, together>>

Ready(p, what) == At(p, "serving") /\ command[p].do = what

\* No command undoes a migration: a program of its own does.
Undo(p) ==
  /\ Ready(p, "other")
  /\ StartReset(p) \/ \E target \in Targets : StartRollback(p, target)
  /\ UNCHANGED nodeVars

\* Done or refused, the process has nothing left to do but end.
Finish(p) == command' = [command EXCEPT ![p] = Plain("other")]

\* database init and migrate: once more.
MigrateAgain(p) ==
  /\ Ready(p, "migrate")
  /\ BeginRun(p)
  /\ Finish(p)
  /\ UNCHANGED <<nodes, copy, forced, together>>

\* A signal aborts the tasks of a server; a command ends; an error or a crash ends any.
End(p) ==
  /\ Stop(p)
  /\ copy' = [copy EXCEPT ![p] = NoCopy]
  /\ Finish(p)
  /\ UNCHANGED <<nodes, forced, together>>

Insert(t) == AddRow(t) /\ UNCHANGED nodeVars

----------------------------------------------------------------------------
(* setup_node: node_exists, then initialize_node.                          *)

Refused_Never(p) == FALSE
Refused(p) == ~command[p].force /\ nodes # <<>>

CheckNode(p) ==
  /\ Ready(p, "check")
  /\ IF "nodes" \in objects /\ ~Refused(p)
     THEN /\ command' = [command EXCEPT ![p].do = "create"]
          /\ forced' = (forced \/ command[p].force)
          /\ together' = (together \/ \E q \in Others(p) : Ready(q, "create"))
     ELSE Finish(p) /\ UNCHANGED <<forced, together>>
  /\ UNCHANGED <<migrationVars, nodes, copy>>

\* nodes.callsign is UNIQUE. The row is added to those there are, forced or not, and the
\* process that cached it ends.
InitializeNode(p) ==
  /\ Ready(p, "create")
  /\ LET c == command[p].callsign IN
     IF "nodes" \in objects /\ c \notin Range(nodes)
     THEN /\ nodes' = Append(nodes, c)
          /\ copy' = [copy EXCEPT ![p] = c]
     ELSE UNCHANGED <<nodes, copy>>
  /\ Finish(p)
  /\ UNCHANGED <<migrationVars, forced, together>>

\* get_node_info: the cached copy, which never expires, or the row SQLite finds first.
FirstNode == nodes[1]
GetNodeInfo(p) ==
  /\ Ready(p, "serve")
  /\ copy[p] = NoCopy /\ nodes # <<>>
  /\ copy' = [copy EXCEPT ![p] = FirstNode]
  /\ UNCHANGED <<migrationVars, nodes, command, forced, together>>

----------------------------------------------------------------------------
Starting ==
  \E p \in Procs :
    \/ \E c \in Given : Launch(p, c)
    \/ Migrating(p)
    \/ MigrateAgain(p)
    \/ End(p)

Undoings == \/ \E p \in Procs : Undo(p)
            \/ \E t \in DataTables : Insert(t)

Naming == \E p \in Procs : CheckNode(p) \/ InitializeNode(p) \/ GetNodeInfo(p)

NodeStartNext == Starting \/ Undoings \/ Naming
NodeStartSpec == NodeStartInit /\ [][NodeStartNext]_startVars

----------------------------------------------------------------------------
(* Properties.                                                             *)

\* setup refuses a node that is already initialised: there are two rows only after a
\* --force or two setups at once.
OneNode == ~forced /\ ~together => Len(nodes) <= 1

\* What the help and the message say of --force: 'reinitialize'. A server that looks its
\* node up has the callsign of the last setup, where none overlapped another.
ForceReinitializes ==
  [][~together => \A p \in Procs : GetNodeInfo(p) => copy'[p] = nodes[Len(nodes)]]_startVars

\* What it does: while no rollback or reset takes the table away, every server has the
\* identity of the first setup there ever was, a later forced one notwithstanding.
FirstIdentity ==
  undos = 0 => \A p \in Procs :
                 Ready(p, "serve") /\ copy[p] # NoCopy => nodes # <<>> /\ copy[p] = nodes[1]
=============================================================================
