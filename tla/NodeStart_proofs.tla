--------------------------- MODULE NodeStart_proofs ---------------------------
(***************************************************************************)
(* The identity of a node and, after it, the schema of its database, for   *)
(* any number of processes, commands, stops and restarts.                  *)
(***************************************************************************)
EXTENDS NodeStart, SequenceTheorems, TLAPS

JobsTyped == job \in [Procs -> Job] /\ undos \in Nat

\* A setup past its check goes on to its insertion or ends, and does not undo.
Creators   == {p \in Procs : command[p].do = "create"}
CreateOnly == \A p \in Creators : At(p, "serving")

\* OneNode is not inductive: while neither history is set, a setup that is past its check
\* is alone there, and still finds no row.
NoneBefore == ~forced /\ ~together => /\ \A p, q \in Creators : p = q
                                      /\ Creators # {} => nodes = <<>>

\* FirstIdentity is not inductive either: the table is there while it has rows, which
\* only an undoing process could take away, and a server starts with no copy.
Undone    == undos = 0 => \A p \in Procs : ~Undoing(p)
RowsThere == nodes # <<>> => "nodes" \in objects
Servers   == {p \in Procs : command[p].do = "serve"}
FirstHeld == undos = 0 => \A p \in Servers :
                            copy[p] # NoCopy => nodes # <<>> /\ copy[p] = nodes[1]

IdInv == /\ JobsTyped /\ NodeStartTypeOK
         /\ CreateOnly /\ NoneBefore /\ OneNode
         /\ Undone /\ RowsThere /\ FirstHeld

(***************************************************************************)
(* Jobs.                                                                   *)
(***************************************************************************)

LEMMA IdleTyped == Idle \in Job /\ Idle.at = "idle"
BY DEF Idle, Job

LEMMA ServingTyped == Serving \in Job /\ Serving.at = "serving"
BY DEF Serving, Idle, Job

\* What a process does to the schema: its own job, and no table away but in undoing.
Moves(p) == /\ job' \in [Procs -> Job]
            /\ \A q \in Procs : q # p => job'[q] = job[q]
            /\ undos' = undos
            /\ ~Undoing(p) => objects \subseteq objects' /\ job'[p].at \notin {"down", "drop"}

\* Of another process's job, no more changes than that it has been met.
Same(q) == /\ job'[q].at = job[q].at /\ job'[q].left = job[q].left
           /\ job'[q].names = job[q].names /\ job'[q].target = job[q].target
           /\ job[q].met => job'[q].met

LEMMA Beginning ==
  ASSUME JobsTyped, NEW p \in Procs, BeginRun(p)
  PROVE  /\ job' \in [Procs -> Job]
         /\ job'[p].at = "ensure" /\ job'[p].met = Meeting(p)
         /\ \A q \in Procs : q # p => Same(q) /\ (Running(q) => job'[q].met)
<1>1. Meeting(p) \in BOOLEAN
  BY DEF Meeting
<1>2. \A q \in Procs : job[q] \in Job
  BY DEF JobsTyped
<1>3. \A q \in Procs : [job[q] EXCEPT !.met = TRUE] \in Job
  BY <1>2 DEF Job
<1>4. [Idle EXCEPT !.at = "ensure", !.met = Meeting(p)] \in Job
  BY <1>1 DEF Idle, Job
<1>5. \A q \in Procs :
        job'[q] = IF q = p THEN [Idle EXCEPT !.at = "ensure", !.met = Meeting(p)]
                  ELSE IF Running(q) THEN [job[q] EXCEPT !.met = TRUE]
                  ELSE job[q]
  BY DEF BeginRun, Begun
<1>6. job' \in [Procs -> Job]
  BY <1>2, <1>3, <1>4, <1>5 DEF BeginRun, Begun
<1>7. job'[p].at = "ensure" /\ job'[p].met = Meeting(p)
  BY <1>5 DEF Idle
<1>8. ASSUME NEW q \in Procs, q # p PROVE Same(q) /\ (Running(q) => job'[q].met)
  BY <1>2, <1>5, <1>8 DEF Same, Job
<1> QED BY <1>6, <1>7, <1>8

LEMMA Entering ==
  ASSUME JobsTyped, NEW p \in Procs, Enter(p, "ensure") \/ Enter(p, "version") \/ Enter(p, "failed")
  PROVE  /\ job' \in [Procs -> Job]
         /\ \A q \in Procs : q # p => job'[q] = job[q]
         /\ job'[p].at \in {"ensure", "version", "failed"}
<1>1. \A place \in {"ensure", "version", "failed"} : [job[p] EXCEPT !.at = place] \in Job
  BY DEF JobsTyped, Job
<1> QED BY <1>1 DEF JobsTyped, Enter, Job

LEMMA Failing ==
  ASSUME JobsTyped, NEW p \in Procs, Fail(p)
  PROVE  Moves(p)
BY Entering DEF Fail, Moves, JobsTyped

LEMMA Upwards ==
  ASSUME JobsTyped, NEW p \in Procs, EnsureMigrationTable(p) \/ ReadVersion(p) \/ ApplyMigration(p)
  PROVE  Moves(p)
<1>1. CASE EnsureMigrationTable(p)
  BY <1>1, Entering DEF EnsureMigrationTable, Moves
<1>2. CASE ReadVersion(p)
  <2>1. CASE Fail(p)
    BY <2>1, Failing
  <2>2. CASE job' = [job EXCEPT ![p] =
               IF Pending(CurrentVersion) = {} THEN Serving
               ELSE [job[p] EXCEPT !.at = "up", !.left = Pending(CurrentVersion)]]
             /\ UNCHANGED <<objects, undos>>
    <3>1. Pending(CurrentVersion) \subseteq Versions
      BY DEF Pending
    <3>2. [job[p] EXCEPT !.at = "up", !.left = Pending(CurrentVersion)] \in Job
      BY <3>1 DEF JobsTyped, Job
    <3>3. job'[p].at \in {"serving", "up"}
      BY <2>2, ServingTyped DEF JobsTyped, Job
    <3> QED BY <2>2, <3>2, <3>3, ServingTyped DEF Moves, JobsTyped
  <2> QED BY <1>2, <2>1, <2>2 DEF ReadVersion
<1>3. CASE ApplyMigration(p)
  <2> DEFINE v == Min(job[p].left)
  <2>1. CASE Fail(p)
    BY <2>1, Failing
  <2>2. CASE /\ job' = [job EXCEPT ![p] = IF job[p].left = {v} THEN Serving
                                          ELSE [job[p] EXCEPT !.left = @ \ {v}]]
             /\ objects' = objects \cup Creates(v) /\ undos' = undos
    <3>1. job[p] \in Job /\ At(p, "up")
      BY <1>3 DEF JobsTyped, ApplyMigration
    <3>2. /\ job'[p] \in Job /\ job'[p].at \in {"serving", "up"}
          /\ \A q \in Procs : q # p => job'[q] = job[q]
          /\ job' \in [Procs -> Job]
      BY <2>2, <3>1, ServingTyped DEF JobsTyped, Job, At
    <3> QED BY <2>2, <3>2 DEF Moves
  <2> QED BY <1>3, <2>1, <2>2 DEF ApplyMigration
<1> QED BY <1>1, <1>2, <1>3

LEMMA Downwards ==
  ASSUME JobsTyped, NEW p \in Procs,
         RollBack(p) \/ WriteVersion(p) \/ DropTable(p) \/ RunAgain(p)
  PROVE  Moves(p) /\ Undoing(p)
<1>0. Undoing(p) /\ job[p] \in Job
  BY DEF RollBack, WriteVersion, DropTable, RunAgain, Undoing, At, JobsTyped
<1>1. CASE Fail(p)
  BY <1>0, <1>1, Failing
<1>2. ASSUME NEW v, job' = [job EXCEPT ![p].left = @ \ {v}], undos' = undos PROVE Moves(p)
  BY <1>0, <1>2 DEF Moves, JobsTyped, Job
<1>3. ASSUME NEW t, job' = [job EXCEPT ![p].names = @ \ {t}], undos' = undos PROVE Moves(p)
  BY <1>0, <1>3 DEF Moves, JobsTyped, Job
<1>4. CASE job' = [job EXCEPT ![p] = Serving] /\ undos' = undos
  BY <1>0, <1>4, ServingTyped DEF Moves, JobsTyped
<1>5. CASE RunAgain(p)
  BY <1>0, <1>5, Entering DEF RunAgain, Moves
<1> QED BY <1>0, <1>1, <1>2, <1>3, <1>4, <1>5 DEF RollBack, WriteVersion, DropTable

LEMMA Stepping ==
  ASSUME JobsTyped, NEW p \in Procs, Step(p)
  PROVE  Moves(p) /\ ~At(p, "serving")
<1>1. Moves(p)
  BY Upwards, Downwards DEF Step
<1>2. ~At(p, "serving")
  BY DEF Step, EnsureMigrationTable, ReadVersion, ApplyMigration, RollBack, WriteVersion,
     DropTable, RunAgain, At
<1> QED BY <1>1, <1>2

(***************************************************************************)
(* Commands.                                                               *)
(***************************************************************************)

LEMMA Commanding ==
  /\ Plain("other") \in Commands /\ Plain("other").do = "other"
  /\ \A c \in Commands : c.do = "check" => [c EXCEPT !.do = "create"] \in Commands
<1>1. \A what : Plain(what).do = what
  BY DEF Plain
<1>2. Plain("other") \in Commands
  BY DEF Commands
<1>3. \A c \in Commands : c.do = "check" => [c EXCEPT !.do = "create"] \in Commands
  BY <1>1 DEF Commands
<1> QED BY <1>1, <1>2, <1>3

LEMMA Finishing ==
  ASSUME NodeStartTypeOK, NEW p \in Procs, Finish(p)
  PROVE  /\ command' \in [Procs -> Commands]
         /\ Creators' = Creators \ {p}
         /\ Servers' = Servers \ {p}
<1>1. Plain("other") \in Commands /\ Plain("other").do = "other"
  BY Commanding
<1>2. command' = [command EXCEPT ![p] = Plain("other")] /\ command \in [Procs -> Commands]
  BY DEF Finish, NodeStartTypeOK
<1>3. command' \in [Procs -> Commands]
  BY <1>1, <1>2
<1>4. \A q \in Procs : command'[q].do = IF q = p THEN "other" ELSE command[q].do
  BY <1>1, <1>2
<1> QED BY <1>3, <1>4 DEF Creators, Servers

----------------------------------------------------------------------------
(* The steps of NodeStartNext, each with the parts of IdInv it can disturb.*)

LEMMA LaunchKeeps ==
  ASSUME IdInv, NEW p \in Procs, NEW c \in Given, Launch(p, c)
  PROVE  IdInv'
<1>1. /\ job' \in [Procs -> Job] /\ job'[p].at = "ensure"
      /\ \A q \in Procs : q # p => Same(q)
  BY Beginning DEF IdInv, Launch, RunMigrations
<1>2. UNCHANGED <<objects, undos, nodes, forced, together>>
  BY DEF Launch, RunMigrations, BeginRun
<1>3. command' = [command EXCEPT ![p] = c] /\ copy' = [copy EXCEPT ![p] = NoCopy]
  BY DEF Launch
<1>4. c \in Commands /\ c.do # "create"
  BY DEF Given
<1>5. p \notin Creators
  BY DEF IdInv, CreateOnly, At, Launch, RunMigrations
<1>6. Creators' = Creators
  BY <1>3, <1>4, <1>5 DEF Creators, IdInv, NodeStartTypeOK
<1>7. NodeStartTypeOK'
  BY <1>2, <1>3, <1>4 DEF IdInv, NodeStartTypeOK
<1>8. CreateOnly'
  BY <1>1, <1>5, <1>6 DEF IdInv, CreateOnly, At, Creators, Same
<1>9. NoneBefore' /\ OneNode' /\ RowsThere'
  BY <1>2, <1>6 DEF IdInv, NoneBefore, OneNode, RowsThere
<1>10. Undone' /\ JobsTyped'
  BY <1>1, <1>2 DEF IdInv, Undone, Undoing, JobsTyped, Same
<1>11. FirstHeld'
  BY <1>2, <1>3 DEF IdInv, FirstHeld, Servers, NodeStartTypeOK
<1> QED BY <1>7, <1>8, <1>9, <1>10, <1>11 DEF IdInv

LEMMA MigratingKeeps ==
  ASSUME IdInv, NEW p \in Procs, Migrating(p)
  PROVE  IdInv'
<1>1. Moves(p) /\ ~At(p, "serving")
  BY Stepping DEF IdInv, Migrating
<1>2. /\ nodes' = IF "nodes" \in objects' THEN nodes ELSE <<>>
      /\ UNCHANGED <<command, copy, forced, together>>
  BY DEF Migrating
<1>3. Creators' = Creators /\ Servers' = Servers
  BY <1>2 DEF Creators, Servers
<1>4. nodes' = nodes \/ nodes' = <<>>
  BY <1>2
<1>5. NodeStartTypeOK' /\ JobsTyped'
  BY <1>1, <1>2 DEF IdInv, NodeStartTypeOK, JobsTyped, Moves
<1>6. CreateOnly'
  BY <1>1, <1>3 DEF IdInv, CreateOnly, At, Moves, Creators
<1>7. NoneBefore'
  BY <1>2, <1>3, <1>4 DEF IdInv, NoneBefore
<1>8. OneNode'
  BY <1>2, <1>4 DEF IdInv, OneNode
<1>9. Undone'
  BY <1>1 DEF IdInv, Undone, Undoing, Moves
<1>10. RowsThere'
  BY <1>2 DEF RowsThere
<1>11. FirstHeld'
  <2>1. ASSUME undos = 0 PROVE nodes' = nodes
    <3>1. objects \subseteq objects'
      BY <1>1, <2>1 DEF IdInv, Undone, Moves
    <3> QED BY <1>2, <3>1 DEF IdInv, RowsThere
  <2> QED BY <1>1, <1>2, <1>3, <2>1 DEF IdInv, FirstHeld, Moves
<1> QED BY <1>5, <1>6, <1>7, <1>8, <1>9, <1>10, <1>11 DEF IdInv

\* Other steps of a process that leave the rows and the histories, and take its command
\* away or leave it.
GoesOn(p) ==
  /\ job' \in [Procs -> Job]
  /\ \A q \in Procs : q # p => job'[q].at = job[q].at
  /\ undos' = undos + 1 \/ (undos' = undos /\ job'[p].at \notin {"down", "drop"})
  /\ UNCHANGED <<objects, nodes, forced, together>>
  /\ Finish(p) \/ (UNCHANGED command /\ p \notin Creators)
  /\ UNCHANGED copy \/ (Finish(p) /\ copy' = [copy EXCEPT ![p] = NoCopy])

LEMMA QuietKeeps ==
  ASSUME IdInv, NEW p \in Procs, GoesOn(p)
  PROVE  IdInv'
<1>1. /\ command' \in [Procs -> Commands]
      /\ Creators' \subseteq Creators /\ Servers' \subseteq Servers
      /\ p \notin Creators'
      /\ Finish(p) => p \notin Servers'
  BY Finishing DEF IdInv, GoesOn, NodeStartTypeOK, Creators, Servers
<1>2. NodeStartTypeOK' /\ JobsTyped'
  <2>1. copy' \in [Procs -> Callsigns \cup {NoCopy}]
    BY DEF GoesOn, IdInv, NodeStartTypeOK
  <2>2. NodeStartTypeOK'
    BY <1>1, <2>1 DEF GoesOn, IdInv, NodeStartTypeOK
  <2> QED BY <2>2 DEF GoesOn, IdInv, JobsTyped
<1>3. CreateOnly'
  BY <1>1 DEF GoesOn, IdInv, CreateOnly, At, Creators
<1>4. NoneBefore' /\ OneNode' /\ RowsThere'
  BY <1>1 DEF GoesOn, IdInv, NoneBefore, OneNode, RowsThere
<1>5. Undone'
  BY DEF GoesOn, IdInv, Undone, Undoing, JobsTyped
<1>6. FirstHeld'
  BY <1>1 DEF GoesOn, IdInv, FirstHeld, NodeStartTypeOK, Servers, JobsTyped
<1> QED BY <1>2, <1>3, <1>4, <1>5, <1>6 DEF IdInv

LEMMA MigrateAgainKeeps ==
  ASSUME IdInv, NEW p \in Procs, MigrateAgain(p)
  PROVE  IdInv'
<1>1. BeginRun(p) /\ Finish(p)
  BY DEF MigrateAgain
<1>2. /\ job' \in [Procs -> Job]
      /\ \A q \in Procs : q # p => job'[q].at = job[q].at
      /\ job'[p].at = "ensure"
  BY <1>1, Beginning DEF IdInv, Same
<1>3. UNCHANGED <<objects, undos, nodes, copy, forced, together>>
  BY DEF MigrateAgain, BeginRun
<1>4. GoesOn(p)
  BY <1>1, <1>2, <1>3 DEF GoesOn, Finish
<1> QED BY <1>4, QuietKeeps

LEMMA EndKeeps ==
  ASSUME IdInv, NEW p \in Procs, End(p)
  PROVE  IdInv'
<1>1. job' = [job EXCEPT ![p] = Idle] /\ UNCHANGED <<objects, undos>>
  BY DEF End, Stop
<1>2. /\ job' \in [Procs -> Job]
      /\ \A q \in Procs : q # p => job'[q] = job[q]
      /\ job'[p].at = "idle"
  BY <1>1, IdleTyped DEF IdInv, JobsTyped
<1>3. copy' = [copy EXCEPT ![p] = NoCopy] /\ Finish(p) /\ UNCHANGED <<nodes, forced, together>>
  BY DEF End
<1>4. GoesOn(p)
  BY <1>1, <1>2, <1>3 DEF GoesOn, Finish
<1> QED BY <1>4, QuietKeeps

LEMMA UndoKeeps ==
  ASSUME IdInv, NEW p \in Procs, Undo(p)
  PROVE  IdInv'
<1>1. UNCHANGED <<nodes, command, copy, forced, together>>
  BY DEF Undo, nodeVars
<1>2. p \notin Creators
  BY DEF Undo, Ready, Creators
<1>3. job \in [Procs -> Job] /\ undos \in Nat
  BY DEF IdInv, JobsTyped
<1>4. CASE StartReset(p)
  <2>1. [Idle EXCEPT !.at = "drop", !.names = objects \cap Tables] \in Job
    BY DEF Idle, Job
  <2>2. /\ job' = [job EXCEPT ![p] = [Idle EXCEPT !.at = "drop", !.names = objects \cap Tables]]
        /\ undos' = undos + 1 /\ objects' = objects
    BY <1>4 DEF StartReset
  <2>3. job' \in [Procs -> Job] /\ \A q \in Procs : q # p => job'[q] = job[q]
    BY <1>3, <2>1, <2>2
  <2>4. GoesOn(p)
    BY <1>1, <1>2, <2>2, <2>3 DEF GoesOn, Finish
  <2> QED BY <2>4, QuietKeeps
<1>5. ASSUME NEW target \in Targets, StartRollback(p, target)
      PROVE  IdInv'
  <2> DEFINE steps == {v \in Versions : target < v /\ v <= CurrentVersion}
             new   == [Idle EXCEPT !.at = "down", !.target = target, !.left = steps]
  <2>1. new \in Job
    BY TargetAssumption DEF Idle, Job
  <2>2. job' = [job EXCEPT ![p] = new] /\ undos' = undos + 1 /\ objects' = objects
    BY <1>5 DEF StartRollback
  <2> HIDE DEF new
  <2>3. job' \in [Procs -> Job] /\ \A q \in Procs : q # p => job'[q] = job[q]
    BY <1>3, <2>1, <2>2
  <2>4. GoesOn(p)
    BY <1>1, <1>2, <2>2, <2>3 DEF GoesOn, Finish
  <2> QED BY <2>4, QuietKeeps
<1> QED BY <1>4, <1>5 DEF Undo

LEMMA CheckNodeKeeps ==
  ASSUME IdInv, NEW p \in Procs, CheckNode(p)
  PROVE  IdInv'
<1>1. /\ Ready(p, "check")
      /\ UNCHANGED <<objects, job, undos, nodes, copy>>
  BY DEF CheckNode, migrationVars
<1>2. CASE Finish(p) /\ UNCHANGED <<forced, together>>
  <2>1. job'[p].at \notin {"down", "drop"}
    BY <1>1 DEF Ready, At
  <2>2. GoesOn(p)
    BY <1>1, <1>2, <2>1 DEF GoesOn, Finish, IdInv, JobsTyped
  <2> QED BY <2>2, QuietKeeps
<1>3. CASE /\ ~Refused(p)
           /\ command' = [command EXCEPT ![p].do = "create"]
           /\ forced' = (forced \/ command[p].force)
           /\ together' = (together \/ \E q \in Others(p) : Ready(q, "create"))
  <2>1. command[p] \in Commands /\ command \in [Procs -> Commands]
    BY DEF IdInv, NodeStartTypeOK
  <2>2. command' \in [Procs -> Commands] /\ command[p].do = "check"
    BY <1>1, <1>3, <2>1, Commanding DEF Ready
  <2>3. \A q \in Procs : q # p => command'[q] = command[q]
    BY <1>3, <2>1
  <2>4. command'[p].do = "create"
    <3>1. command[p] \in [do: {"check", "create"}, callsign: Callsigns, force: BOOLEAN]
      BY <2>1, <2>2 DEF Commands, Plain
    <3> QED BY <1>3, <2>1, <3>1
  <2>5. Creators' = Creators \cup {p} /\ Servers' = Servers
    BY <2>2, <2>3, <2>4 DEF Creators, Servers
  <2>6. forced' \in BOOLEAN /\ together' \in BOOLEAN
    <3>1. command[p].force \in BOOLEAN
      BY <2>1, <2>2 DEF Commands, Plain
    <3> QED BY <1>3, <3>1 DEF IdInv, NodeStartTypeOK
  <2>7. NodeStartTypeOK' /\ JobsTyped'
    BY <1>1, <2>2, <2>6 DEF IdInv, NodeStartTypeOK, JobsTyped
  <2>8. CreateOnly'
    BY <1>1, <2>5 DEF IdInv, CreateOnly, At, Ready
  <2>9. NoneBefore'
    <3>1. SUFFICES ASSUME ~forced', ~together'
                   PROVE  (\A q, r \in Creators' : q = r) /\ nodes' = <<>>
      BY DEF NoneBefore
    <3>2. ~forced /\ ~command[p].force /\ \A q \in Others(p) : ~Ready(q, "create")
      BY <1>3, <3>1
    <3>3. Creators \subseteq {p}
      BY <3>2 DEF IdInv, CreateOnly, Creators, Ready, Others
    <3>4. nodes = <<>>
      BY <1>3, <3>2 DEF Refused
    <3> QED BY <1>1, <2>5, <3>3, <3>4
  <2>10. OneNode'
    BY <1>1, <1>3 DEF IdInv, OneNode
  <2>11. Undone' /\ RowsThere' /\ FirstHeld'
    BY <1>1, <2>5 DEF IdInv, Undone, Undoing, RowsThere, FirstHeld
  <2> QED BY <2>7, <2>8, <2>9, <2>10, <2>11 DEF IdInv
<1> QED BY <1>2, <1>3 DEF CheckNode

LEMMA InitializeNodeKeeps ==
  ASSUME IdInv, NEW p \in Procs, InitializeNode(p)
  PROVE  IdInv'
<1> DEFINE c == command[p].callsign
<1>1. /\ Ready(p, "create") /\ Finish(p)
      /\ UNCHANGED <<objects, job, undos, forced, together>>
  BY DEF InitializeNode, migrationVars
<1>2. p \in Creators /\ job'[p].at \notin {"down", "drop"}
  BY <1>1 DEF Ready, At, Creators
<1>3. CASE UNCHANGED <<nodes, copy>>
  <2>1. GoesOn(p)
    BY <1>1, <1>2, <1>3 DEF GoesOn, Finish, IdInv, JobsTyped
  <2> QED BY <2>1, QuietKeeps
<1>4. CASE /\ "nodes" \in objects
           /\ nodes' = Append(nodes, c)
           /\ copy' = [copy EXCEPT ![p] = c]
  <2>1. c \in Callsigns
    <3>1. command[p] \in Commands /\ command[p].do = "create"
      BY <1>1 DEF IdInv, NodeStartTypeOK, Ready
    <3> QED BY <3>1 DEF Commands, Plain
  <2>2. nodes \in Seq(Callsigns)
    BY DEF IdInv, NodeStartTypeOK
  <2> HIDE DEF c
  <2>3. /\ nodes' \in Seq(Callsigns) /\ nodes' # <<>>
        /\ Len(nodes') = Len(nodes) + 1
        /\ nodes # <<>> => nodes'[1] = nodes[1]
    BY <1>4, <2>1, <2>2
  <2>4. /\ command' \in [Procs -> Commands]
        /\ Creators' = Creators \ {p} /\ Servers' = Servers \ {p}
    BY <1>1, Finishing DEF IdInv
  <2>5. NodeStartTypeOK' /\ JobsTyped'
    BY <1>1, <1>4, <2>1, <2>3, <2>4 DEF IdInv, NodeStartTypeOK, JobsTyped
  <2>6. CreateOnly' /\ Undone' /\ RowsThere'
    BY <1>1, <1>4, <2>4 DEF IdInv, CreateOnly, At, Undone, Undoing, RowsThere
  <2>7. NoneBefore' /\ OneNode'
    BY <1>1, <1>2, <2>2, <2>3, <2>4 DEF IdInv, NoneBefore, OneNode
  <2>8. FirstHeld'
    BY <1>1, <1>4, <2>3, <2>4 DEF IdInv, FirstHeld, Servers, NodeStartTypeOK
  <2> QED BY <2>5, <2>6, <2>7, <2>8 DEF IdInv
<1> QED BY <1>3, <1>4 DEF InitializeNode

LEMMA GetNodeInfoKeeps ==
  ASSUME IdInv, NEW p \in Procs, GetNodeInfo(p)
  PROVE  IdInv'
<1>1. /\ nodes # <<>> /\ copy' = [copy EXCEPT ![p] = nodes[1]]
      /\ UNCHANGED <<objects, job, undos, nodes, command, forced, together>>
  BY DEF GetNodeInfo, FirstNode, migrationVars
<1>2. nodes[1] \in Callsigns
  BY <1>1 DEF IdInv, NodeStartTypeOK
<1>3. NodeStartTypeOK' /\ JobsTyped'
  BY <1>1, <1>2 DEF IdInv, NodeStartTypeOK, JobsTyped
<1>4. Creators' = Creators /\ Servers' = Servers
  BY <1>1 DEF Creators, Servers
<1>5. CreateOnly' /\ Undone' /\ RowsThere' /\ NoneBefore' /\ OneNode'
  BY <1>1, <1>4 DEF IdInv, CreateOnly, At, Undone, Undoing, RowsThere, NoneBefore, OneNode
<1>6. FirstHeld'
  BY <1>1, <1>4 DEF IdInv, FirstHeld, Servers, NodeStartTypeOK
<1> QED BY <1>3, <1>5, <1>6 DEF IdInv

LEMMA RowsKeep ==
  ASSUME IdInv, NEW t, Insert(t)
  PROVE  IdInv'
<1>1. UNCHANGED <<objects, job, undos, nodes, command, copy, forced, together>>
  BY DEF Insert, AddRow, nodeVars
<1> QED BY <1>1 DEF IdInv, JobsTyped, NodeStartTypeOK, CreateOnly, NoneBefore, OneNode, Undone,
           Undoing, RowsThere, FirstHeld, Creators, Servers, At

----------------------------------------------------------------------------

LEMMA IdStarts == NodeStartInit => IdInv
<1> SUFFICES ASSUME NodeStartInit PROVE IdInv
  OBVIOUS
<1>1. /\ objects = {} /\ undos = 0 /\ job = [p \in Procs |-> Idle]
      /\ nodes = <<>> /\ command = [p \in Procs |-> Plain("other")]
      /\ copy = [p \in Procs |-> NoCopy] /\ forced = FALSE /\ together = FALSE
  BY DEF NodeStartInit, MigrationsInit, NodesInit
<1>2. Creators = {} /\ Servers = {}
  BY <1>1, Commanding DEF Creators, Servers
<1>3. JobsTyped
  BY <1>1, IdleTyped DEF JobsTyped
<1>6. NodeStartTypeOK
  <2>1. nodes \in Seq(Callsigns)
    BY <1>1
  <2> QED BY <1>1, <2>1, Commanding DEF NodeStartTypeOK
<1>4. CreateOnly /\ NoneBefore /\ OneNode /\ RowsThere
  BY <1>1, <1>2 DEF CreateOnly, NoneBefore, OneNode, RowsThere
<1>5. Undone /\ FirstHeld
  BY <1>1, <1>2, IdleTyped DEF Undone, Undoing, FirstHeld
<1> QED BY <1>3, <1>4, <1>5, <1>6 DEF IdInv

LEMMA IdKept == IdInv /\ [NodeStartNext]_startVars => IdInv'
<1> SUFFICES ASSUME IdInv, [NodeStartNext]_startVars PROVE IdInv'
  OBVIOUS
<1>1. CASE Starting
  BY <1>1, LaunchKeeps, MigratingKeeps, MigrateAgainKeeps, EndKeeps DEF Starting
<1>2. CASE Undoings
  BY <1>2, UndoKeeps, RowsKeep DEF Undoings
<1>3. CASE Naming
  BY <1>3, CheckNodeKeeps, InitializeNodeKeeps, GetNodeInfoKeeps DEF Naming
<1>4. CASE UNCHANGED startVars
  BY <1>4 DEF startVars, migrationVars, nodeVars, IdInv, JobsTyped, NodeStartTypeOK, CreateOnly,
     NoneBefore, OneNode, Undone, Undoing, RowsThere, FirstHeld, Creators, Servers, At
<1> QED BY <1>1, <1>2, <1>3, <1>4 DEF NodeStartNext

LEMMA IdAlways == NodeStartSpec => []IdInv
BY IdStarts, IdKept, PTL DEF NodeStartSpec

\* What the node functions of database/mod.rs keep has its type, whatever the processes do.
THEOREM StartTyped == NodeStartSpec => []NodeStartTypeOK
<1>1. IdInv => NodeStartTypeOK
  BY DEF IdInv
<1> QED BY <1>1, IdAlways, PTL

\* However many setups, servers, rollbacks and crashes there are, the nodes table has two
\* rows only after a --force or after two setups were past node_exists at once.
THEOREM OneNodeOnly == NodeStartSpec => []OneNode
<1>1. IdInv => OneNode
  BY DEF IdInv
<1> QED BY <1>1, IdAlways, PTL

\* Until a rollback or a reset, every server caches the identity of the first setup: a
\* forced setup adds a row that get_node_info never reads.
THEOREM IdentityStays == NodeStartSpec => []FirstIdentity
<1>1. IdInv => FirstIdentity
  BY DEF IdInv, FirstHeld, FirstIdentity, Servers, Ready
<1> QED BY <1>1, IdAlways, PTL

(***************************************************************************)
(* The catalogue: what the migrations create, and what goes with a table.  *)
(***************************************************************************)

Indexes == Creates(6)

LEMMA Created ==
  /\ Versions = 1..6
  /\ Creates(1) = {"users", "nodes", "license_cache"}
  /\ Creates(2) = {"messages", "groups", "group_memberships"}
  /\ Creates(3) = {"network_nodes", "message_routes", "sync_state"}
  /\ Creates(4) = {"event_log", "config_settings"}
  /\ Creates(5) = {"attachments"}
  /\ Creates(6) = {"idx_messages_sender_created", "idx_messages_recipient_status",
                   "idx_users_status_role", "idx_groups_status_type"}
<1> USE DEF get_all_migrations, Range
<1>1. Versions = 1..6
  BY DEF Versions
<1>2. Creates(1) = {"users", "nodes", "license_cache"}
  BY DEF Creates, Initial
<1>3. Creates(2) = {"messages", "groups", "group_memberships"}
  BY DEF Creates, Messaging
<1>4. Creates(3) = {"network_nodes", "message_routes", "sync_state"}
  BY DEF Creates, Routing
<1>5. Creates(4) = {"event_log", "config_settings"}
  BY DEF Creates, Events
<1>6. Creates(5) = {"attachments"}
  BY DEF Creates, Attaching
<1>7. Creates(6) = {"idx_messages_sender_created", "idx_messages_recipient_status",
                    "idx_users_status_role", "idx_groups_status_type"}
  BY DEF Creates, Tuning
<1> QED BY <1>1, <1>2, <1>3, <1>4, <1>5, <1>6, <1>7

LEMMA ConcatRange ==
  ASSUME NEW S, NEW s \in Seq(S), NEW t \in Seq(S)
  PROVE  s \o t \in Seq(S) /\ Range(s \o t) = Range(s) \cup Range(t)
<1>1. /\ Len(s \o t) = Len(s) + Len(t) /\ s \o t \in Seq(S)
      /\ \A i \in 1..Len(s) + Len(t) :
           (s \o t)[i] = IF i <= Len(s) THEN s[i] ELSE t[i - Len(s)]
  OBVIOUS
<1>2. DOMAIN s = 1..Len(s) /\ DOMAIN t = 1..Len(t) /\ DOMAIN (s \o t) = 1..Len(s) + Len(t)
  BY <1>1
<1>3. Len(s) \in Nat /\ Len(t) \in Nat
  OBVIOUS
<1>4. \A x \in Range(s) : x \in Range(s \o t)
  <2>1. \A i \in 1..Len(s) : i \in 1..Len(s) + Len(t) /\ (s \o t)[i] = s[i]
    BY <1>1, <1>3
  <2> QED BY <1>2, <2>1 DEF Range
<1>5. \A x \in Range(t) : x \in Range(s \o t)
  <2>1. \A i \in 1..Len(t) : /\ i + Len(s) \in 1..Len(s) + Len(t)
                             /\ (s \o t)[i + Len(s)] = t[i]
    BY <1>1, <1>3
  <2> QED BY <1>2, <2>1 DEF Range
<1>6. \A x \in Range(s \o t) : x \in Range(s) \cup Range(t)
  <2>1. \A i \in 1..Len(s) + Len(t) : i \in 1..Len(s) \/ i - Len(s) \in 1..Len(t)
    BY <1>3
  <2> QED BY <1>1, <1>2, <1>3, <2>1 DEF Range
<1> QED BY <1>1, <1>4, <1>5, <1>6

LEMMA AllTables ==
  Tables = Tracking \cup Creates(1) \cup Creates(2) \cup Creates(3) \cup Creates(4) \cup Creates(5)
<1> DEFINE S == {"users", "nodes", "license_cache", "messages", "groups",
                 "group_memberships", "network_nodes", "message_routes", "sync_state",
                 "event_log", "config_settings", "attachments"}
<1>1. /\ Initial \in Seq(S) /\ Messaging \in Seq(S) /\ Routing \in Seq(S)
      /\ Events \in Seq(S) /\ Attaching \in Seq(S)
  BY DEF Initial, Messaging, Routing, Events, Attaching
<1> HIDE DEF S
<1>2. \A v \in 1..5 : Creates(v) = Range(get_all_migrations[v])
  BY DEF Creates
<1>3. /\ get_all_migrations[1] = Initial /\ get_all_migrations[2] = Messaging
      /\ get_all_migrations[3] = Routing /\ get_all_migrations[4] = Events
      /\ get_all_migrations[5] = Attaching
  BY DEF get_all_migrations
<1>4. Range(TableOrder) = Range(Initial) \cup Range(Messaging) \cup Range(Routing)
                          \cup Range(Events) \cup Range(Attaching)
  <2> DEFINE im == Initial \o Messaging
             imr == im \o Routing
             imre == imr \o Events
  <2>1. im \in Seq(S) /\ Range(im) = Range(Initial) \cup Range(Messaging)
    BY <1>1, ConcatRange
  <2> HIDE DEF im
  <2>2. imr \in Seq(S) /\ Range(imr) = Range(im) \cup Range(Routing)
    BY <1>1, <2>1, ConcatRange
  <2> HIDE DEF imr
  <2>3. imre \in Seq(S) /\ Range(imre) = Range(imr) \cup Range(Events)
    BY <1>1, <2>2, ConcatRange
  <2> HIDE DEF imre
  <2>4. Range(imre \o Attaching) = Range(imre) \cup Range(Attaching)
    BY <1>1, <2>3, ConcatRange
  <2>5. TableOrder = imre \o Attaching
    BY DEF TableOrder, im, imr, imre
  <2> QED BY <2>1, <2>2, <2>3, <2>4, <2>5
<1>5. /\ Creates(1) = Range(Initial) /\ Creates(2) = Range(Messaging)
      /\ Creates(3) = Range(Routing) /\ Creates(4) = Range(Events)
      /\ Creates(5) = Range(Attaching)
  BY <1>2, <1>3
<1> QED BY <1>4, <1>5 DEF Tables

LEMMA Disjoint ==
  /\ \A v, w \in 1..6 : v # w => Creates(v) \cap Creates(w) = {}
  /\ \A v \in 1..6 : Creates(v) # {} /\ Creates(v) \cap Tracking = {}
  /\ \A v \in 1..5 : Creates(v) \subseteq Tables
  /\ Tables \cap Indexes = {} /\ Tracking \subseteq Tables
  /\ Objects = Tables \cup Indexes
<1> HIDE DEF Creates
<1>1. Tables \cap Indexes = {} /\ Tracking \subseteq Tables
  BY Created, AllTables DEF Tracking, Indexes
<1>2. Objects = Tables \cup Indexes
  BY DEF Objects, Latest, Indexes
<1>3. \A v \in 1..6 : Creates(v) # {} /\ Creates(v) \cap Tracking = {}
  BY Created DEF Tracking
<1>4. \A v \in 1..5 : Creates(v) \subseteq Tables
  BY AllTables
<1>5. \A v, w \in 1..6 : v # w => Creates(v) \cap Creates(w) = {}
  BY Created
<1> QED BY <1>1, <1>2, <1>3, <1>4, <1>5

LEMMA IndexesOf ==
  /\ DOMAIN IndexedBy \subseteq Creates(1) \cup Creates(2)
  /\ \A t \in DOMAIN IndexedBy : IndexedBy[t] \subseteq Indexes
  /\ \A i \in Indexes : \E t \in DOMAIN IndexedBy : i \in IndexedBy[t]
<1>1. DOMAIN IndexedBy = {"users", "messages", "groups"}
  BY DEF IndexedBy
<1>2. /\ Tuning[1] = "idx_messages_sender_created" /\ Tuning[2] = "idx_messages_recipient_status"
      /\ Tuning[3] = "idx_users_status_role" /\ Tuning[4] = "idx_groups_status_type"
  BY DEF Tuning
<1>3. /\ IndexedBy["users"] = {"idx_users_status_role"}
      /\ IndexedBy["messages"] = {"idx_messages_sender_created", "idx_messages_recipient_status"}
      /\ IndexedBy["groups"] = {"idx_groups_status_type"}
  BY <1>2 DEF IndexedBy
<1> QED BY <1>1, <1>3, Created DEF Indexes

(***************************************************************************)
(* The invariant.                                                          *)
(***************************************************************************)

Clean    == harm = {}
Settling == \A p \in Procs : ~Undoing(p)
Stands(n) == n \in 0..6 /\ applied = 1..n /\ objects \ Tracking = Schema(n)
Apart == Clean => \A p, q \in Procs : Undoing(p) /\ p # q => ~Running(q) /\ ~Undoing(q)
\* Whom no other run has met runs alone.
Alone == Clean => \A p, q \in Procs : Running(p) /\ ~job[p].met /\ Running(q) => p = q
Settled == Clean /\ Settling =>
  /\ Stands(CurrentVersion)
  /\ version = NoRow => applied = {}
  /\ version # NoRow => Tracking \subseteq objects
Upward(p) ==
  /\ At(p, "version") \/ At(p, "up") => Tracking \subseteq objects
  /\ At(p, "up") => /\ \E k \in 1..6 : k <= CurrentVersion + 1 /\ job[p].left = k..6
                    /\ ~job[p].met => job[p].left = (CurrentVersion + 1)..6
Downward(p) ==
  At(p, "down") => /\ version # NoRow /\ Tracking \subseteq objects
                   /\ \E n \in 0..6 : /\ Stands(n) /\ job[p].target <= n
                                           /\ job[p].left = (job[p].target + 1)..n
Dropping(p) ==
  At(p, "drop") =>
    /\ job[p].names = objects \cap Tables
    /\ "schema_migrations" \notin objects => applied = {}
    /\ "schema_metadata" \notin objects => version = NoRow
    /\ \A t \in DOMAIN IndexedBy : t \notin objects => IndexedBy[t] \cap objects = {}
Placed == Clean => \A p \in Procs : Upward(p) /\ Downward(p) /\ Dropping(p)

SchemaInv == /\ Clean => objects \subseteq Objects
             /\ Apart /\ Alone /\ Settled /\ Placed /\ StartFails

(***************************************************************************)
(* Schemas.                                                                *)
(***************************************************************************)

LEMMA Growing ==
  /\ Schema(0) = {}
  /\ \A n \in Nat : Schema(n + 1) = Schema(n) \cup Creates(n + 1)
<1>1. Schema(0) = {}
  BY DEF Schema
<1>2. ASSUME NEW n \in Nat
      PROVE  Schema(n + 1) = Schema(n) \cup Creates(n + 1)
  <2>1. 1..(n + 1) = (1..n) \cup {n + 1}
    OBVIOUS
  <2> QED BY <2>1 DEF Schema
<1> QED BY <1>1, <1>2

LEMMA Within ==
  /\ \A n \in 0..6, v \in 1..6 : v <= n => Creates(v) \subseteq Schema(n)
  /\ \A n \in 0..6, v \in 1..6 : v > n => Creates(v) \cap Schema(n) = {}
  /\ \A n \in 0..6 : Schema(n) \cap Tracking = {} /\ Schema(n) \subseteq Objects
  /\ \A n \in 1..6 : Schema(n) = Schema(n - 1) \cup Creates(n)
<1> USE DEF Schema
<1>1. \A n \in 0..6, v \in 1..6 : v <= n => Creates(v) \subseteq Schema(n)
  OBVIOUS
<1>2. ASSUME NEW n \in 0..6, NEW v \in 1..6, v > n, NEW x \in Creates(v), x \in Schema(n)
      PROVE  FALSE
  <2>1. PICK w \in 1..n : x \in Creates(w)
    BY <1>2
  <2>2. w \in 1..6 /\ w # v
    BY <1>2
  <2> QED BY <1>2, <2>1, <2>2, Disjoint
<1>3. ASSUME NEW n \in 0..6, NEW x \in Schema(n)
      PROVE  x \notin Tracking /\ x \in Objects
  <2>1. PICK w \in 1..n : x \in Creates(w)
    BY <1>3
  <2>2. w \in 1..5 \/ w = 6
    OBVIOUS
  <2> QED BY <2>1, <2>2, Disjoint DEF Indexes
<1>4. ASSUME NEW n \in 1..6 PROVE Schema(n) = Schema(n - 1) \cup Creates(n)
  <2>1. n - 1 \in Nat /\ (n - 1) + 1 = n
    OBVIOUS
  <2> HIDE DEF Schema
  <2>2. Schema((n - 1) + 1) = Schema(n - 1) \cup Creates((n - 1) + 1)
    BY <2>1, Growing
  <2> QED BY <2>1, <2>2
<1> QED BY <1>1, <1>2, <1>3, <1>4

\* Rolling back the latest migration leaves the schema of the one before.
LEMMA RolledBack ==
  ASSUME NEW n \in 1..6, objects \ Tracking = Schema(n)
  PROVE  /\ (objects \ Gone(Creates(n))) \ Tracking = Schema(n - 1)
         /\ Tracking \subseteq objects => Tracking \subseteq objects \ Gone(Creates(n))
<1>1. Creates(n) \subseteq Gone(Creates(n)) /\ Gone(Creates(n)) \subseteq Creates(n) \cup Indexes
  BY IndexesOf DEF Gone
<1>2. Gone(Creates(n)) \cap Tracking = {}
  BY <1>1, Disjoint
<1>3. Schema(n) = Schema(n - 1) \cup Creates(n) /\ Creates(n) \cap Schema(n - 1) = {}
  BY Within
<1>4. Indexes \cap Schema(n - 1) = {}
  BY Within DEF Indexes
<1> QED BY <1>1, <1>2, <1>3, <1>4

LEMMA Lowest ==
  ASSUME NEW k \in 1..6
  PROVE  Min(k..6) = k /\ (k..6) \ {k} = (k + 1)..6 /\ (k..6 = {k} <=> k = 6)
<1>1. \A x \in k..6 : (\A y \in k..6 : x <= y) <=> x = k
  OBVIOUS
<1>2. Min(k..6) = k
  <2>1. k \in k..6
    OBVIOUS
  <2> QED BY <1>1, <2>1 DEF Min
<1>3. (k..6) \ {k} = (k + 1)..6
  OBVIOUS
<1>4. k # 6 => 6 \in k..6
  OBVIOUS
<1> QED BY <1>2, <1>3, <1>4

LEMMA Highest ==
  ASSUME NEW t \in Nat, NEW n \in 0..6, (t + 1)..n # {}
  PROVE  Max((t + 1)..n) = n /\ ((t + 1)..n) \ {n} = (t + 1)..(n - 1) /\ t <= n - 1 /\ n \in 1..6
<1>1. t <= n - 1 /\ n \in (t + 1)..n /\ n \in 1..6
  OBVIOUS
<1>2. \A x \in (t + 1)..n : (\A y \in (t + 1)..n : x >= y) <=> x = n
  BY <1>1
<1>3. Max((t + 1)..n) = n
  BY <1>1, <1>2 DEF Max
<1>4. ((t + 1)..n) \ {n} = (t + 1)..(n - 1)
  BY <1>1
<1> QED BY <1>1, <1>3, <1>4

(***************************************************************************)
(* Steps. Once harm is done, the invariant says nothing more.              *)
(***************************************************************************)

LEMMA Harmed == ~Clean' => SchemaInv'
BY DEF SchemaInv, Clean, Apart, Alone, Settled, Placed, StartFails

LEMMA Cleaner ==
  ASSUME NEW kinds, harm' = harm \cup kinds \/ harm' = harm, Clean'
  PROVE  Clean
BY DEF Clean

\* What stays of a step that writes no table.
LEMMA Unwritten ==
  ASSUME UNCHANGED <<objects, applied, version>>
  PROVE  /\ CurrentVersion' = CurrentVersion
         /\ \A n : Stands(n)' <=> Stands(n)
BY DEF CurrentVersion, Newest, Stands, Schema

LEMMA Alike ==
  ASSUME NEW q \in Procs, UNCHANGED <<objects, applied, version>>, Same(q),
         Upward(q) /\ Downward(q) /\ Dropping(q)
  PROVE  (Upward(q) /\ Downward(q) /\ Dropping(q))'
<1>1. CurrentVersion' = CurrentVersion /\ \A n : Stands(n)' <=> Stands(n)
  BY Unwritten
<1>2. Upward(q)'
  BY <1>1 DEF Upward, At, Same
<1>3. Downward(q)'
  BY <1>1 DEF Downward, At, Same
<1>4. Dropping(q)'
  BY <1>1 DEF Dropping, At, Same
<1> QED BY <1>2, <1>3, <1>4

\* A step to where a process neither undoes nor has a part in hand, and that writes none.
AtRestPoints == {"idle", "ensure", "serving", "failed"}
ComesToRest(p) ==
  /\ job' \in [Procs -> Job]
  /\ \A q \in Procs : q # p => Same(q)
  /\ job'[p].at \in AtRestPoints
  /\ ~Undoing(p)
  /\ UNCHANGED <<objects, applied, version>>

LEMMA RestingKeeps ==
  ASSUME SchemaInv, JobsTyped, NEW p \in Procs, ComesToRest(p),
         NEW kinds, harm' = harm \cup kinds \/ harm' = harm,
         job'[p].at = "failed" => job'[p].met,
         job'[p].at = "ensure" /\ Clean' =>
           \A q \in Others(p) : ~Undoing(q) /\ (Running(q) => job'[p].met /\ job'[q].met)
  PROVE  SchemaInv'
<1> SUFFICES ASSUME Clean' PROVE SchemaInv'
  BY Harmed
<1>1. Clean
  BY Cleaner
<1>2. \A q \in Procs : q # p => /\ At(q, "failed")' <=> At(q, "failed")
                                /\ Running(q)' <=> Running(q)
                                /\ Undoing(q)' <=> Undoing(q)
                                /\ job[q].met => job'[q].met
  BY DEF ComesToRest, At, Running, Undoing, Same
<1>3. ~Undoing(p)' /\ (Running(p)' => job'[p].at = "ensure")
  BY DEF ComesToRest, Undoing, Running, AtRestPoints
<1>4. Apart'
  <2>1. ASSUME NEW q \in Procs, NEW r \in Procs, Undoing(q)', q # r
        PROVE  ~Running(r)' /\ ~Undoing(r)'
    <3>1. q # p /\ Undoing(q)
      BY <1>2, <1>3, <2>1
    <3>2. CASE r # p
      BY <1>1, <1>2, <2>1, <3>1, <3>2 DEF SchemaInv, Apart
    <3>3. CASE r = p
      BY <1>3, <2>1, <3>1, <3>3 DEF Others
    <3> QED BY <3>2, <3>3
  <2> QED BY <2>1 DEF Apart
<1>5. Alone'
  <2>1. ASSUME NEW q \in Procs, NEW r \in Procs, Running(q)', ~job'[q].met, Running(r)'
        PROVE  q = r
    <3>1. CASE q # p /\ r # p
      BY <1>1, <1>2, <2>1, <3>1 DEF SchemaInv, Alone
    <3>2. CASE Running(p)'
      <4>1. \A s \in Procs : s # p /\ Running(s) => job'[p].met /\ job'[s].met
        BY <1>3, <3>2 DEF Others
      <4> QED BY <1>2, <2>1, <4>1
    <3> QED BY <2>1, <3>1, <3>2
  <2> QED BY <2>1 DEF Alone
<1>6. Settled'
  <2>1. Settling' => Settling
    BY <1>2 DEF Settling, ComesToRest
  <2>2. CurrentVersion' = CurrentVersion /\ \A n : Stands(n)' <=> Stands(n)
    BY Unwritten DEF ComesToRest
  <2> QED BY <1>1, <2>1, <2>2 DEF SchemaInv, Settled, ComesToRest
<1>7. Placed'
  <2>1. ASSUME NEW q \in Procs, q # p PROVE (Upward(q) /\ Downward(q) /\ Dropping(q))'
    BY <1>1, <2>1, Alike DEF SchemaInv, Placed, ComesToRest
  <2>2. (Upward(p) /\ Downward(p) /\ Dropping(p))'
    BY DEF Upward, Downward, Dropping, At, ComesToRest, AtRestPoints
  <2> QED BY <2>1, <2>2 DEF Placed
<1>8. StartFails'
  BY <1>1, <1>2 DEF SchemaInv, StartFails, At, Clean
<1>9. (Clean => objects \subseteq Objects)'
  BY <1>1 DEF SchemaInv, ComesToRest
<1> QED BY <1>4, <1>5, <1>6, <1>7, <1>8, <1>9 DEF SchemaInv

LEMMA EnteringKeeps ==
  ASSUME SchemaInv, JobsTyped, NEW p \in Procs, ~Undoing(p), BeginRun(p)
  PROVE  SchemaInv'
<1>1. /\ job' \in [Procs -> Job] /\ job'[p].at = "ensure" /\ job'[p].met = Meeting(p)
      /\ \A q \in Procs : q # p => Same(q) /\ (Running(q) => job'[q].met)
  BY Beginning
<1>2. ComesToRest(p)
  BY <1>1 DEF ComesToRest, AtRestPoints, BeginRun
<1>3. harm' = harm \cup Disturbing(p)
  BY DEF BeginRun, Harm
<1>4. Clean' => \A q \in Others(p) : ~Undoing(q)
  BY <1>3 DEF Clean, Disturbing
<1>5. \A q \in Others(p) : Running(q) => job'[p].met /\ job'[q].met
  BY <1>1 DEF Meeting, Others
<1> QED BY <1>1, <1>2, <1>3, <1>4, <1>5, RestingKeeps

LEMMA StopKeeps ==
  ASSUME SchemaInv, JobsTyped, NEW p \in Procs, Stop(p)
  PROVE  SchemaInv'
<1>1. CASE Undoing(p)
  <2>1. ~Clean'
    BY <1>1 DEF Stop, Undoing, At, Harm, Clean
  <2> QED BY <2>1, Harmed
<1>2. CASE ~Undoing(p)
  <2>1. job' = [job EXCEPT ![p] = Idle] /\ UNCHANGED <<objects, applied, version>>
    BY DEF Stop
  <2>2. job'[p].at = "idle" /\ ComesToRest(p)
    BY <1>2, <2>1, IdleTyped DEF ComesToRest, AtRestPoints, JobsTyped, Same
  <2>3. harm' = harm \cup {}
    BY <1>2 DEF Stop, Harm, Undoing, At
  <2> QED BY <2>2, <2>3, RestingKeeps
<1> QED BY <1>1, <1>2

----------------------------------------------------------------------------
(* run_migrations.                                                         *)

LEMMA EnsureKeeps ==
  ASSUME SchemaInv, JobsTyped, NEW p \in Procs, EnsureMigrationTable(p)
  PROVE  SchemaInv'
<1> SUFFICES ASSUME Clean' PROVE SchemaInv'
  BY Harmed
<1>1. /\ At(p, "ensure") /\ Enter(p, "version") /\ objects' = objects \cup Tracking
      /\ UNCHANGED <<applied, version, harm>> /\ Clean
  BY DEF EnsureMigrationTable, Clean
<1>2. /\ \A q \in Procs : q # p => job'[q] = job[q]
      /\ job'[p].at = "version" /\ job'[p].met = job[p].met
  BY <1>1 DEF Enter, JobsTyped, Job
<1>3. \A q \in Procs : ~Undoing(q)
  BY <1>1 DEF SchemaInv, Apart, At, Running, Undoing
<1>4. \A q \in Procs : /\ ~Undoing(q)' /\ (Running(q)' <=> Running(q))
                       /\ At(q, "failed")' <=> At(q, "failed")
  BY <1>1, <1>2, <1>3 DEF Undoing, Running, At
<1>5. CurrentVersion' = CurrentVersion /\ \A n : Stands(n)' <=> Stands(n)
  BY <1>1 DEF CurrentVersion, Newest, Stands, Schema
<1>6. Apart' /\ Alone' /\ StartFails'
  BY <1>1, <1>2, <1>4 DEF SchemaInv, Apart, Alone, StartFails
<1>7. Settled'
  BY <1>1, <1>3, <1>5 DEF SchemaInv, Settled, Settling
<1>8. Placed'
  <2>1. ASSUME NEW q \in Procs PROVE Upward(q)'
    BY <1>1, <1>2, <1>5, <2>1 DEF SchemaInv, Placed, Upward, At
  <2>2. ASSUME NEW q \in Procs PROVE Downward(q)' /\ Dropping(q)'
    BY <1>4, <2>2 DEF Downward, Dropping, Undoing, At
  <2> QED BY <2>1, <2>2 DEF Placed
<1>9. (Clean => objects \subseteq Objects)'
  BY <1>1, Disjoint DEF SchemaInv
<1> QED BY <1>6, <1>7, <1>8, <1>9 DEF SchemaInv

LEMMA FailKeeps ==
  ASSUME SchemaInv, JobsTyped, NEW p \in Procs, ~Undoing(p), Enter(p, "failed"),
         UNCHANGED <<objects, applied, version, harm>>, job[p].met
  PROVE  SchemaInv'
<1>1. job'[p].at = "failed" /\ job'[p].met
  BY DEF Enter, JobsTyped, Job
<1>2. ComesToRest(p)
  BY <1>1, Entering DEF ComesToRest, AtRestPoints, Same
<1>3. harm' = harm \cup {}
  OBVIOUS
<1> QED BY <1>1, <1>2, <1>3, RestingKeeps

LEMMA ReadVersionKeeps ==
  ASSUME SchemaInv, JobsTyped, NEW p \in Procs, ReadVersion(p)
  PROVE  SchemaInv'
<1>1. At(p, "version") /\ UNCHANGED <<objects, applied, version, harm>>
  BY DEF ReadVersion, Fail
<1>2. CASE ~Clean'
  BY <1>2, Harmed
<1>3. CASE Clean'
  <2> DEFINE n == CurrentVersion
  <2>1. Clean /\ Tracking \subseteq objects
    BY <1>1, <1>3 DEF Clean, SchemaInv, Placed, Upward
  <2>2. \A q \in Procs : ~Undoing(q)
    BY <1>1, <2>1 DEF SchemaInv, Apart, At, Running, Undoing
  <2>3. Stands(n)
    BY <2>1, <2>2 DEF SchemaInv, Settled, Settling
  <2>4. n \in 0..6 /\ Pending(n) = (n + 1)..6
    BY <2>3, Created DEF Stands, Pending
  <2>5. VersionReadable
    BY <2>1 DEF VersionReadable, Tracking
  <2>6. job' = [job EXCEPT ![p] = IF Pending(n) = {} THEN Serving
                                  ELSE [job[p] EXCEPT !.at = "up", !.left = Pending(n)]]
    BY <2>5 DEF ReadVersion
  <2>7. \A q \in Procs : q # p => job'[q] = job[q]
    BY <2>6 DEF JobsTyped
  <2>8. /\ job'[p].at \in {"serving", "up"}
        /\ job'[p].at = "up" => /\ job'[p].left = (n + 1)..6 /\ n + 1 \in 1..6
                                /\ job'[p].met = job[p].met
    <3>1. Pending(n) # {} => n + 1 \in 1..6
      BY <2>4
    <3> HIDE DEF n
    <3> QED BY <2>4, <2>6, <3>1, ServingTyped DEF JobsTyped, Job
  <2>9. \A q \in Procs : /\ ~Undoing(q)' /\ (Running(q)' => Running(q))
                         /\ At(q, "failed")' => At(q, "failed")
                         /\ Running(q)' \/ At(q, "failed")' => job'[q].met = job[q].met
    BY <1>1, <2>2, <2>7, <2>8 DEF Undoing, Running, At
  <2>10. n' = n /\ \A m : Stands(m)' <=> Stands(m)
    BY <1>1, Unwritten
  <2>11. Apart' /\ Alone' /\ StartFails'
    BY <1>1, <2>9 DEF SchemaInv, Apart, Alone, StartFails, Clean
  <2>12. Settled'
    BY <1>1, <2>1, <2>2, <2>10 DEF SchemaInv, Settled, Settling
  <2>13. Placed'
    <3>1. ASSUME NEW q \in Procs, q # p PROVE (Upward(q) /\ Downward(q) /\ Dropping(q))'
      BY <1>1, <2>1, <2>7, <3>1, Alike DEF SchemaInv, Placed, Same
    <3>2. Upward(p)'
      <4> HIDE DEF n
      <4>1. CurrentVersion' = n
        BY <2>10 DEF n
      <4> QED BY <1>1, <2>1, <2>4, <2>8, <4>1 DEF Upward, At
    <3>3. (Downward(p) /\ Dropping(p))'
      BY <2>8 DEF Downward, Dropping, At
    <3> QED BY <3>1, <3>2, <3>3 DEF Placed
  <2>14. (Clean => objects \subseteq Objects)'
    BY <1>1, <2>1 DEF SchemaInv
  <2> QED BY <2>11, <2>12, <2>13, <2>14 DEF SchemaInv
<1> QED BY <1>2, <1>3

\* What the process is to apply first is the one after the version, or is already there.
LEMMA ApplyKeeps ==
  ASSUME SchemaInv, JobsTyped, NEW p \in Procs, ApplyMigration(p)
  PROVE  SchemaInv'
<1> DEFINE v == Min(job[p].left)
           n == CurrentVersion
<1>1. At(p, "up") /\ UNCHANGED harm
  BY DEF ApplyMigration
<1>2. CASE ~Clean'
  BY <1>2, Harmed
<1>3. CASE Clean'
  <2>1. Clean
    BY <1>1, <1>3 DEF Clean
  <2>2. \A q \in Procs : ~Undoing(q)
    BY <1>1, <2>1 DEF SchemaInv, Apart, At, Running, Undoing
  <2>3. Stands(n) /\ Tracking \subseteq objects /\ objects \subseteq Objects
    BY <1>1, <2>1, <2>2 DEF SchemaInv, Settled, Settling, Placed, Upward
  <2>4. n \in 0..6 /\ applied = 1..n /\ objects \ Tracking = Schema(n)
    BY <2>3 DEF Stands
  <2>5. PICK k \in 1..6 : k <= n + 1 /\ job[p].left = k..6
    BY <1>1, <2>1 DEF SchemaInv, Placed, Upward
  <2>6. v = k /\ job[p].left \ {v} = (k + 1)..6 /\ (job[p].left = {v} <=> k = 6)
    BY <2>5, Lowest
  <2>7. ~job[p].met => job[p].left = (n + 1)..6
    BY <1>1, <2>1 DEF SchemaInv, Placed, Upward
  <2>8. ~job[p].met => k = n + 1
    BY <2>4, <2>5, <2>7
  <2> HIDE DEF v, n
  <2>9. CASE Creatable(v)
    <3>1. k = n + 1
      <4>1. k <= n => Creates(k) \subseteq objects /\ Creates(k) # {}
        BY <2>4, Within, Disjoint
      <4> QED BY <2>4, <2>5, <2>6, <2>9, <4>1 DEF Creatable
    <3>2. /\ objects' = objects \cup Creates(k) /\ applied' = applied \cup {k} /\ version' = k
          /\ job' = [job EXCEPT ![p] = IF job[p].left = {k} THEN Serving
                                       ELSE [job[p] EXCEPT !.left = @ \ {k}]]
      BY <2>6, <2>9 DEF ApplyMigration, v
    <3>3. job[p] \in Job
      BY DEF JobsTyped
    <3>4. /\ \A q \in Procs : q # p => job'[q] = job[q]
          /\ job'[p].at = IF k = 6 THEN "serving" ELSE "up"
          /\ k # 6 => job'[p].left = (k + 1)..6 /\ job'[p].met = job[p].met
      <4>1. CASE k = 6
        BY <2>6, <3>2, <4>1, ServingTyped DEF JobsTyped
      <4>2. CASE k # 6
        <5>1. job' = [job EXCEPT ![p] = [job[p] EXCEPT !.left = @ \ {k}]]
          BY <2>6, <3>2, <4>2
        <5> QED BY <1>1, <2>6, <3>3, <4>2, <5>1 DEF JobsTyped, Job, At
      <4> QED BY <4>1, <4>2
    <3>5. \A q \in Procs : /\ ~Undoing(q)' /\ (Running(q)' => Running(q))
                           /\ At(q, "failed")' => At(q, "failed")
                           /\ Running(q)' \/ At(q, "failed")' => job'[q].met = job[q].met
      BY <1>1, <2>2, <3>4 DEF Undoing, Running, At
    <3>6. CurrentVersion' = k
      BY <3>2 DEF CurrentVersion, NoRow
    <3>7. Stands(k)'
      <4>1. objects' \ Tracking = Schema(k)
        BY <2>4, <3>1, <3>2, Disjoint, Within
      <4>2. applied' = 1..k
        BY <2>4, <3>1, <3>2
      <4> QED BY <4>1, <4>2 DEF Stands, Schema
    <3>8. Apart' /\ Alone' /\ StartFails'
      BY <1>1, <3>5 DEF SchemaInv, Apart, Alone, StartFails, Clean
    <3>9. Settled'
      BY <2>3, <3>2, <3>6, <3>7 DEF Settled, NoRow
    <3>10. Placed'
      <4>1. ASSUME NEW q \in Procs, q # p PROVE Upward(q)'
        <5>1. Upward(q) /\ job'[q] = job[q]
          BY <2>1, <3>4, <4>1 DEF SchemaInv, Placed
        <5>2. Running(q) => job[q].met
          BY <1>1, <2>1, <4>1 DEF SchemaInv, Alone, Running, At
        <5>3. \A j \in 1..6 : j <= n + 1 => j <= k + 1
          BY <2>4, <3>1
        <5>4. At(q, "up") => \E j \in 1..6 : j <= k + 1 /\ job[q].left = j..6
          BY <5>1, <5>3 DEF Upward, n
        <5>5. At(q, "version")' \/ At(q, "up")' => Tracking \subseteq objects'
          BY <2>3, <3>2
        <5>6. At(q, "up")' => job'[q].met
          BY <5>1, <5>2 DEF At, Running
        <5> HIDE DEF Tracking
        <5>7. (At(q, "up")' <=> At(q, "up")) /\ job'[q].left = job[q].left
          BY <5>1 DEF At
        <5> QED BY <1>1, <3>6, <5>4, <5>5, <5>6, <5>7 DEF Upward
      <4>2. Upward(p)'
        <5>1. Tracking \subseteq objects'
          BY <2>3, <3>2
        <5>2. At(p, "up")' => k + 1 \in 1..6 /\ job'[p].left = (k + 1)..6
          BY <3>4 DEF At
        <5> HIDE DEF Tracking
        <5> QED BY <3>6, <5>1, <5>2 DEF Upward
      <4>3. ASSUME NEW q \in Procs PROVE (Downward(q) /\ Dropping(q))'
        BY <3>5, <4>3 DEF Downward, Dropping, Undoing, At
      <4> QED BY <4>1, <4>2, <4>3 DEF Placed
    <3>11. (Clean => objects \subseteq Objects)'
      BY <2>3, <3>2, Disjoint DEF Indexes
    <3> QED BY <3>8, <3>9, <3>10, <3>11 DEF SchemaInv
  <2>10. CASE ~Creatable(v)
    <3>1. job[p].met
      <4> SUFFICES ASSUME ~job[p].met PROVE Creatable(v)
        BY <2>10
      <4>1. v = n + 1 /\ v \in 1..6
        BY <2>5, <2>6, <2>8
      <4>2. Creates(v) \cap objects = {}
        BY <2>4, <4>1, Within, Disjoint
      <4>3. v = 6 => \A t \in DOMAIN IndexedBy : t \in objects
        BY <2>4, <4>1, IndexesOf, Within
      <4>4. v \notin applied
        BY <2>4, <4>1
      <4> QED BY <2>3, <4>2, <4>3, <4>4 DEF Creatable, Latest
    <3>2. Fail(p)
      BY <2>10 DEF ApplyMigration, v
    <3> QED BY <1>1, <2>2, <3>1, <3>2, FailKeeps DEF Fail
  <2> QED BY <2>9, <2>10
<1> QED BY <1>2, <1>3

LEMMA SchemaStill ==
  ASSUME SchemaInv, UNCHANGED <<objects, applied, version, job, harm>>
  PROVE  SchemaInv'
<1>1. CurrentVersion' = CurrentVersion /\ \A n : Stands(n)' <=> Stands(n)
  BY Unwritten
<1>2. \A q : /\ Running(q)' <=> Running(q)
             /\ Undoing(q)' <=> Undoing(q)
             /\ \A place : At(q, place)' <=> At(q, place)
  BY DEF Running, Undoing, At
<1>3. Clean' <=> Clean
  BY DEF Clean
<1>4. Apart' /\ Alone' /\ StartFails'
  BY <1>2, <1>3 DEF SchemaInv, Apart, Alone, StartFails
<1>5. Settled'
  BY <1>1, <1>2, <1>3 DEF SchemaInv, Settled, Settling
<1>6. Placed'
  <2>1. ASSUME Clean, NEW q \in Procs PROVE (Upward(q) /\ Downward(q) /\ Dropping(q))'
    BY <2>1, Alike DEF SchemaInv, Placed, Same
  <2> QED BY <1>3, <2>1 DEF Placed
<1>7. (Clean => objects \subseteq Objects)'
  BY <1>3 DEF SchemaInv
<1> QED BY <1>4, <1>5, <1>6, <1>7 DEF SchemaInv

----------------------------------------------------------------------------
(* rollback_to_version and reset_database.                                 *)

LEMMA Sole ==
  ASSUME SchemaInv, Clean, NEW p \in Procs, Undoing(p)
  PROVE  \A q \in Procs : q # p => ~Running(q) /\ ~Undoing(q)
BY DEF SchemaInv, Apart

\* A step of the only process that runs or undoes anything.
LEMMA LoneKeeps ==
  ASSUME SchemaInv, JobsTyped, NEW p \in Procs,
         \A q \in Procs : q # p => job'[q] = job[q] /\ ~Running(q) /\ ~Undoing(q),
         job'[p].at # "failed", harm \subseteq harm',
         (objects \subseteq Objects)', Settled',
         (Upward(p) /\ Downward(p) /\ Dropping(p))'
  PROVE  SchemaInv'
<1>1. \A q \in Procs : q # p => /\ ~Running(q)' /\ ~Undoing(q)'
                                /\ At(q, "failed")' <=> At(q, "failed")
  BY DEF Running, Undoing, At
<1>2. Apart' /\ Alone'
  BY <1>1 DEF Apart, Alone
<1>3. StartFails'
  BY <1>1 DEF SchemaInv, StartFails, At
<1>4. Placed'
  <2>1. ASSUME NEW q \in Procs, q # p PROVE (Upward(q) /\ Downward(q) /\ Dropping(q))'
    BY <1>1, <2>1 DEF Upward, Downward, Dropping, Running, Undoing, At
  <2> QED BY <2>1 DEF Placed
<1> QED BY <1>2, <1>3, <1>4 DEF SchemaInv

LEMMA RollBackKeeps ==
  ASSUME SchemaInv, JobsTyped, NEW p \in Procs, RollBack(p)
  PROVE  SchemaInv'
<1> DEFINE v == Max(job[p].left)
<1>1. At(p, "down") /\ job[p].left # {} /\ Undoing(p) /\ job[p] \in Job
  BY DEF RollBack, At, Undoing, JobsTyped
<1>2. CASE ~Clean'
  BY <1>2, Harmed
<1>3. CASE Clean'
  <2>1. /\ objects' = objects \ Gone(Creates(v)) /\ applied' = applied \ {v}
        /\ job' = [job EXCEPT ![p].left = @ \ {v}]
        /\ UNCHANGED <<version, harm>>
    BY <1>3 DEF RollBack, Drop, Harm, Clean
  <2>2. Clean
    BY <1>3, <2>1 DEF Clean
  <2>3. \A q \in Procs : q # p => job'[q] = job[q] /\ ~Running(q) /\ ~Undoing(q)
    BY <1>1, <2>1, <2>2, Sole DEF JobsTyped
  <2>4. version # NoRow /\ Tracking \subseteq objects
    BY <1>1, <2>2 DEF SchemaInv, Placed, Downward
  <2>5. PICK n \in 0..6 : /\ Stands(n) /\ job[p].target <= n
                          /\ job[p].left = (job[p].target + 1)..n
    BY <1>1, <2>2 DEF SchemaInv, Placed, Downward
  <2>6. job[p].target \in Nat
    BY <1>1 DEF Job
  <2>7. v = n /\ job[p].left \ {v} = (job[p].target + 1)..(n - 1)
        /\ job[p].target <= n - 1 /\ n \in 1..6
    BY <1>1, <2>5, <2>6, Highest
  <2>8. /\ job'[p].left = job[p].left \ {v} /\ job'[p].at = "down"
        /\ job'[p].target = job[p].target
    BY <1>1, <2>1 DEF JobsTyped, Job, At
  <2> HIDE DEF v
  <2>9. /\ objects' \ Tracking = Schema(n - 1) /\ Tracking \subseteq objects'
    BY <2>1, <2>4, <2>5, <2>7, RolledBack DEF Stands
  <2>10. Stands(n - 1)'
    <3>1. applied' = 1..(n - 1)
      BY <2>1, <2>5, <2>7 DEF Stands
    <3>2. n - 1 \in 0..6
      BY <2>7
    <3> QED BY <2>9, <3>1, <3>2 DEF Stands, Schema
  <2>11. Downward(p)'
    <3>1. n - 1 \in 0..6
      BY <2>7
    <3> QED BY <2>1, <2>4, <2>7, <2>8, <2>9, <2>10, <3>1 DEF Downward
  <2>12. Upward(p)' /\ Dropping(p)' /\ Settled'
    BY <2>8 DEF Upward, Dropping, Settled, Settling, Undoing, At
  <2>13. (objects \subseteq Objects)'
    BY <2>1, <2>2 DEF SchemaInv
  <2> QED BY <2>1, <2>3, <2>8, <2>11, <2>12, <2>13, LoneKeeps
<1> QED BY <1>2, <1>3

LEMMA WriteVersionKeeps ==
  ASSUME SchemaInv, JobsTyped, NEW p \in Procs, WriteVersion(p)
  PROVE  SchemaInv'
<1>1. At(p, "down") /\ job[p].left = {} /\ Undoing(p) /\ job[p] \in Job
  BY DEF WriteVersion, At, Undoing, JobsTyped
<1>2. CASE ~Clean'
  BY <1>2, Harmed
<1>3. CASE Clean'
  <2>1. /\ version' = job[p].target /\ job' = [job EXCEPT ![p] = Serving]
        /\ UNCHANGED <<objects, applied, harm>>
    BY <1>3 DEF WriteVersion, Harm, Clean
  <2>2. Clean
    BY <1>3, <2>1 DEF Clean
  <2>3. /\ \A q \in Procs : q # p => job'[q] = job[q] /\ ~Running(q) /\ ~Undoing(q)
        /\ job'[p].at = "serving"
    BY <1>1, <2>1, <2>2, Sole, ServingTyped DEF JobsTyped
  <2>4. Tracking \subseteq objects /\ objects \subseteq Objects
    BY <1>1, <2>2 DEF SchemaInv, Placed, Downward
  <2>5. PICK n \in 0..6 : /\ Stands(n) /\ job[p].target <= n
                          /\ job[p].left = (job[p].target + 1)..n
    BY <1>1, <2>2 DEF SchemaInv, Placed, Downward
  <2>6. job[p].target = n
    <3>1. job[p].target \in Nat
      BY <1>1 DEF Job
    <3>2. job[p].target < n => n \in (job[p].target + 1)..n
      BY <3>1
    <3>3. ~(job[p].target < n)
      BY <1>1, <2>5, <3>2
    <3> QED BY <2>5, <3>1, <3>3
  <2>7. version' = n /\ version' # NoRow /\ CurrentVersion' = n
    BY <2>1, <2>6 DEF CurrentVersion, NoRow
  <2>8. Stands(n)'
    BY <2>1, <2>5 DEF Stands, Schema
  <2>9. Settled'
    BY <2>1, <2>4, <2>7, <2>8 DEF Settled
  <2>10. (Upward(p) /\ Downward(p) /\ Dropping(p))'
    BY <2>3 DEF Upward, Downward, Dropping, At
  <2> QED BY <2>1, <2>3, <2>4, <2>9, <2>10, LoneKeeps
<1> QED BY <1>2, <1>3

\* What a rollback or a reset finds that no other job overlaps.
LEMMA Alonely ==
  ASSUME SchemaInv, NEW p \in Procs, At(p, "serving"), Harm(Mixed(p)), Clean'
  PROVE  /\ Clean /\ harm \subseteq harm'
         /\ \A q \in Procs : q # p => ~Running(q) /\ ~Undoing(q)
         /\ Stands(CurrentVersion) /\ objects \subseteq Objects
         /\ version = NoRow => applied = {}
         /\ version # NoRow => Tracking \subseteq objects
<1>1. Clean /\ harm \subseteq harm'
  BY DEF Harm, Clean
<1>2. \A q \in Procs : q # p => ~Running(q) /\ ~Undoing(q)
  BY DEF Harm, Clean, Mixed, Others
<1>3. Settling
  BY <1>2 DEF Settling, Undoing, At
<1> QED BY <1>1, <1>2, <1>3 DEF SchemaInv, Settled

LEMMA StartRollbackKeeps ==
  ASSUME SchemaInv, JobsTyped, NEW p \in Procs, NEW target \in Targets, StartRollback(p, target)
  PROVE  SchemaInv'
<1> DEFINE n == CurrentVersion
           steps == {v \in Versions : target < v /\ v <= n}
<1>1. CASE ~Clean'
  BY <1>1, Harmed
<1>2. CASE Clean'
  <2>1. /\ At(p, "serving") /\ Harm(Mixed(p)) /\ target < n /\ target \in Nat
        /\ job' = [job EXCEPT ![p] = [Idle EXCEPT !.at = "down", !.target = target,
                                                  !.left = steps]]
        /\ UNCHANGED <<objects, applied, version>>
    BY TargetAssumption DEF StartRollback
  <2>2. /\ harm \subseteq harm' /\ objects \subseteq Objects
        /\ \A q \in Procs : q # p => ~Running(q) /\ ~Undoing(q)
        /\ Stands(n)
        /\ version = NoRow => applied = {}
        /\ version # NoRow => Tracking \subseteq objects
    BY <1>2, <2>1, Alonely
  <2>3. n \in 0..6 /\ steps = (target + 1)..n
    BY <2>1, <2>2, Created DEF Stands
  <2>4. version # NoRow
    BY <2>1, <2>2 DEF CurrentVersion, Newest
  <2>5. /\ \A q \in Procs : q # p => job'[q] = job[q]
        /\ job'[p].at = "down" /\ job'[p].target = target /\ job'[p].left = steps
    <3> HIDE DEF steps
    <3> QED BY <2>1 DEF JobsTyped, Idle
  <2>6. Stands(n)' <=> Stands(n)
    <3> HIDE DEF n
    <3>1. n' = n
      BY <2>1, Unwritten DEF n
    <3> QED BY <2>1, <3>1 DEF Stands, Schema
  <2>7. Downward(p)'
    <3>1. \A m : Stands(m)' <=> Stands(m)
      BY <2>1, Unwritten
    <3> HIDE DEF n, steps
    <3> QED BY <2>1, <2>2, <2>3, <2>4, <2>5, <3>1 DEF Downward
  <2>8. Upward(p)' /\ Dropping(p)' /\ Settled'
    BY <2>5 DEF Upward, Dropping, Settled, Settling, Undoing, At
  <2> QED BY <2>1, <2>2, <2>5, <2>7, <2>8, LoneKeeps
<1> QED BY <1>1, <1>2

LEMMA StartResetKeeps ==
  ASSUME SchemaInv, JobsTyped, NEW p \in Procs, StartReset(p)
  PROVE  SchemaInv'
<1> DEFINE n == CurrentVersion
<1>1. CASE ~Clean'
  BY <1>1, Harmed
<1>2. CASE Clean'
  <2>1. /\ At(p, "serving") /\ Harm(Mixed(p))
        /\ job' = [job EXCEPT ![p] = [Idle EXCEPT !.at = "drop", !.names = objects \cap Tables]]
        /\ UNCHANGED <<objects, applied, version>>
    BY DEF StartReset
  <2>2. /\ harm \subseteq harm' /\ objects \subseteq Objects
        /\ \A q \in Procs : q # p => ~Running(q) /\ ~Undoing(q)
        /\ Stands(n)
        /\ version = NoRow => applied = {}
        /\ version # NoRow => Tracking \subseteq objects
    BY <1>2, <2>1, Alonely
  <2>3. /\ \A q \in Procs : q # p => job'[q] = job[q]
        /\ job'[p].at = "drop" /\ job'[p].names = objects \cap Tables
    BY <2>1 DEF JobsTyped, Idle
  <2>4. /\ "schema_migrations" \notin objects => applied = {}
        /\ "schema_metadata" \notin objects => version = NoRow
    BY <2>2 DEF Tracking
  <2>5. ASSUME NEW t \in DOMAIN IndexedBy, t \notin objects
        PROVE  IndexedBy[t] \cap objects = {}
    <3> HIDE DEF n
    <3>1. n \in 0..6 /\ objects \ Tracking = Schema(n)
      BY <2>2 DEF Stands
    <3>2. t \in Creates(1) \cup Creates(2)
      BY IndexesOf
    <3>3. t \notin Schema(n)
      BY <2>5, <3>1
    <3>4. n < 2
      BY <3>1, <3>2, <3>3, Within
    <3>5. Creates(6) \cap Schema(n) = {}
      BY <3>1, <3>4, Within
    <3>6. Indexes \cap objects = {}
      BY <3>1, <3>5, Disjoint DEF Indexes
    <3> QED BY <3>6, IndexesOf
  <2>6. Dropping(p)'
    BY <2>1, <2>3, <2>4, <2>5 DEF Dropping
  <2>7. Upward(p)' /\ Downward(p)' /\ Settled'
    BY <2>3 DEF Upward, Downward, Settled, Settling, Undoing, At
  <2> QED BY <2>1, <2>2, <2>3, <2>6, <2>7, LoneKeeps
<1> QED BY <1>1, <1>2

LEMMA DropTableKeeps ==
  ASSUME SchemaInv, JobsTyped, NEW p \in Procs, DropTable(p)
  PROVE  SchemaInv'
<1>1. At(p, "drop") /\ Undoing(p) /\ job[p] \in Job
  BY DEF DropTable, At, Undoing, JobsTyped
<1>2. CASE ~Clean'
  BY <1>2, Harmed
<1>3. CASE Clean'
  <2>1. PICK t \in job[p].names :
          /\ objects' = objects \ Gone({t})
          /\ applied' = IF t = "schema_migrations" THEN {} ELSE applied
          /\ version' = IF t = "schema_metadata" THEN NoRow ELSE version
          /\ job' = [job EXCEPT ![p].names = @ \ {t}]
          /\ UNCHANGED harm
    <3>1. PICK t \in Listed(job[p].names) :
            IF Droppable({t})
            THEN /\ Drop({t})
                 /\ applied' = IF t = "schema_migrations" THEN {} ELSE applied
                 /\ version' = IF t = "schema_metadata" THEN NoRow ELSE version
                 /\ job' = [job EXCEPT ![p].names = @ \ {t}]
                 /\ UNCHANGED <<undos, harm>>
            ELSE Fail(p) /\ Harm({"reset"})
      BY DEF DropTable
    <3>2. ~Harm({"reset"})
      BY <1>3 DEF Harm, Clean
    <3>3. t \in job[p].names
      BY DEF Listed
    <3> QED BY <3>1, <3>2, <3>3 DEF Drop
  <2>2. Clean
    BY <1>3, <2>1 DEF Clean
  <2>3. /\ \A q \in Procs : q # p => job'[q] = job[q] /\ ~Running(q) /\ ~Undoing(q)
        /\ job'[p].at = "drop" /\ job'[p].names = job[p].names \ {t}
    BY <1>1, <2>1, <2>2, Sole DEF JobsTyped, Job, At
  <2>4. /\ job[p].names = objects \cap Tables
        /\ "schema_migrations" \notin objects => applied = {}
        /\ "schema_metadata" \notin objects => version = NoRow
        /\ \A u \in DOMAIN IndexedBy : u \notin objects => IndexedBy[u] \cap objects = {}
        /\ objects \subseteq Objects
    BY <1>1, <2>2 DEF SchemaInv, Placed, Dropping
  <2>5. /\ t \in Gone({t}) /\ Gone({t}) \subseteq {t} \cup Indexes
        /\ t \in DOMAIN IndexedBy => IndexedBy[t] \subseteq Gone({t})
    BY IndexesOf DEF Gone
  <2>6. \A u \in Tables : u \in Gone({t}) => u = t
    BY <2>5, Disjoint
  <2>7. job'[p].names = objects' \cap Tables
    BY <2>1, <2>3, <2>4, <2>5, <2>6
  <2>8. /\ "schema_migrations" \notin objects' => applied' = {}
        /\ "schema_metadata" \notin objects' => version' = NoRow
    <3>1. "schema_migrations" \in Tables /\ "schema_metadata" \in Tables
      BY Disjoint DEF Tracking
    <3> QED BY <2>1, <2>4, <2>6, <3>1
  <2>9. \A u \in DOMAIN IndexedBy : u \notin objects' => IndexedBy[u] \cap objects' = {}
    <3>1. DOMAIN IndexedBy \subseteq Tables
      BY IndexesOf, Disjoint
    <3> QED BY <2>1, <2>4, <2>5, <2>6, <3>1
  <2>10. Dropping(p)'
    BY <2>7, <2>8, <2>9 DEF Dropping
  <2>11. Upward(p)' /\ Downward(p)' /\ Settled'
    BY <2>3 DEF Upward, Downward, Settled, Settling, Undoing, At
  <2>12. (objects \subseteq Objects)'
    BY <2>1, <2>4
  <2> QED BY <2>1, <2>3, <2>10, <2>11, <2>12, LoneKeeps
<1> QED BY <1>2, <1>3

LEMMA RunAgainKeeps ==
  ASSUME SchemaInv, JobsTyped, NEW p \in Procs, RunAgain(p)
  PROVE  SchemaInv'
<1>1. /\ At(p, "drop") /\ Undoing(p) /\ job[p].names = {} /\ Enter(p, "ensure")
      /\ UNCHANGED <<objects, applied, version, harm>>
  BY DEF RunAgain, At, Undoing
<1>2. CASE ~Clean'
  BY <1>2, Harmed
<1>3. CASE Clean'
  <2>1. Clean
    BY <1>1, <1>3 DEF Clean
  <2>2. /\ \A q \in Procs : q # p => job'[q] = job[q] /\ ~Running(q) /\ ~Undoing(q)
        /\ job'[p].at = "ensure"
    BY <1>1, <2>1, Sole DEF Enter, JobsTyped, Job
  <2>3. /\ objects \cap Tables = {} /\ objects \subseteq Objects
        /\ "schema_migrations" \notin objects => applied = {}
        /\ "schema_metadata" \notin objects => version = NoRow
        /\ \A u \in DOMAIN IndexedBy : u \notin objects => IndexedBy[u] \cap objects = {}
    BY <1>1, <2>1 DEF SchemaInv, Placed, Dropping
  <2>4. applied = {} /\ version = NoRow
    BY <2>3, Disjoint DEF Tracking
  <2>5. objects = {}
    <3>1. DOMAIN IndexedBy \subseteq Tables
      BY IndexesOf, Disjoint
    <3>2. Indexes \cap objects = {}
      BY <2>3, <3>1, IndexesOf
    <3> QED BY <2>3, <3>2, Disjoint
  <2>6. CurrentVersion' = 0
    BY <1>1, <2>4 DEF CurrentVersion, Newest
  <2>7. Stands(0)'
    <3>1. objects' \ Tracking = Schema(0) /\ applied' = 1..0
      BY <1>1, <2>4, <2>5, Growing
    <3> QED BY <3>1 DEF Stands, Schema
  <2>8. Settled'
    BY <1>1, <2>4, <2>6, <2>7 DEF Settled
  <2>9. (Upward(p) /\ Downward(p) /\ Dropping(p))'
    BY <2>2 DEF Upward, Downward, Dropping, At
  <2>10. job'[p].at # "failed" /\ harm \subseteq harm' /\ (objects \subseteq Objects)'
    BY <1>1, <2>2, <2>3
  <2> QED BY <2>2, <2>8, <2>9, <2>10, LoneKeeps
<1> QED BY <1>2, <1>3

----------------------------------------------------------------------------
(* The steps of NodeStartNext.                                             *)

LEMMA StepKeeps ==
  ASSUME SchemaInv, JobsTyped, NEW p \in Procs, Step(p)
  PROVE  SchemaInv'
BY EnsureKeeps, ReadVersionKeeps, ApplyKeeps, RollBackKeeps, WriteVersionKeeps, DropTableKeeps,
   RunAgainKeeps DEF Step

LEMMA SchemaKept ==
  SchemaInv /\ JobsTyped /\ [NodeStartNext]_startVars => SchemaInv'
<1> SUFFICES ASSUME SchemaInv, JobsTyped, [NodeStartNext]_startVars PROVE SchemaInv'
  OBVIOUS
<1>1. CASE Starting
  <2>1. ASSUME NEW p \in Procs, NEW c \in Given, Launch(p, c) PROVE SchemaInv'
    <3>1. ~Undoing(p) /\ BeginRun(p)
      BY <2>1 DEF Launch, RunMigrations, Undoing, At
    <3> QED BY <3>1, EnteringKeeps
  <2>2. ASSUME NEW p \in Procs, MigrateAgain(p) PROVE SchemaInv'
    <3>1. ~Undoing(p) /\ BeginRun(p)
      BY <2>2 DEF MigrateAgain, Ready, Undoing, At
    <3> QED BY <3>1, EnteringKeeps
  <2>3. ASSUME NEW p \in Procs, Migrating(p) PROVE SchemaInv'
    BY <2>3, StepKeeps DEF Migrating
  <2>4. ASSUME NEW p \in Procs, End(p) PROVE SchemaInv'
    BY <2>4, StopKeeps DEF End
  <2> QED BY <1>1, <2>1, <2>2, <2>3, <2>4 DEF Starting
<1>2. CASE Undoings
  <2>1. ASSUME NEW p \in Procs, Undo(p) PROVE SchemaInv'
    BY <2>1, StartResetKeeps, StartRollbackKeeps DEF Undo
  <2>2. ASSUME NEW t, Insert(t) PROVE SchemaInv'
    <3>1. UNCHANGED <<objects, applied, version, job, harm>>
      BY <2>2 DEF Insert, AddRow
    <3> QED BY <3>1, SchemaStill
  <2> QED BY <1>2, <2>1, <2>2 DEF Undoings
<1>3. CASE Naming
  <2>1. UNCHANGED <<objects, applied, version, job, harm>>
    BY <1>3 DEF Naming, CheckNode, InitializeNode, GetNodeInfo, migrationVars
  <2> QED BY <2>1, SchemaStill
<1>4. CASE UNCHANGED startVars
  <2>1. UNCHANGED <<objects, applied, version, job, harm>>
    BY <1>4 DEF startVars, migrationVars
  <2> QED BY <2>1, SchemaStill
<1> QED BY <1>1, <1>2, <1>3, <1>4 DEF NodeStartNext

LEMMA SchemaStarts == NodeStartInit => SchemaInv
<1> SUFFICES ASSUME NodeStartInit PROVE SchemaInv
  OBVIOUS
<1>1. /\ objects = {} /\ applied = {} /\ version = NoRow /\ harm = {}
      /\ job = [p \in Procs |-> Idle]
  BY DEF NodeStartInit, MigrationsInit
<1>2. \A p \in Procs : job[p].at = "idle"
  BY <1>1, IdleTyped
<1>3. Apart /\ Alone /\ StartFails /\ Placed
  BY <1>2 DEF Apart, Alone, StartFails, Placed, Upward, Downward, Dropping, Running, Undoing, At
<1>4. Settled
  <2>1. CurrentVersion = 0
    BY <1>1 DEF CurrentVersion, Newest
  <2>2. Stands(0)
    BY <1>1, Growing DEF Stands
  <2> QED BY <1>1, <2>1, <2>2 DEF Settled
<1> QED BY <1>1, <1>3, <1>4 DEF SchemaInv

LEMMA SchemaAlways == NodeStartSpec => []SchemaInv
<1>1. IdInv => JobsTyped
  BY DEF IdInv
<1> QED BY <1>1, IdAlways, SchemaStarts, SchemaKept, PTL DEF NodeStartSpec

\* Whatever processes start, overlap and stop, a run leaves the tables and indexes of the
\* version that is written, and so do a rollback and a reset that nothing overlaps and
\* that end.
THEOREM SchemaStands == NodeStartSpec => []SchemaMatches
<1>1. SchemaInv => SchemaMatches
  BY DEF SchemaInv, SchemaMatches, Settled, Settling, Clean, Stands, Consistent
<1> QED BY <1>1, SchemaAlways, PTL

\* Where no rollback or reset was stopped, or overlapped, a start that fails has had another
\* one beside it: one that is alone succeeds, whatever overlapped, failed or stopped before.
THEOREM StartsSucceed == NodeStartSpec => []StartFails
<1>1. SchemaInv => StartFails
  BY DEF SchemaInv
<1> QED BY <1>1, SchemaAlways, PTL

(***************************************************************************)
(* The types of the schema, whatever harm is done to it.                   *)
(***************************************************************************)

\* A process that has nothing left to apply has come to its end.
Advancing == \A p \in Procs : At(p, "up") => job[p].left # {}

CatalogueInv == MigrationsTypeOK /\ Advancing

LEMMA LeastIs ==
  ASSUME NEW S \in SUBSET (1..6), S # {}
  PROVE  Min(S) \in S
<1>1. \A x \in S : x \in {1, 2, 3, 4, 5, 6}
  OBVIOUS
<1>2. PICK x \in S : \A y \in S : x <= y
  <2>1. CASE 1 \in S
    BY <2>1
  <2>2. CASE 1 \notin S /\ 2 \in S
    BY <2>2
  <2>3. CASE 1 \notin S /\ 2 \notin S /\ 3 \in S
    BY <2>3
  <2>4. CASE 1 \notin S /\ 2 \notin S /\ 3 \notin S /\ 4 \in S
    BY <2>4
  <2>5. CASE 1 \notin S /\ 2 \notin S /\ 3 \notin S /\ 4 \notin S /\ 5 \in S
    BY <2>5
  <2>6. CASE 1 \notin S /\ 2 \notin S /\ 3 \notin S /\ 4 \notin S /\ 5 \notin S
    <3>1. \A x \in S : x = 6
      BY <1>1, <2>6
    <3>2. PICK x \in S : TRUE
      OBVIOUS
    <3> QED BY <3>1, <3>2
  <2> QED BY <2>1, <2>2, <2>3, <2>4, <2>5, <2>6
<1> QED BY <1>2 DEF Min

\* A table that goes takes its rows, and indexes have none.
LEMMA DropTyped ==
  ASSUME MigrationsTypeOK, NEW names, Drop(names)
  PROVE  objects' \subseteq Objects /\ filled' \subseteq DataTables \cap objects'
<1>1. \A t \in filled : t \in Tables /\ t \notin Indexes
  BY TableAssumption, Disjoint DEF MigrationsTypeOK
<1>2. \A t \in filled : t \notin names => t \notin Gone(names)
  BY <1>1, IndexesOf DEF Gone
<1> QED BY <1>2 DEF MigrationsTypeOK, Drop

LEMMA FailTyped ==
  ASSUME CatalogueInv, NEW p \in Procs, Fail(p), job' \in [Procs -> Job],
         NEW kinds \in SUBSET Harms, harm' = harm \/ harm' = harm \cup kinds
  PROVE  CatalogueInv'
<1>1. /\ job' = [job EXCEPT ![p].at = "failed"]
      /\ UNCHANGED <<objects, filled, applied, version, undos>>
  BY DEF Fail, Enter
<1>2. MigrationsTypeOK'
  BY <1>1 DEF CatalogueInv, MigrationsTypeOK
<1>3. Advancing'
  BY <1>1 DEF CatalogueInv, MigrationsTypeOK, Job, Advancing, At
<1> QED BY <1>2, <1>3 DEF CatalogueInv

\* A process that is not about to apply anything.
LEMMA NotUp ==
  ASSUME CatalogueInv, NEW p \in Procs, job' \in [Procs -> Job],
         \A q \in Procs : q # p => job'[q].at = job[q].at /\ job'[q].left = job[q].left,
         job'[p].at # "up"
  PROVE  Advancing'
BY DEF CatalogueInv, Advancing, At

LEMMA UpwardTyped ==
  ASSUME CatalogueInv, NEW p \in Procs, JobsTyped', \A q \in Procs : q # p => job'[q] = job[q],
         EnsureMigrationTable(p) \/ ReadVersion(p) \/ ApplyMigration(p)
  PROVE  CatalogueInv'
<1>0. job' \in [Procs -> Job] /\ job[p] \in Job /\ {} \in SUBSET Harms
  BY DEF JobsTyped, CatalogueInv, MigrationsTypeOK
<1>1. CASE Fail(p) /\ UNCHANGED harm
  BY <1>0, <1>1, FailTyped
<1>2. CASE EnsureMigrationTable(p)
  <2>1. Tracking \subseteq Objects
    BY Disjoint
  <2>2. MigrationsTypeOK'
    BY <1>0, <1>2, <2>1 DEF CatalogueInv, MigrationsTypeOK, EnsureMigrationTable
  <2>3. job'[p].at = "version"
    BY <1>2 DEF EnsureMigrationTable, Enter, CatalogueInv, MigrationsTypeOK, Job
  <2> QED BY <1>0, <2>2, <2>3, NotUp DEF CatalogueInv
<1>3. CASE /\ job' = [job EXCEPT ![p] =
                IF Pending(CurrentVersion) = {} THEN Serving
                ELSE [job[p] EXCEPT !.at = "up", !.left = Pending(CurrentVersion)]]
           /\ UNCHANGED <<objects, filled, applied, version, undos, harm>>
  <2>1. MigrationsTypeOK'
    BY <1>0, <1>3 DEF CatalogueInv, MigrationsTypeOK
  <2>2. job'[p] = IF Pending(CurrentVersion) = {} THEN Serving
                  ELSE [job[p] EXCEPT !.at = "up", !.left = Pending(CurrentVersion)]
    BY <1>3 DEF CatalogueInv, MigrationsTypeOK
  <2>3. job'[p].at = "up" => job'[p].left # {}
    BY <1>0, <2>2, ServingTyped DEF Job
  <2>4. \A q \in Procs : q # p => job'[q] = job[q]
    BY <1>3
  <2> QED BY <2>1, <2>3, <2>4 DEF CatalogueInv, Advancing, At
<1>4. CASE ApplyMigration(p) /\ ~Fail(p)
  <2> DEFINE v == Min(job[p].left)
  <2>1. job[p].left # {} /\ job[p].left \in SUBSET (1..6)
    BY <1>0, <1>4, Created DEF CatalogueInv, Advancing, ApplyMigration, Job
  <2>2. v \in job[p].left /\ v \in 1..6
    BY <2>1, LeastIs
  <2> HIDE DEF v
  <2>3. /\ objects' = objects \cup Creates(v) /\ applied' = applied \cup {v} /\ version' = v
        /\ job' = [job EXCEPT ![p] = IF job[p].left = {v} THEN Serving
                                     ELSE [job[p] EXCEPT !.left = @ \ {v}]]
        /\ UNCHANGED <<filled, undos, harm>>
    BY <1>4 DEF ApplyMigration, v
  <2>4. Creates(v) \subseteq Objects /\ v \in Versions
    <3>1. v \in 1..5 \/ v = 6
      BY <2>2
    <3> QED BY <2>2, <3>1, Disjoint, Created DEF Indexes
  <2>5. MigrationsTypeOK'
    BY <1>0, <2>2, <2>3, <2>4 DEF CatalogueInv, MigrationsTypeOK
  <2>6. job'[p] = IF job[p].left = {v} THEN Serving ELSE [job[p] EXCEPT !.left = @ \ {v}]
    BY <2>3 DEF CatalogueInv, MigrationsTypeOK
  <2>7. job'[p].at = "up" => job'[p].left # {}
    BY <1>0, <2>1, <2>6, ServingTyped DEF Job
  <2> QED BY <2>5, <2>7 DEF CatalogueInv, Advancing, At
<1> QED BY <1>1, <1>2, <1>3, <1>4 DEF ReadVersion, ApplyMigration

LEMMA DownwardTyped ==
  ASSUME CatalogueInv, NEW p \in Procs, JobsTyped', \A q \in Procs : q # p => job'[q] = job[q],
         RollBack(p) \/ WriteVersion(p) \/ DropTable(p) \/ RunAgain(p)
  PROVE  CatalogueInv'
<1>0. /\ job' \in [Procs -> Job] /\ job[p] \in Job
      /\ {"stopped"} \in SUBSET Harms /\ {"reset"} \in SUBSET Harms
  BY DEF JobsTyped, CatalogueInv, MigrationsTypeOK, Harms
<1>1. CASE Fail(p) /\ (Harm({"stopped"}) \/ Harm({"reset"}))
  BY <1>0, <1>1, FailTyped DEF Harm
<1>2. ASSUME NEW v, At(p, "down"), Drop(Creates(v)), applied' = applied \ {v},
             job' = [job EXCEPT ![p].left = @ \ {v}], UNCHANGED <<version, undos, harm>>
      PROVE  CatalogueInv'
  <2>1. MigrationsTypeOK'
    BY <1>0, <1>2, DropTyped DEF CatalogueInv, MigrationsTypeOK
  <2>2. job'[p].at = "down"
    BY <1>0, <1>2 DEF CatalogueInv, MigrationsTypeOK, Job, At
  <2> QED BY <1>0, <2>1, <2>2, NotUp DEF CatalogueInv
<1>3. CASE /\ version' = job[p].target
           /\ job' = [job EXCEPT ![p] = Serving]
           /\ UNCHANGED <<objects, filled, applied, undos, harm>>
  <2>1. MigrationsTypeOK'
    BY <1>0, <1>3 DEF CatalogueInv, MigrationsTypeOK, Job
  <2>2. job'[p].at = "serving"
    BY <1>3, ServingTyped DEF CatalogueInv, MigrationsTypeOK
  <2> QED BY <1>0, <2>1, <2>2, NotUp DEF CatalogueInv
<1>4. ASSUME NEW t, At(p, "drop"), Drop({t}), job' = [job EXCEPT ![p].names = @ \ {t}],
             applied' \in {{}, applied}, version' \in {NoRow, version}, UNCHANGED <<undos, harm>>
      PROVE  CatalogueInv'
  <2>1. MigrationsTypeOK'
    BY <1>0, <1>4, DropTyped DEF CatalogueInv, MigrationsTypeOK
  <2>2. job'[p].at = "drop"
    BY <1>0, <1>4 DEF CatalogueInv, MigrationsTypeOK, Job, At
  <2> QED BY <1>0, <2>1, <2>2, NotUp DEF CatalogueInv
<1>5. CASE RunAgain(p)
  <2>1. MigrationsTypeOK'
    BY <1>0, <1>5 DEF CatalogueInv, MigrationsTypeOK, RunAgain
  <2>2. job'[p].at = "ensure"
    BY <1>5 DEF RunAgain, Enter, CatalogueInv, MigrationsTypeOK, Job
  <2> QED BY <1>0, <2>1, <2>2, NotUp DEF CatalogueInv
<1>6. CASE RollBack(p)
  BY <1>1, <1>2, <1>6 DEF RollBack
<1>7. CASE WriteVersion(p)
  BY <1>1, <1>3, <1>7 DEF WriteVersion
<1>8. CASE DropTable(p)
  BY <1>1, <1>4, <1>8 DEF DropTable
<1> QED BY <1>5, <1>6, <1>7, <1>8

\* Starts, ends, and the beginnings of rollbacks and resets.
LEMMA BoundaryTyped ==
  ASSUME CatalogueInv, NEW p \in Procs, JobsTyped',
         \A q \in Procs : q # p => job'[q].at = job[q].at /\ job'[q].left = job[q].left,
         job'[p].at # "up", UNCHANGED <<objects, filled, applied, version>>,
         NEW kinds \in SUBSET Harms, Harm(kinds), undos' \in {undos, undos + 1},
         undos' = undos \/ undos < MaxUndos
  PROVE  CatalogueInv'
<1>1. undos' \in 0..MaxUndos
  BY TargetAssumption DEF CatalogueInv, MigrationsTypeOK
<1>2. MigrationsTypeOK'
  BY <1>1 DEF CatalogueInv, MigrationsTypeOK, Harm, JobsTyped
<1> QED BY <1>2, NotUp DEF CatalogueInv, JobsTyped

LEMMA RunTyped ==
  ASSUME CatalogueInv, NEW p \in Procs, JobsTyped, JobsTyped', BeginRun(p)
  PROVE  CatalogueInv'
<1>1. Disturbing(p) \in SUBSET Harms
  BY DEF Disturbing, Harms
<1>2. /\ job'[p].at = "ensure"
      /\ \A q \in Procs : q # p => job'[q].at = job[q].at /\ job'[q].left = job[q].left
  BY Beginning DEF Same
<1> HIDE DEF Disturbing
<1> QED BY <1>1, <1>2, BoundaryTyped DEF BeginRun

LEMMA StopTyped ==
  ASSUME CatalogueInv, NEW p \in Procs, JobsTyped', Stop(p)
  PROVE  CatalogueInv'
<1> DEFINE kinds == IF At(p, "down") THEN {"stopped"} ELSE IF At(p, "drop") THEN {"reset"} ELSE {}
<1>1. kinds \in SUBSET Harms
  BY DEF Harms
<1>2. harm' = harm \cup kinds /\ UNCHANGED <<objects, filled, applied, version, undos>>
  BY DEF Stop, Harm
<1>3. job'[p].at = "idle" /\ \A q \in Procs : q # p => job'[q] = job[q]
  BY IdleTyped DEF Stop, CatalogueInv, MigrationsTypeOK
<1> HIDE DEF kinds
<1> QED BY <1>1, <1>2, <1>3, BoundaryTyped DEF Harm

LEMMA UndoTyped ==
  ASSUME CatalogueInv, NEW p \in Procs, JobsTyped',
         StartReset(p) \/ \E target \in Targets : StartRollback(p, target)
  PROVE  CatalogueInv'
<1>1. Mixed(p) \in SUBSET Harms
  BY DEF Mixed, Harms
<1>2. /\ UNCHANGED <<objects, filled, applied, version>> /\ undos < MaxUndos
      /\ undos' = undos + 1 /\ Harm(Mixed(p))
  <2>1. ASSUME NEW target \in Targets, StartRollback(p, target)
        PROVE  /\ UNCHANGED <<objects, filled, applied, version>> /\ undos < MaxUndos
               /\ undos' = undos + 1 /\ Harm(Mixed(p))
    BY <2>1, Zenon DEF StartRollback
  <2> QED BY <2>1 DEF StartReset
<1>3. job'[p].at # "up" /\ \A q \in Procs : q # p => job'[q] = job[q]
  <2>0. DOMAIN Idle = {"at", "left", "names", "target", "met"} /\ job \in [Procs -> Job]
    BY DEF Idle, CatalogueInv, MigrationsTypeOK
  <2>1. CASE StartReset(p)
    <3>1. job'[p] = [Idle EXCEPT !.at = "drop", !.names = objects \cap Tables]
      BY <2>0, <2>1 DEF StartReset
    <3>2. job'[p].at = "drop"
      BY <2>0, <3>1
    <3> QED BY <2>0, <2>1, <3>2 DEF StartReset
  <2>2. ASSUME NEW target \in Targets, StartRollback(p, target)
        PROVE  job'[p].at # "up" /\ \A q \in Procs : q # p => job'[q] = job[q]
    <3> DEFINE left == {v \in Versions : target < v /\ v <= CurrentVersion}
    <3>1. job' = [job EXCEPT ![p] = [Idle EXCEPT !.at = "down", !.target = target, !.left = left]]
      BY <2>2, Zenon DEF StartRollback
    <3> HIDE DEF left
    <3>2. job'[p] = [Idle EXCEPT !.at = "down", !.target = target, !.left = left]
      BY <2>0, <3>1
    <3>3. job'[p].at = "down"
      BY <2>0, <3>2
    <3> QED BY <2>0, <3>1, <3>3
  <2> QED BY <2>1, <2>2
<1> QED BY <1>1, <1>2, <1>3, BoundaryTyped

LEMMA CatalogueSame ==
  ASSUME CatalogueInv, UNCHANGED <<objects, applied, version, job, undos, harm>>,
         filled' \subseteq DataTables \cap objects
  PROVE  CatalogueInv'
BY DEF CatalogueInv, MigrationsTypeOK, Advancing, At

LEMMA CatalogueKept ==
  IdInv /\ IdInv' /\ CatalogueInv /\ [NodeStartNext]_startVars => CatalogueInv'
<1> SUFFICES ASSUME IdInv, IdInv', CatalogueInv, [NodeStartNext]_startVars PROVE CatalogueInv'
  OBVIOUS
<1>0. JobsTyped /\ JobsTyped'
  BY DEF IdInv
<1>1. CASE Starting
  <2>1. ASSUME NEW p \in Procs, NEW c \in Given, Launch(p, c) PROVE CatalogueInv'
    BY <1>0, <2>1, RunTyped DEF Launch, RunMigrations
  <2>2. ASSUME NEW p \in Procs, Migrating(p) PROVE CatalogueInv'
    <3>1. Step(p) /\ \A q \in Procs : q # p => job'[q] = job[q]
      BY <1>0, <2>2, Stepping DEF Migrating, Moves
    <3> QED BY <1>0, <3>1, UpwardTyped, DownwardTyped DEF Step
  <2>3. ASSUME NEW p \in Procs, MigrateAgain(p) PROVE CatalogueInv'
    BY <1>0, <2>3, RunTyped DEF MigrateAgain
  <2>4. ASSUME NEW p \in Procs, End(p) PROVE CatalogueInv'
    BY <1>0, <2>4, StopTyped DEF End
  <2> QED BY <1>1, <2>1, <2>2, <2>3, <2>4 DEF Starting
<1>2. CASE Undoings
  <2>1. ASSUME NEW p \in Procs, Undo(p) PROVE CatalogueInv'
    BY <1>0, <2>1, UndoTyped DEF Undo
  <2>2. ASSUME NEW t \in DataTables, Insert(t) PROVE CatalogueInv'
    <3>1. UNCHANGED <<objects, applied, version, job, undos, harm>>
          /\ filled' \subseteq DataTables \cap objects
      BY <2>2 DEF Insert, AddRow, CatalogueInv, MigrationsTypeOK
    <3> QED BY <3>1, CatalogueSame
  <2> QED BY <1>2, <2>1, <2>2 DEF Undoings
<1>3. CASE Naming \/ UNCHANGED startVars
  <2>1. UNCHANGED migrationVars
    BY <1>3 DEF Naming, CheckNode, InitializeNode, GetNodeInfo, startVars
  <2> QED BY <2>1, CatalogueSame DEF migrationVars, CatalogueInv, MigrationsTypeOK
<1> QED BY <1>1, <1>2, <1>3 DEF NodeStartNext

LEMMA CatalogueStarts == MigrationsInit => CatalogueInv
<1> SUFFICES ASSUME MigrationsInit PROVE CatalogueInv
  OBVIOUS
<1>1. \A p \in Procs : job[p].at = "idle"
  BY IdleTyped DEF MigrationsInit
<1>2. MigrationsTypeOK
  BY IdleTyped, TargetAssumption DEF MigrationsInit, MigrationsTypeOK, NoRow
<1> QED BY <1>1, <1>2 DEF CatalogueInv, Advancing, At

\* The catalogue, the tracking tables and the jobs of the processes are of their types,
\* whatever harm overlapping runs, stopped rollbacks and resets do to them.
THEOREM SchemaTyped == NodeStartSpec => []MigrationsTypeOK
<1>1. NodeStartInit => CatalogueInv
  BY CatalogueStarts DEF NodeStartInit
<1>2. CatalogueInv => MigrationsTypeOK
  BY DEF CatalogueInv
<1> QED BY <1>1, <1>2, IdAlways, CatalogueKept, PTL DEF NodeStartSpec
=============================================================================
