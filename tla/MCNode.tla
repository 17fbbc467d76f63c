-------------------------------- MODULE MCNode --------------------------------
(***************************************************************************)
(* The parts of a node that share no state, in one instance for TLC. Each  *)
(* behaviour exercises one part, or one side of it, chosen at the start:   *)
(* to interleave parts that cannot see each other shows nothing more.      *)
(***************************************************************************)
EXTENDS NodeStart, Groups, Notifications, Mailbox, Licences

CONSTANTS g1, g2, g3, g4, u1, u2, n1, n2, p1,
          Foci   \* the parts to exercise

ASSUME NodeAssumption == {u1, u2} \subseteq Members /\ {g1, g2, g3, g4} \subseteq GroupIds

VARIABLE focus   \* the part under way
nodeWideVars == <<startVars, groupVars, noteVars, mailVars, licenceVars, focus>>

\* n1 tells of a group message, n2 of an emergency.
ToOne == [n \in Notes |-> u1]
Night(override) == [start |-> 22, end |-> 7, days |-> {6}, override |-> override]
OfBoth == [n \in Notes |->
  IF n = n1
  THEN [type |-> "NewGroupMessage", priority |-> High, broadcast |-> FALSE]
  ELSE [type |-> "EmergencyMessage", priority |-> Emergency, broadcast |-> FALSE]]
NightChoices == {[off |-> {}, threshold |-> Low, quiet |-> Night(TRUE)],
                 [off |-> {}, threshold |-> Emergency, quiet |-> Night(FALSE)]}

FromOne == [m \in Mails |-> u1]
ToOther == [m \in Mails |-> u2]

\* Setup begins with the schema there, as the migrations leave it.
Migrated == /\ objects = Objects /\ applied = Versions /\ version = Latest
            /\ filled = {} /\ job = [p \in Procs |-> Idle] /\ undos = 0 /\ harm = {}

NodeInit ==
  /\ focus \in Foci
  /\ IF focus = "setup" THEN Migrated ELSE MigrationsInit
  /\ NodesInit /\ GroupsInit /\ NotificationsInit /\ MailboxInit /\ LicencesInit
  /\ focus # "notes" => now = [hour |-> 12, day |-> 6]

----------------------------------------------------------------------------
\* Processes without a command, that take the schema up and down.
SchemaSide ==
  \/ \E p \in Procs : Launch(p, Plain("other")) \/ Migrating(p) \/ End(p)
  \/ Undoings

\* One process is as good as another to migrate or do something else.
SetUpSide ==
  \/ \E p \in Procs, c \in Given :
       (p = p1 \/ c.do \in {"check", "serve"}) /\ Launch(p, c)
  \/ \E p \in Procs : Migrating(p) \/ MigrateAgain(p) \/ End(p)
  \/ Naming

\* One of the groups is created, by u1: a public one, one for announcements, which is
\* read-only and whose members are approved, or a private one.
OneGroup == groups = {} /\ \E c \in Callers, g \in {g1, g2, g3} : CreateGroup(c, u1, g)

MembersSide == OneGroup \/ Joining \/ Continuing \/ GroupRestart

\* Two public groups, of which u2 joins one.
ListingSide ==
  \/ \E c \in Callers, g \in {g1, g4} : CreateGroup(c, u1, g)
  \/ \E c \in Callers : JoinGroup(c, u2, g1)
  \/ Browsing \/ Continuing \/ GroupRestart

\* One group, that u2 joins and leaves.
ListsSide ==
  \/ groups = {} /\ \E c \in Callers : CreateGroup(c, u1, g1)
  \/ \E c \in Callers :
       \/ JoinGroup(c, u2, g1) \/ LeaveGroup(c, u2, g1) \/ ListOwn(c, u2)
       \/ \E users \in SUBSET Members : ListMembers(c, g1, users)
  \/ AgeMembers(g1) \/ AgeOwn(u2)
  \/ Continuing \/ GroupRestart

\* The messages are written in the order of their numbers: one is like another.
InOrder == \A m \in Mails : written'[m] # written[m] => m = Cardinality(Written) + 1
CountsSide == MailboxNext /\ InOrder /\ \A m \in Mails : m > 2 => written'[m] = NoCount

\* Without what only counts: the index, and deletions, which leave the rows.
ThreadsSide ==
  /\ \/ \E d \in Desks :
          \/ \E m \in Mails, p \in Mails \cup {NoMail} : SendMail(d, m, p, "direct")
          \/ InsertMail(d) \/ MailDbError(d)
          \/ \E k \in 1..Cardinality(Mails) : ArchiveMail(d, k)
          \/ RebuildAfter(d)
     \/ \E m \in Mails : ReadOne(m)
     \/ RestartMail
  /\ InOrder

GroupStep == \/ focus = "members" /\ MembersSide
             \/ focus = "listing" /\ ListingSide
             \/ focus = "lists" /\ ListsSide
StartStep == \/ focus = "schema" /\ SchemaSide
             \/ focus = "setup" /\ SetUpSide
MailStep  == \/ focus = "counts" /\ CountsSide
             \/ focus = "threads" /\ ThreadsSide
NoteStep  == focus = "notes" /\ NotificationsNext
LicenceStep == focus = "licences" /\ LicencesNext

NodeNext ==
  /\ UNCHANGED focus
  /\ \/ StartStep /\ UNCHANGED <<groupVars, noteVars, mailVars, licenceVars>>
     \/ GroupStep /\ UNCHANGED <<startVars, noteVars, mailVars, licenceVars>>
     \/ NoteStep /\ UNCHANGED <<startVars, groupVars, mailVars, licenceVars>>
     \/ MailStep /\ UNCHANGED <<startVars, groupVars, noteVars, licenceVars>>
     \/ LicenceStep /\ UNCHANGED <<startVars, groupVars, noteVars, mailVars>>

\* Handlers of groups go on, and time passes for what is cached.
GroupsAlone(side) ==
  focus \in side /\ UNCHANGED <<startVars, noteVars, mailVars, licenceVars, focus>>
NodeFairness ==
  /\ \A c \in Callers :
       WF_nodeWideVars(GroupsAlone({"members", "listing", "lists"}) /\ Progress(c))
  /\ WF_nodeWideVars(GroupsAlone({"lists"}) /\ AgeMembers(g1))
  /\ WF_nodeWideVars(GroupsAlone({"lists"}) /\ AgeOwn(u2))
  /\ \A g \in {g1, g4} : WF_nodeWideVars(GroupsAlone({"listing"}) /\ AgeGroup(g))

NodeSpec == NodeInit /\ [][NodeNext]_nodeWideVars /\ NodeFairness

\* The properties of the schema say nothing of behaviours that have come to harm.
Unharmed == harm = {}

\* Every part's state is what its module says it is.
NodeTypeOK == /\ MigrationsTypeOK /\ NodeStartTypeOK /\ GroupsTypeOK
              /\ NotificationsTypeOK /\ MailboxTypeOK /\ LicencesTypeOK
=============================================================================
