------------------------------- MODULE MCTables -------------------------------
(***************************************************************************)
(* Accounts, and composing messages, in one instance for TLC: handlers that*)
(* look at a table and write to it awaits later. Each behaviour exercises  *)
(* one side, chosen at the start, as the sides share no state.             *)
(***************************************************************************)
EXTENDS AuthSystem, TLC

CONSTANTS u1, u2, p1,
          Texts,   \* numbers of the messages, in the order in which they are composed
          Sides    \* the sides to exercise

VARIABLES table, byHash, recent, tasks, handler, outcome, composer, side
messageVars == <<table, byHash, recent, tasks, handler, outcome, composer>>
tableVars == <<vars, messageVars, side>>

Direct(h, l, z) == [kind |-> "Direct", sender |-> "alice", recipient |-> "bob",
                    hash |-> h, long |-> l, compress |-> z]

\* Two plain texts and one sent with the default options: enough for a reply to a
\* reply, for a text sent twice and for one that cannot be decoded.
ThreadRequests == {Direct("h1", FALSE, FALSE), Direct("h2", TRUE, FALSE),
                   Direct("h3", FALSE, TRUE)}

Messaging == INSTANCE MessageSystem WITH
  Messages <- Texts, Users <- {"alice", "bob"}, Admins <- {}, Members <- {},
  Moderators <- {}, Requests <- ThreadRequests, Calls <- {"compose"}, MaxCache <- 1,
  row <- table, call <- handler

TablesInit == Init /\ Messaging!Init /\ side \in Sides

\* Two users, of whom u1 is an administrator and u2 may register.
RolesSide ==
  \/ \E c \in Clients, u \in Users, b \in BOOLEAN :
       Register(c, u, p1, b) \/ UpdateStatus(c, u, b) \/ UpdateRole(c, u, b)
  \/ \E c \in Clients : Progress(c) \/ DbError(c)
  \/ \E u \in Users : UpdateProfile(u) \/ GrowOld(u)
  \/ Restart

\* u2 registers, logs in, changes the password and is suspended.
PasswordsSide ==
  \/ \E c \in Clients, p \in Passwords :
       \/ Login(c, u2, p) \/ Register(c, u2, p, TRUE)
       \/ \E q \in Passwords : ChangePassword(c, u2, p, q)
  \/ \E c \in Clients, b \in BOOLEAN : UpdateStatus(c, u2, b)
  \/ \E c \in Clients : Progress(c) \/ DbError(c)
  \/ UpdateProfile(u2) \/ GrowOld(u2)
  \/ \E t \in Tokens : SessionEnds(t)
  \/ Cleanup \/ Tick \/ Restart

\* No call reads the message cache here, and none ever reads the tasks.
ComposesSide ==
  \/ \E c \in Clients, m \in Texts, q \in ThreadRequests, p \in Texts \cup {None} :
       /\ \A n \in Texts : n < m => outcome[n] # "unsent"
       /\ Messaging!ComposeStart(c, m, q, p)
  \/ \E c \in Clients : Messaging!Progress(c) \/ Messaging!DbError(c)
  \/ Messaging!RebuildIndexes \/ Messaging!Restart

TablesNext ==
  /\ UNCHANGED side
  /\ \/ side = "roles" /\ RolesSide /\ UNCHANGED messageVars
     \/ side = "passwords" /\ PasswordsSide /\ UNCHANGED messageVars
     \/ side = "composes" /\ ComposesSide /\ UNCHANGED vars

TablesSpec == TablesInit /\ [][TablesNext]_tableVars

\* Leaving what nobody reads out of the fingerprint loses no behaviour of the rest.
TablesView == <<vars, table, byHash, handler, outcome, composer, side>>

\* Clients are all alike: they are interchanged.
AnyClient == Permutations(Clients)

\* What MessageSystem says of replies and of equal texts.
ThreadsRooted         == Messaging!ThreadsRooted
DuplicateNeedsOverlap == Messaging!DuplicateNeedsOverlap
=============================================================================
