------------------------------- MODULE MCLives -------------------------------
(***************************************************************************)
(* The lives of messages, of sessions and of lockouts, in one instance for *)
(* TLC. Each behaviour exercises one of them, chosen at the start, as they *)
(* share no state.                                                         *)
(***************************************************************************)
EXTENDS MessageSystem, SessionManager

CONSTANTS Guessers,   \* tasks that log in
          t1,         \* the one session they may have at a time
          Sides       \* the sides to exercise

VARIABLES userRow, userCopy, attempts, login, holder, proof, guesses, races, side
loginVars == <<userRow, userCopy, attempts, login, holder, proof, guesses, races>>
lifeVars  == <<vars, session, loginVars, side>>

Direct(compress) == [kind |-> "Direct", sender |-> "alice", recipient |-> "bob",
                     hash |-> "h1", long |-> FALSE, compress |-> compress]

\* A direct message, a group message and one that cannot be decoded.
LifeRequests == {Direct(FALSE), Direct(TRUE),
                 [kind |-> "Group", sender |-> "alice", recipient |-> None,
                  hash |-> "h1", long |-> TRUE, compress |-> TRUE]}

\* One duration under max_duration and one that is capped; an extension that takes an
\* expired session back to life and a fresh one to the cap.
AskedDurations  == {1, 3}
AskedExtensions == {2}

\* Some clients log in as one user, with the right password and a wrong one.
Logins == INSTANCE AuthSystem WITH
  Clients <- Guessers, Users <- {"operator"}, First <- {"operator"},
  Passwords <- {"right", "wrong"}, Tokens <- {t1}, Bound <- 1, MaxAttempts <- 2, Lockout <- 2,
  Verification <- FALSE, Calls <- {"login"},
  row <- userRow, cached <- userCopy, call <- login, raced <- races

LivesInit == Init /\ SessionsInit /\ Logins!Init /\ side \in Sides

LoginsSide ==
  \/ \E c \in Guessers :
       \/ \E p \in {"right", "wrong"} : Logins!Login(c, "operator", p)
       \/ Logins!Progress(c) \/ Logins!DbError(c)
  \/ Logins!SessionEnds(t1)
  \/ Logins!Cleanup \/ Logins!Tick \/ Logins!Restart

LivesNext ==
  /\ UNCHANGED side
  /\ \/ side = "message" /\ Next         /\ UNCHANGED <<session, loginVars>>
     \/ side = "session" /\ SessionsNext /\ UNCHANGED <<vars, loginVars>>
     \/ side = "login"   /\ LoginsSide   /\ UNCHANGED <<vars, session>>

\* The fairness of MessageSystem, and the time that a lockout takes.
MessageAlone(A) == side = "message" /\ A /\ UNCHANGED <<session, loginVars, side>>
LivesFairness ==
  /\ \A c \in Clients : WF_lifeVars(MessageAlone(Progress(c)))
  /\ \A m \in Messages : WF_lifeVars(MessageAlone(GrowOld(m)))
  /\ WF_lifeVars(side = "login" /\ Logins!Tick /\ UNCHANGED <<vars, session, side>>)

LivesSpec == LivesInit /\ [][LivesNext]_lifeVars /\ LivesFairness

\* What AuthSystem says of lockouts.
GuessesBounded == Logins!GuessesBounded
LockEnds       == Logins!LockEnds
=============================================================================
