---------------------------- MODULE SessionManager ----------------------------
(***************************************************************************)
(* SessionManager of auth/session.rs: the in-memory map of sessions, whose *)
(* creation counts the user's sessions under one lock and inserts the new  *)
(* one under another, while validation, extension, invalidation, cleanup   *)
(* and time go on.                                                         *)
(***************************************************************************)
EXTENDS Integers, FiniteSets

CONSTANTS
  Tokens,       \* session tokens: fresh UUIDs. One that left the map may serve again
  Accounts,     \* user ids
  Durations,    \* durations asked of create_session
  Extensions,   \* durations asked of extend_session
  MaxPerUser,   \* max_sessions_per_user
  MaxDuration,  \* max_duration
  Default,      \* default_duration
  Nobody,       \* no user
  MaxCreates,   \* bound: calls of create_session at a time
  MaxLate       \* bound: a session expired for longer counts as expired for this long

ASSUME TokenAssumption    == IsFiniteSet(Tokens)
ASSUME UserAssumption     == Accounts # {} /\ Nobody \notin Accounts
ASSUME DurationAssumption == /\ Durations \subseteq Nat /\ Extensions \subseteq Nat
                             /\ MaxDuration \in Nat /\ Default \in Nat /\ MaxLate \in Nat
ASSUME LimitAssumption    == MaxPerUser \in Nat \ {0} /\ MaxCreates \in Nat \ {0}

\* at: a session is built by create_session, has passed the count ("checked") and is
\* in the map ("live"). left is expires_at - now.
VARIABLE session

Stages  == {"free", "built", "checked", "live"}
Session == [at: Stages, user: Accounts, left: Int, persistent: BOOLEAN]

SessionsTypeOK == session \in [Tokens -> Session]

Free == [at |-> "free", user |-> CHOOSE u \in Accounts : TRUE, left |-> 0, persistent |-> FALSE]

SessionsInit == session = [t \in Tokens |-> Free]

Is(t, place) == session[t].at = place
Live(u)      == {t \in Tokens : Is(t, "live") /\ session[t].user = u}
Checked(u)   == {t \in Tokens : Is(t, "checked") /\ session[t].user = u}
InFlight     == {t \in Tokens : session[t].at \in {"built", "checked"}}
Expired(t)   == session[t].left <= 0

AtMost(d, m) == IF d < m THEN d ELSE m

\* Every handler below works on the map under its write lock: the sessions in
\* flight are not in it.
Forget(gone) == session' = [t \in Tokens |-> IF t \in gone THEN Free ELSE session[t]]

----------------------------------------------------------------------------
(* create_session_with_params.                                             *)

\* The session is built, and its expiry fixed, before the limit is looked at.
Built(t, u, d, p) ==
  [at |-> "built", user |-> u, left |-> AtMost(d, MaxDuration), persistent |-> p]
Build(t, u, d, p) ==
  /\ Is(t, "free")
  /\ Cardinality(InFlight) < MaxCreates
  /\ session' = [session EXCEPT ![t] = Built(t, u, d, p)]

\* Under the read lock: every session of the user counts, the expired ones too.
LimitReached_Loose(u) == Cardinality(Live(u)) > MaxPerUser
LimitReached(u)       == Cardinality(Live(u)) >= MaxPerUser
Check(t) ==
  /\ Is(t, "built")
  /\ IF LimitReached(session[t].user)
     THEN Forget({t})
     ELSE session' = [session EXCEPT ![t].at = "checked"]

\* Under the write lock, with no second look at the count.
InsertSession(t) ==
  /\ Is(t, "checked")
  /\ session' = [session EXCEPT ![t].at = "live"]

----------------------------------------------------------------------------
(* The handlers of a session in the map.                                   *)

\* validate_session: an expired session is removed; a persistent one in the last half
\* of the default duration gets a whole one, whatever MaxDuration is.
Validate_NoExpiry(t) ==
  /\ Is(t, "live")
  /\ session[t].persistent /\ 2 * session[t].left < Default
  /\ session' = [session EXCEPT ![t].left = Default]
Validate(t) ==
  /\ Is(t, "live")
  /\ \/ Expired(t) /\ Forget({t})
     \/ /\ ~Expired(t) /\ session[t].persistent /\ 2 * session[t].left < Default
        /\ session' = [session EXCEPT ![t].left = Default]

\* extend_session never looks at whether the session has expired.
Extended_Uncapped(t, e) == session[t].left + e
Extended(t, e) == AtMost(session[t].left + e, MaxDuration)
Extend(t, e) ==
  /\ Is(t, "live")
  /\ session' = [session EXCEPT ![t].left = Extended(t, e)]

InvalidateSession(t) == Is(t, "live") /\ Forget({t})

InvalidateUser(u) == Live(u) # {} /\ Forget(Live(u))

\* The token to keep need not be the user's.
InvalidateOthers(u, t) == Live(u) \ {t} # {} /\ Forget(Live(u) \ {t})

----------------------------------------------------------------------------
(* Cleanup, time and restarts. Cleanup is there for whoever embeds the     *)
(* crate, in which nothing starts its loop: it may run, and need not.      *)

Swept == {t \in Tokens : Is(t, "live") /\ Expired(t)}
Cleanup == Swept # {} /\ Forget(Swept)

TickSessions ==
  session' = [t \in Tokens |->
                IF session[t].at # "free" /\ session[t].left > -MaxLate
                THEN [session[t] EXCEPT !.left = @ - 1]
                ELSE session[t]]

\* Sessions are only in memory.
RestartSessions == session' = [t \in Tokens |-> Free]

----------------------------------------------------------------------------

SessionsNext ==
  \/ \E t \in Tokens :
       \/ \E u \in Accounts, d \in Durations, p \in BOOLEAN : Build(t, u, d, p)
       \/ Check(t) \/ InsertSession(t)
       \/ Validate(t) \/ InvalidateSession(t)
       \/ \E e \in Extensions : Extend(t, e)
  \/ \E u \in Accounts : InvalidateUser(u) \/ \E t \in Tokens : InvalidateOthers(u, t)
  \/ Cleanup \/ TickSessions \/ RestartSessions

SessionsSpec == SessionsInit /\ [][SessionsNext]_session

----------------------------------------------------------------------------
(* Properties.                                                             *)

\* The count and the insert are separate: a user may get past max_sessions_per_user,
\* but by no more than one session for each create that overlapped another.
UserBound == \A u \in Accounts : Cardinality(Live(u)) <= MaxPerUser - 1 + MaxCreates

\* No session, in flight or in the map, has more than max_duration left, but a
\* persistent one that a validation has renewed for the default duration.
LifeCapped ==
  \A t \in Tokens : \/ session[t].left <= MaxDuration
                    \/ session[t].persistent /\ session[t].left <= Default

\* An expired session that is still in the map comes back to life by extend_session
\* and by nothing else: no validation, late insert or sweep renews it.
OnlyExtendRevives ==
  [][\A t \in Tokens :
       Is(t, "live") /\ Expired(t) /\ Is(t, "live")' /\ ~Expired(t)'
         => \E e \in Extensions : Extend(t, e)]_session

\* What AuthSystem builds on: a token that is in the map stays one user's until it is
\* withdrawn, and one more is granted only to a user below the bound.
Permit == INSTANCE Permits WITH
  Users  <- Accounts,
  holder <- [t \in Tokens |-> IF Is(t, "live") THEN session[t].user ELSE Nobody],
  Bound  <- MaxPerUser - 1 + MaxCreates
PermitPromise == Permit!PermitSpec

\* What the field's comment says: "Maximum sessions per user".
WithinLimit == \A u \in Accounts : Cardinality(Live(u)) <= MaxPerUser

=============================================================================
