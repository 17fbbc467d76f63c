------------------------ MODULE SessionManager_proofs ------------------------
(***************************************************************************)
(* Safety of SessionManager for any number of tokens, users and creates.   *)
(***************************************************************************)
EXTENDS SessionManager, FiniteSetTheorems, TLAPS

\* The sessions of a user that are in the map or will be without another look.
Coming(u) == Live(u) \cup Checked(u)

Bounded    == \A u \in Accounts : Cardinality(Coming(u)) <= MaxPerUser - 1 + MaxCreates
FewCreates == Cardinality(InFlight) <= MaxCreates

\* UserBound is not inductive: an insert needs the sessions that passed the check to
\* have been counted, and the check needs the calls in flight to be few.
IInv == SessionsTypeOK /\ LifeCapped /\ FewCreates /\ Bounded

USE DEF Stages

(***************************************************************************)
(* Sets of tokens.                                                         *)
(***************************************************************************)

LEMMA TokenSets ==
  /\ IsFiniteSet(InFlight) /\ Cardinality(InFlight) \in Nat
  /\ \A u : IsFiniteSet(Live(u)) /\ Cardinality(Live(u)) \in Nat
  /\ \A u : IsFiniteSet(Checked(u)) /\ Cardinality(Checked(u)) \in Nat
  /\ \A u : IsFiniteSet(Coming(u)) /\ Cardinality(Coming(u)) \in Nat
<1>1. \A S : S \subseteq Tokens => IsFiniteSet(S) /\ Cardinality(S) \in Nat
  BY TokenAssumption, FS_Subset, FS_CardinalityType
<1> QED BY <1>1 DEF InFlight, Live, Checked, Coming

\* Where no token comes to be in flight, or to be Coming, the bounds stay.
LEMMA FewerCreates ==
  ASSUME FewCreates, InFlight' \subseteq InFlight
  PROVE  FewCreates'
<1>1. Cardinality(InFlight') <= Cardinality(InFlight) /\ Cardinality(InFlight') \in Nat
  BY TokenSets, FS_Subset, FS_CardinalityType
<1> QED BY <1>1, TokenSets, LimitAssumption DEF FewCreates

LEMMA FewerComing ==
  ASSUME Bounded, \A u \in Accounts : Coming(u)' \subseteq Coming(u)
  PROVE  Bounded'
<1>1. \A u \in Accounts : Cardinality(Coming(u)') <= Cardinality(Coming(u))
  BY TokenSets, FS_Subset
<1>2. \A u \in Accounts : Cardinality(Coming(u)') \in Nat
  BY TokenSets, FS_Subset, FS_CardinalityType
<1> QED BY <1>1, <1>2, TokenSets, LimitAssumption DEF Bounded

(***************************************************************************)
(* What changes one session, and what drops some.                          *)
(***************************************************************************)

LEMMA FreeTyped == Free \in Session
BY UserAssumption DEF Free, Session

\* The handlers that remove sessions, and a restart.
LEMMA DropStep ==
  ASSUME IInv, NEW gone, Forget(gone)
  PROVE  IInv'
<1>1. \A t \in Tokens : session'[t] = session[t] \/ session'[t] = Free
  BY DEF Forget
<1>2. Free.at = "free" /\ Free.left = 0
  BY DEF Free
<1>3. SessionsTypeOK'
  BY FreeTyped DEF IInv, SessionsTypeOK, Forget
<1>4. LifeCapped'
  BY <1>1, <1>2, DurationAssumption DEF IInv, LifeCapped
<1>5. InFlight' \subseteq InFlight
  BY <1>1, <1>2 DEF InFlight
<1>6. \A u \in Accounts : Coming(u)' \subseteq Coming(u)
  BY <1>1, <1>2 DEF Coming, Live, Checked, Is
<1> QED BY <1>3, <1>4, <1>5, <1>6, FewerCreates, FewerComing DEF IInv

\* The handlers that only set the time left of a session: to no more than max_duration,
\* or to the default if the session is persistent.
Retimed(t, left) ==
  /\ Is(t, "live")
  /\ left \in Int
  /\ left <= MaxDuration \/ (session[t].persistent /\ left <= Default)
  /\ session' = [session EXCEPT ![t].left = left]

LEMMA RetimeStep ==
  ASSUME IInv, NEW t \in Tokens, NEW left, Retimed(t, left)
  PROVE  IInv'
<1>1. session[t] \in Session
  BY DEF IInv, SessionsTypeOK
<1>2. session'[t] = [session[t] EXCEPT !.left = left]
  BY DEF IInv, SessionsTypeOK, Retimed
<1>3. \A n \in Tokens \ {t} : session'[n] = session[n]
  BY DEF IInv, SessionsTypeOK, Retimed
<1>4. /\ session'[t].left = left /\ session'[t].at = session[t].at
      /\ session'[t].user = session[t].user
      /\ session'[t].persistent = session[t].persistent
  BY <1>1, <1>2 DEF Session
<1>5. SessionsTypeOK'
  BY <1>1 DEF IInv, SessionsTypeOK, Session, Retimed
<1>6. LifeCapped'
  BY <1>3, <1>4 DEF IInv, LifeCapped, Retimed
<1>7. InFlight' \subseteq InFlight /\ \A u \in Accounts : Coming(u)' \subseteq Coming(u)
  BY <1>3, <1>4 DEF InFlight, Coming, Live, Checked, Is
<1> QED BY <1>5, <1>6, <1>7, FewerCreates, FewerComing DEF IInv

LEMMA ValidateStep ==
  ASSUME IInv, NEW t \in Tokens, Validate(t)
  PROVE  IInv'
<1>1. CASE Forget({t})
  BY <1>1, DropStep
<1>2. CASE /\ session[t].persistent
           /\ session' = [session EXCEPT ![t].left = Default]
  <2>1. Retimed(t, Default)
    BY <1>2, DurationAssumption DEF Retimed, Validate
  <2> QED BY <2>1, RetimeStep
<1> QED BY <1>1, <1>2 DEF Validate

LEMMA ExtendStep ==
  ASSUME IInv, NEW t \in Tokens, NEW e \in Extensions, Extend(t, e)
  PROVE  IInv'
<1>1. session[t].left \in Int
  BY DEF IInv, SessionsTypeOK, Session
<1>2. Extended(t, e) \in Int /\ Extended(t, e) <= MaxDuration
  BY <1>1, DurationAssumption DEF Extended, AtMost
<1>3. Retimed(t, Extended(t, e))
  BY <1>2 DEF Retimed, Extend
<1> QED BY <1>3, RetimeStep

LEMMA TickStep ==
  ASSUME IInv, TickSessions
  PROVE  IInv'
<1>1. \A t \in Tokens : session[t] \in Session
  BY DEF IInv, SessionsTypeOK
<1>2. ASSUME NEW t \in Tokens
      PROVE  /\ session'[t] \in Session
             /\ session'[t].left <= session[t].left
             /\ session'[t].at = session[t].at /\ session'[t].user = session[t].user
             /\ session'[t].persistent = session[t].persistent
  BY <1>1 DEF TickSessions, Session
<1>3. SessionsTypeOK'
  BY <1>2 DEF SessionsTypeOK, TickSessions
<1>4. LifeCapped'
  BY <1>1, <1>2, DurationAssumption DEF IInv, LifeCapped, Session
<1>5. InFlight' \subseteq InFlight /\ \A u \in Accounts : Coming(u)' \subseteq Coming(u)
  BY <1>2 DEF InFlight, Coming, Live, Checked, Is
<1> QED BY <1>3, <1>4, <1>5, FewerCreates, FewerComing DEF IInv

(***************************************************************************)
(* create_session.                                                         *)
(***************************************************************************)

LEMMA BuildStep ==
  ASSUME IInv, NEW t \in Tokens, NEW u \in Accounts, NEW d \in Durations, NEW p \in BOOLEAN,
         Build(t, u, d, p)
  PROVE  IInv'
<1>1. /\ AtMost(d, MaxDuration) \in Int
      /\ AtMost(d, MaxDuration) <= MaxDuration
  BY DurationAssumption DEF AtMost
<1>2. /\ session'[t].at = "built"
      /\ session'[t].left <= MaxDuration
      /\ \A n \in Tokens \ {t} : session'[n] = session[n]
  BY <1>1 DEF IInv, SessionsTypeOK, Build, Built
<1>3. SessionsTypeOK'
  BY <1>1 DEF IInv, SessionsTypeOK, Session, Build, Built
<1>4. LifeCapped'
  BY <1>2 DEF IInv, LifeCapped
<1>5. \A v \in Accounts : Coming(v)' \subseteq Coming(v)
  BY <1>2 DEF Coming, Live, Checked, Is
<1>6. FewCreates'
  <2>1. InFlight' = InFlight \cup {t} /\ t \notin InFlight
    BY <1>2 DEF InFlight, Build, Is
  <2>2. Cardinality(InFlight') = Cardinality(InFlight) + 1
    BY <2>1, TokenSets, FS_AddElement
  <2> QED BY <2>2, TokenSets, LimitAssumption DEF FewCreates, Build
<1> QED BY <1>3, <1>4, <1>5, <1>6, FewerComing DEF IInv

\* A session that moves on, from built to checked or from checked to live.
Moved(t, place) ==
  /\ place \in {"checked", "live"}
  /\ session' = [session EXCEPT ![t].at = place]

LEMMA MovedEffect ==
  ASSUME SessionsTypeOK, NEW t \in Tokens, NEW place, Moved(t, place)
  PROVE  /\ SessionsTypeOK'
         /\ session'[t].at = place
         /\ session'[t].user = session[t].user /\ session'[t].left = session[t].left
         /\ session'[t].persistent = session[t].persistent
         /\ \A n \in Tokens \ {t} : session'[n] = session[n]
<1>1. session[t] \in Session
  BY DEF SessionsTypeOK
<1>2. session'[t] = [session[t] EXCEPT !.at = place]
  BY DEF SessionsTypeOK, Moved
<1>3. \A n \in Tokens \ {t} : session'[n] = session[n]
  BY DEF SessionsTypeOK, Moved
<1>4. /\ session'[t].at = place
      /\ session'[t].user = session[t].user /\ session'[t].left = session[t].left
      /\ session'[t].persistent = session[t].persistent
  BY <1>1, <1>2 DEF Session
<1>5. SessionsTypeOK'
  BY <1>1 DEF SessionsTypeOK, Session, Moved
<1> QED BY <1>3, <1>4, <1>5

LEMMA CheckStep ==
  ASSUME IInv, NEW t \in Tokens, Check(t)
  PROVE  IInv'
<1>1. CASE LimitReached(session[t].user)
  BY <1>1, DropStep DEF Check
<1>2. CASE ~LimitReached(session[t].user)
  <2>1. Moved(t, "checked")
    BY <1>2 DEF Check, Moved
  <2>2. /\ SessionsTypeOK'
        /\ session'[t].at = "checked"
        /\ session'[t].user = session[t].user /\ session'[t].left = session[t].left
        /\ session'[t].persistent = session[t].persistent
        /\ \A n \in Tokens \ {t} : session'[n] = session[n]
    BY <2>1, MovedEffect DEF IInv
  <2>3. LifeCapped'
    BY <2>2 DEF IInv, LifeCapped
  <2>4. InFlight' \subseteq InFlight
    BY <2>2 DEF InFlight, Check, Is
  <2>5. FewCreates'
    BY <2>4, FewerCreates DEF IInv
  <2>6. ASSUME NEW u \in Accounts
        PROVE  Cardinality(Coming(u)') <= MaxPerUser - 1 + MaxCreates
    <3>1. CASE u = session[t].user
      <4>1. Cardinality(Live(u)) <= MaxPerUser - 1
        BY <1>2, <3>1, TokenSets, LimitAssumption DEF LimitReached
      <4>2. Live(u)' = Live(u) /\ Checked(u)' \subseteq InFlight
        BY <2>2, <2>4 DEF Live, Checked, InFlight, Check, Is
      <4>3. Cardinality(Checked(u)') \in Nat /\ Cardinality(Checked(u)') <= MaxCreates
        BY <4>2, TokenSets, FS_Subset, FS_CardinalityType, LimitAssumption
           DEF IInv, FewCreates
      <4>4. Cardinality(Live(u) \cup Checked(u)')
              <= Cardinality(Live(u)) + Cardinality(Checked(u)')
        <5>1. IsFiniteSet(Checked(u)')
          BY <4>2, TokenSets, FS_Subset
        <5>2. Cardinality(Live(u) \cap Checked(u)') \in Nat
          BY TokenSets, FS_Subset, FS_CardinalityType
        <5>3. Cardinality(Live(u) \cup Checked(u)')
                = Cardinality(Live(u)) + Cardinality(Checked(u)')
                  - Cardinality(Live(u) \cap Checked(u)')
          BY <5>1, TokenSets, FS_Union
        <5> QED BY <4>3, <5>2, <5>3, TokenSets
      <4>5. Coming(u)' = Live(u) \cup Checked(u)'
        BY <4>2 DEF Coming
      <4>6. Cardinality(Coming(u)') \in Nat
        BY <4>2, <4>5, TokenSets, FS_Union, FS_Subset, FS_CardinalityType
      <4> QED BY <4>1, <4>3, <4>4, <4>5, <4>6, TokenSets, LimitAssumption
    <3>2. CASE u # session[t].user
      <4>1. Coming(u)' = Coming(u)
        BY <2>2, <3>2 DEF Coming, Live, Checked, Check, Is
      <4> QED BY <4>1 DEF IInv, Bounded
    <3> QED BY <3>1, <3>2
  <2> QED BY <2>2, <2>3, <2>5, <2>6 DEF IInv, Bounded
<1> QED BY <1>1, <1>2

LEMMA InsertStep ==
  ASSUME IInv, NEW t \in Tokens, InsertSession(t)
  PROVE  IInv'
<1>1. Moved(t, "live")
  BY DEF InsertSession, Moved
<1>2. /\ SessionsTypeOK'
      /\ session'[t].at = "live"
      /\ session'[t].user = session[t].user /\ session'[t].left = session[t].left
      /\ session'[t].persistent = session[t].persistent
      /\ \A n \in Tokens \ {t} : session'[n] = session[n]
  BY <1>1, MovedEffect DEF IInv
<1>3. LifeCapped'
  BY <1>2 DEF IInv, LifeCapped
<1>4. InFlight' \subseteq InFlight /\ \A u \in Accounts : Coming(u)' \subseteq Coming(u)
  BY <1>2 DEF InFlight, Coming, Live, Checked, InsertSession, Is
<1> QED BY <1>2, <1>3, <1>4, FewerCreates, FewerComing DEF IInv

(***************************************************************************)
(* The theorems.                                                           *)
(***************************************************************************)

LEMMA InitInv == SessionsInit => IInv
<1> SUFFICES ASSUME SessionsInit PROVE IInv
  OBVIOUS
<1>1. \A t \in Tokens : session[t].at = "free" /\ session[t].left = 0
  BY DEF SessionsInit, Free
<1>2. SessionsTypeOK
  BY FreeTyped DEF SessionsInit, SessionsTypeOK
<1>3. LifeCapped
  BY <1>1, DurationAssumption DEF LifeCapped
<1>4. InFlight = {} /\ \A u \in Accounts : Coming(u) = {}
  BY <1>1 DEF InFlight, Coming, Live, Checked, Is
<1> QED BY <1>2, <1>3, <1>4, FS_EmptySet, LimitAssumption DEF IInv, FewCreates, Bounded

\* IInv is inductive.
LEMMA StepInv == IInv /\ [SessionsNext]_session => IInv'
<1> SUFFICES ASSUME IInv, [SessionsNext]_session PROVE IInv'
  OBVIOUS
<1>1. CASE SessionsNext
  <2>1. ASSUME \E gone : Forget(gone)
        PROVE  IInv'
    BY <2>1, DropStep
  <2>2. RestartSessions => Forget(Tokens)
    BY DEF RestartSessions, Forget
  <2> QED
    BY <1>1, <2>1, <2>2, BuildStep, CheckStep, InsertStep, ValidateStep, ExtendStep, TickStep
       DEF SessionsNext, InvalidateSession, InvalidateUser, InvalidateOthers, Cleanup
<1>2. CASE UNCHANGED session
  BY <1>2
     DEF IInv, SessionsTypeOK, LifeCapped, FewCreates, Bounded, InFlight, Coming, Live, Checked, Is
<1> QED BY <1>1, <1>2

THEOREM Invariance == SessionsSpec => []IInv
BY InitInv, StepInv, PTL DEF SessionsSpec

\* The map and the sessions in flight are always well formed.
THEOREM TypeCorrect == SessionsSpec => []SessionsTypeOK
<1>1. IInv => SessionsTypeOK
  BY DEF IInv
<1> QED BY <1>1, Invariance, PTL

\* create_session lets a user past max_sessions_per_user by fewer sessions than the
\* creates that run at a time.
THEOREM Limit == SessionsSpec => []UserBound
<1>1. IInv => UserBound
  <2> SUFFICES ASSUME IInv, NEW u \in Accounts
               PROVE  Cardinality(Live(u)) <= MaxPerUser - 1 + MaxCreates
    BY DEF UserBound
  <2>1. Cardinality(Live(u)) <= Cardinality(Coming(u))
    BY TokenSets, FS_Subset DEF Coming
  <2> QED BY <2>1, TokenSets, LimitAssumption DEF IInv, Bounded
<1> QED BY <1>1, Invariance, PTL

\* Whatever is asked of create_session and extend_session, and however often, a session
\* has at most max_duration left, or the default duration if it is persistent.
THEOREM Capped == SessionsSpec => []LifeCapped
<1>1. IInv => LifeCapped
  BY DEF IInv
<1> QED BY <1>1, Invariance, PTL

\* Of all the code that writes sessions only extend_session gives time to one that has
\* none left.
THEOREM Revival == SessionsSpec => OnlyExtendRevives
<1> DEFINE Step == \A t \in Tokens :
       Is(t, "live") /\ Expired(t) /\ Is(t, "live")' /\ ~Expired(t)'
         => \E e \in Extensions : Extend(t, e)
<1>1. IInv /\ [SessionsNext]_session => [Step]_session
  <2> SUFFICES ASSUME IInv, SessionsNext, NEW t \in Tokens,
                      Is(t, "live"), Expired(t), Is(t, "live")', ~Expired(t)'
               PROVE  \E e \in Extensions : Extend(t, e)
    OBVIOUS
  <2>1. /\ session[t] \in Session /\ session[t].left <= 0 /\ ~(session'[t].left <= 0)
        /\ session[t].at = "live" /\ session'[t].at = "live"
    BY DEF IInv, SessionsTypeOK, Is, Expired
  <2>2. session'[t] # session[t] /\ session'[t] # Free
    BY <2>1 DEF Free
  <2>3. ~ \E gone : Forget(gone)
    BY <2>2 DEF Forget
  <2>4. ~TickSessions
    BY <2>1 DEF TickSessions, Session
  <2>5. ASSUME NEW n \in Tokens, n # t
        PROVE  /\ \A u \in Accounts, d \in Durations, p \in BOOLEAN : ~Build(n, u, d, p)
               /\ ~Check(n) /\ ~InsertSession(n) /\ ~Validate(n)
               /\ \A e \in Extensions : ~Extend(n, e)
    BY <2>2, <2>3, <2>5 DEF IInv, SessionsTypeOK, Build, Check, InsertSession, Validate, Extend
  <2>6. /\ \A u \in Accounts, d \in Durations, p \in BOOLEAN : ~Build(t, u, d, p)
        /\ ~Check(t) /\ ~InsertSession(t) /\ ~Validate(t)
    BY <2>1, <2>3 DEF Build, Check, InsertSession, Validate, Is, Expired
  <2>7. RestartSessions => Forget(Tokens)
    BY DEF RestartSessions, Forget
  <2> QED
    BY <2>3, <2>4, <2>5, <2>6, <2>7
       DEF SessionsNext, InvalidateSession, InvalidateUser, InvalidateOthers, Cleanup
<1> QED BY <1>1, Invariance, PTL DEF SessionsSpec, OnlyExtendRevives

(***************************************************************************)
(* What the manager promises.                                              *)
(***************************************************************************)

\* The holders, under the refinement.
H == [t \in Tokens |-> IF Is(t, "live") THEN session[t].user ELSE Nobody]

LEMMA DropWithdraws ==
  ASSUME NEW gone, Forget(gone)
  PROVE  Permit!PermitNext
<1>1. \A t \in Tokens : session'[t] = IF t \in gone THEN Free ELSE session[t]
  BY DEF Forget
<1>2. Free.at # "live"
  BY DEF Free
<1>3. Permit!Withdraw(gone \cap Tokens)
  BY <1>1, <1>2 DEF Permit!Withdraw, Is
<1>4. gone \cap Tokens \in SUBSET Tokens
  OBVIOUS
<1> QED BY <1>3, <1>4 DEF Permit!PermitNext

LEMMA InsertGrants ==
  ASSUME IInv, NEW t \in Tokens, InsertSession(t)
  PROVE  Permit!PermitNext
<1> DEFINE u == session[t].user
<1>1. u \in Accounts /\ session[t].at = "checked"
  BY DEF IInv, SessionsTypeOK, Session, InsertSession, Is
<1>2. /\ session'[t].at = "live" /\ session'[t].user = u
      /\ \A n \in Tokens \ {t} : session'[n] = session[n]
  BY MovedEffect DEF IInv, InsertSession, Moved
<1>3. H[t] = Nobody
  BY <1>1 DEF H, Is
<1>4. Permit!Held(u) = Live(u)
  BY <1>1, UserAssumption DEF Permit!Held, Live, Is
<1>5. Cardinality(Live(u)) < MaxPerUser - 1 + MaxCreates
  <2>1. t \in Coming(u) \ Live(u) /\ Live(u) \subseteq Coming(u)
    BY <1>1 DEF Coming, Live, Checked, Is
  <2>2. Cardinality(Live(u)) < Cardinality(Coming(u))
    <3>1. Cardinality(Live(u) \cup {t}) = Cardinality(Live(u)) + 1
      BY <2>1, TokenSets, FS_AddElement
    <3>2. Cardinality(Live(u) \cup {t}) <= Cardinality(Coming(u))
      BY <2>1, TokenSets, FS_Subset
    <3> QED BY <3>1, <3>2, TokenSets
  <2> QED BY <1>1, <2>2, TokenSets, LimitAssumption DEF IInv, Bounded
<1>6. H' = [H EXCEPT ![t] = u]
  BY <1>2 DEF H, Is
<1>7. Permit!Cardinality(Live(u)) = Cardinality(Live(u))
  BY DEF Permit!Cardinality, Cardinality
<1>8. Permit!Grant(t, u)
  BY <1>3, <1>4, <1>5, <1>6, <1>7 DEF Permit!Grant, H
<1> QED BY <1>1, <1>8 DEF Permit!PermitNext, Permit!Grant

LEMMA OthersKeepHolders ==
  ASSUME IInv, NEW t \in Tokens,
         \/ \E u \in Accounts, d \in Durations, p \in BOOLEAN : Build(t, u, d, p)
         \/ Moved(t, "checked") /\ ~Is(t, "live")
         \/ \E left : Retimed(t, left)
  PROVE  H' = H
<1>1. session[t] \in Session
  BY DEF IInv, SessionsTypeOK
<1>2. \A n \in Tokens \ {t} : session'[n] = session[n]
  BY DEF IInv, SessionsTypeOK, Build, Moved, Retimed
<1>3. \/ session[t].at # "live" /\ session'[t].at # "live"
      \/ session'[t].at = session[t].at /\ session'[t].user = session[t].user
  BY <1>1 DEF IInv, SessionsTypeOK, Session, Build, Built, Moved, Retimed, Is
<1> QED BY <1>2, <1>3 DEF H, Is

LEMMA TickKeepsHolders ==
  ASSUME IInv, TickSessions
  PROVE  H' = H
<1>1. ASSUME NEW t \in Tokens
      PROVE  session'[t].at = session[t].at /\ session'[t].user = session[t].user
  <2>1. session[t] \in Session
    BY DEF IInv, SessionsTypeOK
  <2> QED BY <2>1 DEF TickSessions, Session
<1> QED BY <1>1 DEF H, Is

\* Every step of the manager is a grant, a withdrawal or neither.
LEMMA StepPermitted == IInv /\ [SessionsNext]_session => [Permit!PermitNext]_H
<1> SUFFICES ASSUME IInv, SessionsNext PROVE Permit!PermitNext \/ H' = H
  BY DEF H, Is
<1>1. ASSUME \E gone : Forget(gone)
      PROVE  Permit!PermitNext
  BY <1>1, DropWithdraws
<1>2. ASSUME NEW t \in Tokens, Check(t)
      PROVE  Permit!PermitNext \/ H' = H
  <2>1. Forget({t}) \/ (Moved(t, "checked") /\ ~Is(t, "live"))
    BY <1>2 DEF Check, Moved, Is
  <2> QED BY <1>1, <2>1, OthersKeepHolders
<1>3. ASSUME NEW t \in Tokens, Validate(t)
      PROVE  Permit!PermitNext \/ H' = H
  <2>1. Forget({t}) \/ Retimed(t, Default)
    BY <1>3, DurationAssumption DEF Validate, Retimed
  <2> QED BY <1>1, <2>1, OthersKeepHolders
<1>4. ASSUME NEW t \in Tokens, NEW e \in Extensions, Extend(t, e)
      PROVE  H' = H
  <2>1. session[t].left \in Int
    BY DEF IInv, SessionsTypeOK, Session
  <2>2. Extended(t, e) \in Int /\ Extended(t, e) <= MaxDuration
    BY <2>1, DurationAssumption DEF Extended, AtMost
  <2>3. Retimed(t, Extended(t, e))
    BY <1>4, <2>2 DEF Retimed, Extend
  <2> QED BY <2>3, OthersKeepHolders
<1>5. ASSUME NEW t \in Tokens, NEW u \in Accounts, NEW d \in Durations, NEW p \in BOOLEAN,
             Build(t, u, d, p)
      PROVE  H' = H
  BY <1>5, OthersKeepHolders
<1>6. RestartSessions => Forget(Tokens)
  BY DEF RestartSessions, Forget
<1> QED
  BY <1>1, <1>2, <1>3, <1>4, <1>5, <1>6, InsertGrants, TickKeepsHolders
     DEF SessionsNext, InvalidateSession, InvalidateUser, InvalidateOthers, Cleanup

\* The session manager implements Permits, on which AuthSystem builds.
THEOREM Implements == SessionsSpec => PermitPromise
<1>1. SessionsInit => Permit!Unheld
  <2> SUFFICES ASSUME SessionsInit PROVE Permit!Unheld
    OBVIOUS
  <2>1. \A t \in Tokens : ~Is(t, "live")
    BY DEF SessionsInit, Free, Is
  <2> QED BY <2>1 DEF Permit!Unheld
<1>2. IInv /\ [SessionsNext]_session => [Permit!PermitNext]_H
  BY StepPermitted
<1> QED BY <1>1, <1>2, Invariance, PTL DEF SessionsSpec, PermitPromise, Permit!PermitSpec, H

=============================================================================
