------------------------------ MODULE AuthSystem ------------------------------
(***************************************************************************)
(* AuthSystem of auth/mod.rs over the users of database/mod.rs: logins and *)
(* their lockout, registration, changes of password, status and role, with *)
(* the cache through which the users are read. Handlers are cut at their   *)
(* awaits; sessions are what the session manager promises (Permits).       *)
(***************************************************************************)
EXTENDS Permits

CONSTANTS
  Clients,      \* tasks that call the public methods, one at a time each
  Passwords,
  First,        \* users there before, administrators: none on a fresh installation
  MaxAttempts,  \* max_login_attempts
  Lockout,      \* lockout_duration
  Verification, \* require_callsign_verification
  Calls,        \* the calls clients make: all of AllCalls but for a bound
  None

AllCalls == {"login", "register", "change", "status", "role"}

ASSUME ClientAssumption  == IsFiniteSet(Clients) /\ IsFiniteSet(Users)
ASSUME SomeAssumption    == Users # {} /\ Passwords # {}
ASSUME FirstAssumption   == First \subseteq Users
ASSUME AttemptAssumption == MaxAttempts \in Nat \ {0} /\ Lockout \in Nat \ {0}
                            /\ Verification \in BOOLEAN
ASSUME CallAssumption    == Calls \subseteq AllCalls

VARIABLES
  row,       \* the users table, by callsign, which is UNIQUE
  cached,    \* DatabaseCache.users
  attempts,  \* login_attempts
  call,      \* what each client is executing
  proof,     \* history: the password a session was granted for
  guesses,   \* history: passwords verified for a user since the lock was set
  raced      \* history: the races a user has been in

vars == <<row, cached, attempts, call, holder, proof, guesses, raced>>

\* Operators and system users count as no administrators; all states but Active are one.
Row      == [password: Passwords, admin: BOOLEAN, active: BOOLEAN]
Copy     == [user: Row, fresh: BOOLEAN]
Attempts == [count: 0..MaxAttempts, lock: 0..Lockout, locked: BOOLEAN]
At       == {"idle", "find", "verify", "fail", "clear", "grant", "touch",
             "exists", "insert", "keep", "old", "set", "keep_new", "end",
             "set_status", "count", "role_of", "set_role", "drop"}
\* given: the password to verify. want: the user to be, of which a call uses its part.
\* missed: the cache had no fresh copy, and the table is asked.
Call     == [at: At, user: Users, given: Passwords, want: Row, missed: BOOLEAN]
Races    == {"create", "password", "login", "look", "demotion"}

ASSUME NoneAssumption == None \notin Row \cup Copy \cup Attempts

TypeOK ==
  /\ HolderOK
  /\ row \in [Users -> Row \cup {None}]
  /\ cached \in [Users -> Copy \cup {None}]
  /\ attempts \in [Users -> Attempts \cup {None}]
  /\ call \in [Clients -> Call]
  /\ proof \in [Tokens -> Passwords \cup {None}]
  /\ guesses \in [Users -> Nat]
  /\ raced \in [Users -> SUBSET Races]

Anyone   == CHOOSE u \in Users : TRUE
Anything == CHOOSE p \in Passwords : TRUE
Blank    == [password |-> Anything, admin |-> FALSE, active |-> TRUE]
Idle     == [at |-> "idle", user |-> Anyone, given |-> Anything, want |-> Blank, missed |-> FALSE]

Init ==
  /\ Unheld
  /\ row = [u \in Users |-> IF u \in First THEN [Blank EXCEPT !.admin = TRUE] ELSE None]
  /\ cached = [u \in Users |-> None]
  /\ attempts = [u \in Users |-> None]
  /\ call = [c \in Clients |-> Idle]
  /\ proof = [t \in Tokens |-> None]
  /\ guesses = [u \in Users |-> 0]
  /\ raced = [u \in Users |-> {}]

In(c, at) == call[c].at = at
Of(c)     == call[c].user
Busy(u, ats) == {c \in Clients : Of(c) = u /\ call[c].at \in ats}

Goto(c, at) == call' = [call EXCEPT ![c].at = at, ![c].missed = FALSE]
Ends(c)     == call' = [call EXCEPT ![c] = Idle]
Starts(c, kind, at, u, p, r) ==
  /\ In(c, "idle") /\ kind \in Calls
  /\ call' = [call EXCEPT ![c] =
                [at |-> at, user |-> u, given |-> p, want |-> r, missed |-> FALSE]]

Race(u, kind, with) == raced' = IF with = {} THEN raced ELSE [raced EXCEPT ![u] = @ \cup {kind}]

sessions == <<holder, proof>>
users    == <<row, cached>>

----------------------------------------------------------------------------
(* The users of database/mod.rs: the table and its cache.                  *)

HasCopy(u) == cached[u] # None /\ cached[u].fresh

\* A look at a user is two awaits if the cache has no fresh copy.
Looks == {"find", "verify", "exists", "old", "role_of"}
Miss(c) ==
  /\ call[c].at \in Looks /\ ~call[c].missed /\ ~HasCopy(Of(c))
  /\ call' = [call EXCEPT ![c].missed = TRUE]
  /\ UNCHANGED <<users, attempts, sessions, guesses, raced>>

Looked(c) == call[c].missed \/ HasCopy(Of(c))
Found(c)  == IF call[c].missed THEN row[Of(c)] ELSE cached[Of(c)].user

\* A write to a cached copy makes it fresh again, whatever its age.
Rewritten(u, r) == [cached EXCEPT ![u] = [user |-> r, fresh |-> TRUE]]
Renewed(u) == IF cached[u] = None THEN cached ELSE Rewritten(u, cached[u].user)

Write(u, r) == row' = [row EXCEPT ![u] = r] /\ UNCHANGED cached

----------------------------------------------------------------------------
(* authenticate.                                                           *)

Locked(u) == attempts[u] # None /\ attempts[u].locked /\ attempts[u].lock > 0

Refuses_Never(u) == FALSE
Refuses(u)       == Locked(u)

Login_Counts(c, u, p) ==
  /\ Starts(c, "login", IF Refuses(u) THEN "fail" ELSE "find", u, p, Blank)
  /\ UNCHANGED <<users, attempts, sessions, guesses, raced>>
Login(c, u, p) ==
  /\ ~Refuses(u)
  /\ Starts(c, "login", "find", u, p, Blank)
  /\ UNCHANGED <<users, attempts, sessions, guesses, raced>>

\* An unknown callsign, or one with a wrong syntax, is a failed attempt; a user who is
\* not active is refused and none.
Admitted_Any(r) == TRUE
Admitted(r) == r.active
Find(c) ==
  /\ In(c, "find") /\ Looked(c)
  /\ CASE Found(c) = None   -> Goto(c, "fail")
       [] Found(c) # None /\ Admitted(Found(c)) -> Goto(c, "verify")
       [] OTHER             -> Ends(c)
  /\ UNCHANGED <<users, attempts, sessions, guesses, raced>>

Verify(c) ==
  /\ In(c, "verify") /\ Looked(c)
  /\ Goto(c, IF Found(c).password = call[c].given THEN "clear" ELSE "fail")
  /\ guesses' = [guesses EXCEPT ![Of(c)] = IF Locked(Of(c)) THEN @ + 1 ELSE @]
  /\ UNCHANGED <<users, attempts, sessions, raced>>

\* record_failed_attempt: the count stays when a lock runs out. It is kept up to
\* MaxAttempts, which is all that matters of it.
Counted(u) == IF attempts[u] = None THEN 1
              ELSE IF attempts[u].count < MaxAttempts THEN attempts[u].count + 1
              ELSE MaxAttempts
Failed_Added(u) ==
  [count |-> Counted(u), locked |-> Counted(u) = MaxAttempts,
   lock |-> IF Counted(u) < MaxAttempts THEN 0
            ELSE Lockout + IF Locked(u) THEN attempts[u].lock ELSE 0]
Failed(u) ==
  IF Counted(u) = MaxAttempts THEN [count |-> MaxAttempts, lock |-> Lockout, locked |-> TRUE]
  ELSE [count |-> Counted(u), lock |-> 0, locked |-> FALSE]
RecordFailedAttempt(c) ==
  /\ In(c, "fail")
  /\ attempts' = [attempts EXCEPT ![Of(c)] = Failed(Of(c))]
  /\ guesses' = [guesses EXCEPT ![Of(c)] = IF Locked(Of(c)) THEN @ ELSE 0]
  /\ Ends(c)
  /\ UNCHANGED <<users, sessions, raced>>

\* A lock that others have set since is cleared with the rest.
ClearFailedAttempts(c) ==
  /\ In(c, "clear")
  /\ attempts' = [attempts EXCEPT ![Of(c)] = None]
  /\ guesses' = [guesses EXCEPT ![Of(c)] = 0]
  /\ Goto(c, "grant")
  /\ UNCHANGED <<users, sessions, raced>>

\* create_session, which may refuse.
CreateSession(c) ==
  /\ In(c, "grant")
  /\ \/ /\ \E t \in Tokens : /\ Grant(t, Of(c))
                             /\ proof' = [proof EXCEPT ![t] = call[c].given]
        /\ Goto(c, "touch")
     \/ Ends(c) /\ UNCHANGED sessions
  /\ UNCHANGED <<users, attempts, guesses, raced>>

\* update_last_login: what it writes to the table matters to nothing here.
UpdateLastLogin(c) ==
  /\ In(c, "touch")
  /\ cached' = Renewed(Of(c))
  /\ Ends(c)
  /\ UNCHANGED <<row, attempts, sessions, guesses, raced>>

----------------------------------------------------------------------------
(* register.                                                               *)

\* Whom the license database does not know is to be verified, and not active till then.
Register(c, u, p, active) ==
  /\ active \/ Verification
  /\ Starts(c, "register", "exists", u, Anything,
            [Blank EXCEPT !.password = p, !.active = active])
  /\ UNCHANGED <<users, attempts, sessions, guesses, raced>>

Exists(c) ==
  /\ In(c, "exists") /\ Looked(c)
  /\ IF Found(c) = None THEN Goto(c, "insert") ELSE Ends(c)
  /\ UNCHANGED <<users, attempts, sessions, guesses, raced>>

\* create_user: the callsign is UNIQUE, so that the second of two inserts is an error.
InsertUser(c) ==
  /\ In(c, "insert")
  /\ IF row[Of(c)] = None
     THEN Write(Of(c), call[c].want) /\ Goto(c, "keep")
     ELSE Ends(c) /\ UNCHANGED users
  /\ UNCHANGED <<attempts, sessions, guesses, raced>>

KeepUser(c) ==
  /\ In(c, "keep")
  /\ cached' = Rewritten(Of(c), call[c].want)
  /\ Ends(c)
  /\ UNCHANGED <<row, attempts, sessions, guesses, raced>>

----------------------------------------------------------------------------
(* change_password.                                                        *)

ChangePassword(c, u, p, q) ==
  /\ row[u] # None
  /\ Starts(c, "change", "old", u, p, [Blank EXCEPT !.password = q])
  /\ UNCHANGED <<users, attempts, sessions, guesses, raced>>

CheckOld(c) ==
  /\ In(c, "old") /\ Looked(c)
  /\ IF Found(c).password = call[c].given THEN Goto(c, "set") ELSE Ends(c)
  /\ UNCHANGED <<users, attempts, sessions, guesses, raced>>

SetPassword(c) ==
  /\ In(c, "set")
  /\ Write(Of(c), [row[Of(c)] EXCEPT !.password = call[c].want.password])
  /\ raced' = [raced EXCEPT ![Of(c)] =
                 @ \cup (IF Busy(Of(c), {"keep"}) # {} THEN {"create"} ELSE {})
                   \cup (IF Busy(Of(c), {"keep_new"}) # {} THEN {"password"} ELSE {})]
  /\ Goto(c, "keep_new")
  /\ UNCHANGED <<attempts, sessions, guesses>>

KeepPassword_Old(c) ==
  /\ In(c, "keep_new")
  /\ cached' = Renewed(Of(c))
  /\ Goto(c, "end")
  /\ UNCHANGED <<row, attempts, sessions, guesses, raced>>
KeepPassword(c) ==
  /\ In(c, "keep_new")
  /\ cached' = IF cached[Of(c)] = None THEN cached
               ELSE Rewritten(Of(c), [cached[Of(c)].user EXCEPT !.password = call[c].want.password])
  /\ Goto(c, "end")
  /\ UNCHANGED <<row, attempts, sessions, guesses, raced>>

\* invalidate_user_sessions; a login whose password is verified has its session to come.
EndSessions_None(c) ==
  /\ In(c, "end")
  /\ Ends(c)
  /\ Race(Of(c), "login", Busy(Of(c), {"clear", "grant"}))
  /\ UNCHANGED <<users, attempts, guesses, sessions>>
EndSessions(c) ==
  /\ In(c, "end")
  /\ Withdraw(Held(Of(c)))
  /\ proof' = [t \in Tokens |-> IF t \in Held(Of(c)) THEN None ELSE proof[t]]
  /\ Ends(c)
  /\ Race(Of(c), "login", Busy(Of(c), {"clear", "grant"}))
  /\ UNCHANGED <<users, attempts, guesses>>

----------------------------------------------------------------------------
(* update_user_status and update_user_role, for whoever was an             *)
(* administrator when looked up.                                           *)

UpdateStatus(c, u, active) ==
  /\ row[u] # None
  /\ Starts(c, "status", "set_status", u, Anything, [Blank EXCEPT !.active = active])
  /\ UNCHANGED <<users, attempts, sessions, guesses, raced>>

SetStatus(c) ==
  /\ In(c, "set_status")
  /\ Write(Of(c), [row[Of(c)] EXCEPT !.active = call[c].want.active])
  /\ Race(Of(c), "create", Busy(Of(c), {"keep"}))
  /\ Goto(c, "drop")
  /\ UNCHANGED <<attempts, sessions, guesses>>

\* The administrators are counted only for a role that takes one away.
UpdateRole(c, u, admin) ==
  /\ row[u] # None
  /\ Starts(c, "role", IF admin THEN "set_role" ELSE "count", u, Anything,
            [Blank EXCEPT !.admin = admin])
  /\ UNCHANGED <<users, attempts, sessions, guesses, raced>>

AdminUsers == {u \in Users : row[u] # None /\ row[u].admin}

Suffice_Always == TRUE
Suffice == Cardinality(AdminUsers) > 1
CountAdmins(c) ==
  /\ In(c, "count")
  /\ Goto(c, IF Suffice THEN "set_role" ELSE "role_of")
  /\ UNCHANGED <<users, attempts, sessions, guesses, raced>>

RoleOf(c) ==
  /\ In(c, "role_of") /\ Looked(c)
  /\ IF Found(c).admin THEN Ends(c) ELSE Goto(c, "set_role")
  /\ Race(Of(c), "look", Busy(Of(c), {"drop"}))
  /\ UNCHANGED <<users, attempts, sessions, guesses>>

\* A demotion, or a count before it, may be overtaken by another.
Demoting == {d \in Clients : call[d].at \in {"set_role", "role_of"} /\ ~call[d].want.admin}
SetRole(c) ==
  /\ In(c, "set_role")
  /\ Write(Of(c), [row[Of(c)] EXCEPT !.admin = call[c].want.admin])
  /\ raced' = [raced EXCEPT ![Of(c)] =
                 @ \cup (IF Busy(Of(c), {"keep"}) # {} THEN {"create"} ELSE {})
                   \cup (IF Demoting \ {c} # {} THEN {"demotion"} ELSE {})]
  /\ Goto(c, "drop")
  /\ UNCHANGED <<attempts, sessions, guesses>>

DropCopy(c) ==
  /\ In(c, "drop")
  /\ cached' = [cached EXCEPT ![Of(c)] = None]
  /\ Ends(c)
  /\ UNCHANGED <<row, attempts, sessions, guesses, raced>>

----------------------------------------------------------------------------
(* Errors, the rest of the process, and time.                              *)

\* A statement fails, and the handler stops where it is.
DbError(c) ==
  /\ \/ call[c].at \in Looks /\ call[c].missed
     \/ call[c].at \in {"touch", "insert", "set", "set_status", "count", "set_role"}
  /\ Ends(c)
  /\ UNCHANGED <<users, attempts, sessions, guesses, raced>>

\* update_profile writes nothing that matters here, and renews the copy.
UpdateProfile(u) ==
  /\ cached[u] # None /\ ~cached[u].fresh
  /\ cached' = Renewed(u)
  /\ UNCHANGED <<row, attempts, call, sessions, guesses, raced>>

\* Sessions end by logout, expiry and cleanup.
SessionEnds(t) ==
  /\ holder[t] # Nobody
  /\ Withdraw({t})
  /\ proof' = [proof EXCEPT ![t] = None]
  /\ UNCHANGED <<users, attempts, call, guesses, raced>>

\* cleanup: an entry whose lock is over goes, and one without a lock after an hour.
Over(u) == attempts[u] # None /\ attempts[u].locked /\ attempts[u].lock = 0
Cleanup ==
  /\ \E S \in SUBSET {u \in Users : attempts[u] # None /\ ~attempts[u].locked} :
       attempts' = [u \in Users |-> IF u \in S \/ Over(u) THEN None ELSE attempts[u]]
  /\ UNCHANGED <<users, call, sessions, guesses, raced>>

\* 300 s pass for a copy.
GrowOld(u) ==
  /\ HasCopy(u)
  /\ cached' = [cached EXCEPT ![u].fresh = FALSE]
  /\ UNCHANGED <<row, attempts, call, sessions, guesses, raced>>

Tick ==
  /\ \E u \in Users : Locked(u)
  /\ attempts' = [u \in Users |-> IF Locked(u) THEN [attempts[u] EXCEPT !.lock = @ - 1]
                                  ELSE attempts[u]]
  /\ UNCHANGED <<users, call, sessions, guesses, raced>>

\* Only the table outlives the process.
Restart ==
  /\ cached' = [u \in Users |-> None]
  /\ attempts' = [u \in Users |-> None]
  /\ call' = [c \in Clients |-> Idle]
  /\ Withdraw(Tokens)
  /\ proof' = [t \in Tokens |-> None]
  /\ guesses' = [u \in Users |-> 0]
  /\ UNCHANGED <<row, raced>>

----------------------------------------------------------------------------

Begins(c) ==
  \E u \in Users :
    \/ \E p \in Passwords : Login(c, u, p)
    \/ \E p \in Passwords, b \in BOOLEAN : Register(c, u, p, b)
    \/ \E p, q \in Passwords : ChangePassword(c, u, p, q)
    \/ \E b \in BOOLEAN : UpdateStatus(c, u, b) \/ UpdateRole(c, u, b)

Progress(c) ==
  \/ Miss(c)
  \/ Find(c) \/ Verify(c) \/ RecordFailedAttempt(c) \/ ClearFailedAttempts(c)
  \/ CreateSession(c) \/ UpdateLastLogin(c)
  \/ Exists(c) \/ InsertUser(c) \/ KeepUser(c)
  \/ CheckOld(c) \/ SetPassword(c) \/ KeepPassword(c) \/ EndSessions(c)
  \/ SetStatus(c) \/ CountAdmins(c) \/ RoleOf(c) \/ SetRole(c) \/ DropCopy(c)

Next ==
  \/ \E c \in Clients : Begins(c) \/ Progress(c) \/ DbError(c)
  \/ \E u \in Users : UpdateProfile(u) \/ GrowOld(u)
  \/ \E t \in Tokens : SessionEnds(t)
  \/ Cleanup \/ Tick \/ Restart

Spec == Init /\ [][Next]_vars

\* Time passes; nothing else need happen for a lock to end.
FairSpec == Spec /\ WF_vars(Tick)

----------------------------------------------------------------------------
(* Properties.                                                             *)

\* Logins look at the lock once, at the start: while a user is locked, no more passwords
\* are tried than there are other clients that were logging in when the lock was set.
GuessesBounded == \A u \in Users : Locked(u) => guesses[u] < Cardinality(Clients)

\* The late ones renew the lock, and still every lock ends.
LockEnds == \A u \in Users : []<>~Locked(u)

\* The cache, which writes renew for ever, agrees with the table once a change is over,
\* but for two races: with a create that has yet to cache what it inserted, and between
\* two changes of password.
CopyCurrent ==
  \A u \in Users : cached[u] # None =>
    \/ cached[u].user = row[u]
    \/ Busy(u, {"keep_new", "drop"}) # {}
    \/ raced[u] \cap {"create", "password"} # {}

\* Once a change of password is over, every session was granted for the new one: but for
\* logins verified before and granted after, and for an outdated copy.
SessionsCurrent ==
  \A t \in Tokens : holder[t] # Nobody =>
    \/ proof[t] = row[holder[t]].password
    \/ Busy(holder[t], {"keep_new", "end"}) # {}
    \/ raced[holder[t]] \cap {"login", "create", "password"} # {}

\* Who is suspended, in the table and in the cache, and has no session left and no login
\* on its way past the status, stays out until the status changes again.
Out(u) == /\ row[u] # None /\ ~row[u].active
          /\ cached[u] # None => ~cached[u].user.active
          /\ Busy(u, {"keep", "verify", "clear", "grant"}) = {}
          /\ Held(u) = {}
StaysOut == [][\A u \in Users : Out(u) => Out(u)' \/ row'[u].active]_vars

\* There is always an administrator, but for demotions that overlap and for looks at a
\* role that is being changed or at an outdated copy.
AdminRemains ==
  \/ First = {} \/ AdminUsers # {}
  \/ \E u \in Users : raced[u] \cap {"demotion", "look", "create"} # {}

\* What the comment in update_user_role says: "Prevent removing the last administrator".
LastAdmin == First # {} => AdminUsers # {}
=============================================================================
