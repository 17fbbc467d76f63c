-------------------------- MODULE AuthSystem_proofs --------------------------
(***************************************************************************)
(* Safety of AuthSystem for any number of clients, users and passwords.    *)
(***************************************************************************)
EXTENDS AuthSystem, FiniteSetTheorems, TLAPS

USE DEF At, Looks, Races

\* Where the user of a call is a row of the table: rows are never deleted.
Unsure == {"idle", "find", "fail", "exists", "insert"}

Known(c) == call[c].at \notin Unsure => row[Of(c)] # None

\* What a call will write to the cache is what it wrote to the table.
Keeping(c) ==
  /\ In(c, "keep") => call[c].want = row[Of(c)] \/ "create" \in raced[Of(c)]
  /\ In(c, "keep_new") => \/ call[c].want.password = row[Of(c)].password
                          \/ "password" \in raced[Of(c)]

\* A password that a login has verified is the user's, until a change is over.
Verified(c) ==
  call[c].at \in {"clear", "grant"} =>
    \/ call[c].given = row[Of(c)].password
    \/ Busy(Of(c), {"keep_new", "end"}) # {}
    \/ raced[Of(c)] \cap {"login", "create", "password"} # {}

\* A demotion that has been let through takes no last administrator's role.
Excused == First = {} \/ \E u \in Users : raced[u] \cap {"demotion", "look", "create"} # {}
Spared(c) == In(c, "set_role") /\ ~call[c].want.admin => AdminUsers \ {Of(c)} # {} \/ Excused

ClientInv(c) == Known(c) /\ Keeping(c) /\ Verified(c) /\ Spared(c)

\* The two halves of CopyCurrent, which different writes disturb.
PasswordCopied(u) ==
  \/ cached[u].user.password = row[u].password
  \/ Busy(u, {"keep_new"}) # {}
  \/ raced[u] \cap {"create", "password"} # {}
StatusCopied(u) ==
  \/ cached[u].user.admin = row[u].admin /\ cached[u].user.active = row[u].active
  \/ Busy(u, {"drop"}) # {}
  \/ "create" \in raced[u]

UserInv(u) == cached[u] # None => row[u] # None /\ PasswordCopied(u) /\ StatusCopied(u)

TokenInv(t) ==
  holder[t] # Nobody =>
    /\ row[holder[t]] # None
    /\ \/ proof[t] = row[holder[t]].password
       \/ Busy(holder[t], {"keep_new", "end"}) # {}
       \/ raced[holder[t]] \cap {"login", "create", "password"} # {}

\* Of the clients, some have guessed while the user was locked, some are about to, and
\* the one whose failure set the lock does neither.
Guessing(u) == Busy(u, {"find", "verify"})
GuessInv(u) == Locked(u) => guesses[u] + Cardinality(Guessing(u)) < Cardinality(Clients)

IInv ==
  /\ TypeOK
  /\ \A c \in Clients : ClientInv(c)
  /\ \A u \in Users : UserInv(u)
  /\ \A t \in Tokens : TokenInv(t)
  /\ \A u \in Users : GuessInv(u)
  /\ AdminRemains

(***************************************************************************)
(* What a step does to the calls.                                          *)
(***************************************************************************)

\* Client c moves to a place, and is asked nothing new.
Moves(c, at) ==
  /\ call' \in [Clients -> Call]
  /\ call'[c].at = at /\ ~call'[c].missed
  /\ call'[c].user = call[c].user /\ call'[c].given = call[c].given
  /\ call'[c].want = call[c].want
  /\ \A d \in Clients \ {c} : call'[d] = call[d]

LEMMA GotoEffect ==
  ASSUME TypeOK, NEW c \in Clients, NEW at \in At, Goto(c, at)
  PROVE  Moves(c, at)
<1>1. call[c] \in Call
  BY DEF TypeOK
<1>2. call'[c] = [call[c] EXCEPT !.at = at, !.missed = FALSE]
  BY <1>1 DEF TypeOK, Goto, Call
<1>3. call'[c] \in Call
  BY <1>1, <1>2 DEF Call
<1>4. \A d \in Clients \ {c} : call'[d] = call[d]
  BY DEF TypeOK, Goto
<1>5. call' \in [Clients -> Call]
  BY <1>3, <1>4 DEF TypeOK, Goto
<1> QED BY <1>1, <1>2, <1>4, <1>5 DEF Moves, Call

LEMMA IdleTyped == Idle \in Call
<1>1. Anyone \in Users /\ Anything \in Passwords
  BY SomeAssumption DEF Anyone, Anything
<1> QED BY <1>1 DEF Idle, Call, Blank, Row

\* Client c has ended its call, or begun one that finds it idle.
Begun(c, at, u) ==
  /\ call' \in [Clients -> Call]
  /\ call'[c].at = at /\ call'[c].user = u
  /\ \A d \in Clients \ {c} : call'[d] = call[d]

LEMMA EndsEffect ==
  ASSUME TypeOK, NEW c \in Clients, Ends(c)
  PROVE  Begun(c, "idle", Anyone)
<1>1. call'[c] = Idle /\ \A d \in Clients \ {c} : call'[d] = call[d]
  BY DEF TypeOK, Ends
<1>2. call' \in [Clients -> Call]
  BY <1>1, IdleTyped DEF TypeOK, Ends
<1> QED BY <1>1, <1>2 DEF Begun, Idle

LEMMA StartsEffect ==
  ASSUME TypeOK, NEW c \in Clients, NEW kind, NEW at \in At, NEW u \in Users,
         NEW p \in Passwords, NEW r \in Row, Starts(c, kind, at, u, p, r)
  PROVE  Begun(c, at, u) /\ call[c].at = "idle" /\ call'[c].want = r
<1> DEFINE new == [at |-> at, user |-> u, given |-> p, want |-> r, missed |-> FALSE]
<1>1. call'[c] = new /\ \A d \in Clients \ {c} : call'[d] = call[d]
  BY DEF TypeOK, Starts
<1>2. new \in Call
  BY DEF Call
<1>3. call' \in [Clients -> Call]
  BY <1>1, <1>2 DEF TypeOK, Starts
<1> QED BY <1>1, <1>3 DEF Begun, Starts, In

LEMMA Requests ==
  /\ Anything \in Passwords /\ Blank \in Row
  /\ \A p \in Passwords : [Blank EXCEPT !.password = p] \in Row
  /\ \A b \in BOOLEAN : /\ [Blank EXCEPT !.active = b] \in Row
                        /\ [Blank EXCEPT !.admin = b] \in Row
  /\ \A p \in Passwords, b \in BOOLEAN : [Blank EXCEPT !.password = p, !.active = b] \in Row
<1>1. Anything \in Passwords
  BY SomeAssumption DEF Anything
<1> QED BY <1>1 DEF Blank, Row

LEMMA BusyKept ==
  ASSUME NEW ats, \A d \in Clients : call'[d] = call[d] \/ call[d].at \notin ats
  PROVE  \A u : Busy(u, ats) \subseteq Busy(u, ats)'
BY DEF Busy, Of

(***************************************************************************)
(* What stays as it is.                                                    *)
(***************************************************************************)

\* No call leaves a place where a change is not over.
NoneOver == \A d \in Clients : call'[d] = call[d] \/ call[d].at \notin {"keep_new", "end", "drop"}
RacesKept == \A u \in Users : raced[u] \subseteq raced'[u]

\* The changes of a password, and those of the copy of user u, go on.
ChangesOn   == \A u : Busy(u, {"keep_new", "end"}) \subseteq Busy(u, {"keep_new", "end"})'
CopiesOn(u) == /\ Busy(u, {"keep_new"}) \subseteq Busy(u, {"keep_new"})'
               /\ Busy(u, {"drop"}) \subseteq Busy(u, {"drop"})'

LEMMA NoneOverOn ==
  ASSUME NoneOver
  PROVE  ChangesOn /\ \A u : CopiesOn(u)
BY BusyKept DEF NoneOver, ChangesOn, CopiesOn

LEMMA ClientsKept ==
  ASSUME IInv, row' = row, ChangesOn, RacesKept
  PROVE  /\ \A d \in Clients : call'[d] = call[d] => ClientInv(d)'
         /\ AdminRemains' /\ (Excused => Excused')
<1>1. \A u : Busy(u, {"keep_new", "end"}) \subseteq Busy(u, {"keep_new", "end"})'
  BY DEF ChangesOn
<1>2. Excused => Excused'
  BY DEF Excused, RacesKept
<1>3. AdminUsers' = AdminUsers
  BY DEF AdminUsers
<1>4. AdminRemains'
  BY <1>3 DEF IInv, AdminRemains, RacesKept
<1>5. ASSUME NEW d \in Clients, call'[d] = call[d]
      PROVE  ClientInv(d)'
  <2>1. ClientInv(d) /\ Of(d) \in Users /\ Of(d)' = Of(d)
    BY <1>5 DEF IInv, TypeOK, Call, Of
  <2>2. Known(d)' /\ Keeping(d)'
    BY <1>5, <2>1 DEF ClientInv, Known, Keeping, In, RacesKept
  <2>3. Verified(d)'
    BY <1>1, <1>5, <2>1 DEF ClientInv, Verified, RacesKept
  <2>4. Spared(d)'
    BY <1>2, <1>3, <1>5, <2>1 DEF ClientInv, Spared, In
  <2> QED BY <2>2, <2>3, <2>4 DEF ClientInv
<1> QED BY <1>2, <1>4, <1>5

LEMMA UserKept ==
  ASSUME IInv, row' = row, RacesKept, NEW u \in Users, CopiesOn(u),
         cached'[u] # None => cached[u] # None /\ cached'[u].user = cached[u].user
  PROVE  UserInv(u)'
<1>1. UserInv(u)
  BY DEF IInv
<1> QED BY <1>1 DEF CopiesOn, UserInv, PasswordCopied, StatusCopied, RacesKept

LEMMA TokenKept ==
  ASSUME IInv, row' = row, ChangesOn, RacesKept, NEW t \in Tokens,
         holder'[t] # Nobody => holder'[t] = holder[t] /\ proof'[t] = proof[t]
  PROVE  TokenInv(t)'
<1>1. TokenInv(t) /\ (holder[t] # Nobody => holder[t] \in Users)
  BY DEF IInv, TypeOK, HolderOK
<1> QED BY <1>1 DEF ChangesOn, TokenInv, RacesKept

\* No lock is set, and nobody comes to guess who did not.
LEMMA GuessKept ==
  ASSUME TypeOK, TypeOK', NEW u \in Users, GuessInv(u),
         Locked(u)' => Locked(u) /\ guesses'[u] = guesses[u],
         Locked(u)' => Guessing(u)' \subseteq Guessing(u)
  PROVE  GuessInv(u)'
<1> SUFFICES ASSUME Locked(u)' PROVE GuessInv(u)'
  BY DEF GuessInv
<1>1. IsFiniteSet(Guessing(u)) /\ Cardinality(Guessing(u)) \in Nat
  BY ClientAssumption, FS_Subset, FS_CardinalityType DEF Guessing, Busy
<1>2. Cardinality(Guessing(u)') <= Cardinality(Guessing(u)) /\ Cardinality(Guessing(u)') \in Nat
  BY <1>1, FS_Subset, FS_CardinalityType
<1>3. guesses[u] \in Nat /\ Cardinality(Clients) \in Nat
  BY ClientAssumption, FS_CardinalityType DEF TypeOK
<1> QED BY <1>1, <1>2, <1>3 DEF GuessInv

(***************************************************************************)
(* The steps of one call that write neither the table nor a copy.          *)
(***************************************************************************)

Quiet ==
  /\ row' = row /\ RacesKept
  /\ \A u \in Users : cached'[u] # None => cached[u] # None /\ cached'[u].user = cached[u].user
  /\ \A t \in Tokens : holder'[t] # Nobody => holder'[t] = holder[t] /\ proof'[t] = proof[t]

NoLock == \A u \in Users : Locked(u)' => Locked(u) /\ guesses'[u] = guesses[u]

\* Client c guesses for a locked user only if it did before.
GuessesOn(c) ==
  \A u \in Users : Locked(u)' /\ call'[c].at \in {"find", "verify"} /\ call'[c].user = u
                     => call[c].at \in {"find", "verify"} /\ call[c].user = u

LEMMA GuessingOn ==
  ASSUME NEW c \in Clients, \A d \in Clients \ {c} : call'[d] = call[d], GuessesOn(c)
  PROVE  \A u \in Users : Locked(u)' => Guessing(u)' \subseteq Guessing(u)
BY DEF GuessesOn, Guessing, Busy, Of

LEMMA RestKept ==
  ASSUME IInv, NEW c \in Clients, Quiet,
         \A d \in Clients \ {c} : call'[d] = call[d],
         call[c].at \notin {"keep_new", "end", "drop"},
         ClientInv(c)'
  PROVE  /\ \A d \in Clients : ClientInv(d)'
         /\ \A u \in Users : UserInv(u)'
         /\ \A t \in Tokens : TokenInv(t)'
         /\ AdminRemains'
<1>1. NoneOver /\ RacesKept /\ row' = row
  BY DEF NoneOver, Quiet
<1>2. (\A d \in Clients : ClientInv(d)') /\ AdminRemains'
  BY <1>1, ClientsKept, NoneOverOn
<1>3. \A u \in Users : UserInv(u)'
  BY <1>1, UserKept, NoneOverOn DEF Quiet
<1>4. \A t \in Tokens : TokenInv(t)'
  BY <1>1, TokenKept, NoneOverOn DEF Quiet
<1> QED BY <1>2, <1>3, <1>4

LEMMA CallKept ==
  ASSUME IInv, TypeOK', NEW c \in Clients, Quiet, NoLock, GuessesOn(c),
         \A d \in Clients \ {c} : call'[d] = call[d],
         call[c].at \notin {"keep_new", "end", "drop"},
         ClientInv(c)'
  PROVE  IInv'
<1>1. \A u \in Users : GuessInv(u)'
  BY GuessingOn, GuessKept DEF IInv, NoLock
<1> QED BY <1>1, RestKept DEF IInv

\* A call at a place of which ClientInv says no more than that the user is known.
LEMMA PlainClient ==
  ASSUME NEW c \in Clients,
         call'[c].at \notin {"keep", "keep_new", "clear", "grant", "set_role"},
         call'[c].at \notin Unsure => row'[call'[c].user] # None
  PROVE  ClientInv(c)'
BY DEF ClientInv, Known, Keeping, Verified, Spared, In, Of

Unwritten == UNCHANGED <<users, attempts, sessions, guesses>> /\ RacesKept

LEMMA UnwrittenQuiet ==
  ASSUME Unwritten
  PROVE  Quiet /\ NoLock
BY DEF Unwritten, Quiet, NoLock, Locked, users, sessions

LEMMA UnwrittenTyped ==
  ASSUME TypeOK, Unwritten, call' \in [Clients -> Call], raced' \in [Users -> SUBSET Races]
  PROVE  TypeOK'
BY DEF TypeOK, HolderOK, Unwritten, users, sessions

LEMMA RacedSame ==
  ASSUME TypeOK, UNCHANGED raced
  PROVE  RacesKept /\ raced' \in [Users -> SUBSET Races]
BY DEF TypeOK, RacesKept

LEMMA RaceTyped ==
  ASSUME TypeOK, NEW u \in Users, NEW kind \in Races, NEW with, Race(u, kind, with)
  PROVE  /\ RacesKept /\ raced' \in [Users -> SUBSET Races]
         /\ with # {} => kind \in raced'[u]
BY DEF TypeOK, RacesKept, Race

\* A call begins at a place where nothing more is known.
LEMMA BeginStep ==
  ASSUME IInv, NEW c \in Clients, Begins(c)
  PROVE  IInv'
<1>1. TypeOK
  BY DEF IInv
<1>2. ASSUME NEW kind, NEW at \in At, NEW u \in Users, NEW p \in Passwords, NEW r \in Row,
             Starts(c, kind, at, u, p, r), Unwritten, UNCHANGED raced,
             at = "find" => ~Locked(u),
             at \notin {"verify", "keep", "keep_new", "clear", "grant"},
             at = "set_role" => r.admin,
             at \notin Unsure => row[u] # None
      PROVE  IInv'
  <2>1. Begun(c, at, u) /\ call[c].at = "idle" /\ call'[c].want = r
    BY <1>1, <1>2, StartsEffect
  <2>2. TypeOK'
    BY <1>1, <1>2, <2>1, UnwrittenTyped, RacedSame DEF Begun
  <2>3. ClientInv(c)'
    BY <1>2, <2>1 DEF ClientInv, Known, Keeping, Verified, Spared, In, Of, Begun, Unwritten, users
  <2>4. Quiet /\ NoLock
    BY <1>2, UnwrittenQuiet
  <2>5. CASE at = "find"
    <3>1. GuessesOn(c)
      BY <1>2, <2>1, <2>5 DEF GuessesOn, Begun, Unwritten, Locked
    <3> QED BY <2>1, <2>2, <2>3, <2>4, <3>1, CallKept DEF Begun
  <2>6. CASE at \notin {"find", "verify"}
    <3>1. GuessesOn(c)
      BY <2>1, <2>6 DEF GuessesOn, Begun
    <3> QED BY <2>1, <2>2, <2>3, <2>4, <3>1, CallKept DEF Begun
  <2> QED BY <1>2, <2>5, <2>6
<1>3. ASSUME NEW u \in Users, NEW p \in Passwords, Login(c, u, p)
      PROVE  IInv'
  <2>1. Blank \in Row
    BY Requests
  <2> QED BY <1>1, <1>2, <1>3, <2>1, RacedSame DEF Login, Refuses, Unwritten, Unsure
<1>4. ASSUME NEW u \in Users, NEW p \in Passwords, NEW b \in BOOLEAN, Register(c, u, p, b)
      PROVE  IInv'
  <2>1. Anything \in Passwords /\ [Blank EXCEPT !.password = p, !.active = b] \in Row
    BY Requests
  <2> QED BY <1>1, <1>2, <1>4, <2>1, RacedSame DEF Register, Unwritten, Unsure
<1>5. ASSUME NEW u \in Users, NEW p \in Passwords, NEW q \in Passwords, ChangePassword(c, u, p, q)
      PROVE  IInv'
  <2>1. [Blank EXCEPT !.password = q] \in Row
    BY Requests
  <2> QED BY <1>1, <1>2, <1>5, <2>1, RacedSame DEF ChangePassword, Unwritten, Unsure
<1>6. ASSUME NEW u \in Users, NEW b \in BOOLEAN, UpdateStatus(c, u, b)
      PROVE  IInv'
  <2>1. Anything \in Passwords /\ [Blank EXCEPT !.active = b] \in Row
    BY Requests
  <2> QED BY <1>1, <1>2, <1>6, <2>1, RacedSame DEF UpdateStatus, Unwritten, Unsure
<1>7. ASSUME NEW u \in Users, NEW b \in BOOLEAN, UpdateRole(c, u, b)
      PROVE  IInv'
  <2>1. Anything \in Passwords /\ [Blank EXCEPT !.admin = b] \in Row
        /\ [Blank EXCEPT !.admin = b].admin = b
    BY Requests DEF Blank
  <2> DEFINE at == IF b THEN "set_role" ELSE "count"
  <2>2. at \in At /\ at # "find" /\ (at = "set_role" => b)
        /\ at \notin {"verify", "keep", "keep_new", "clear", "grant"}
    OBVIOUS
  <2>3. /\ Starts(c, "role", at, u, Anything, [Blank EXCEPT !.admin = b])
        /\ Unwritten /\ UNCHANGED raced /\ row[u] # None
    BY <1>1, <1>7, RacedSame DEF UpdateRole, Unwritten
  <2> HIDE DEF at
  <2> QED BY <1>2, <2>1, <2>2, <2>3
<1> QED BY <1>3, <1>4, <1>5, <1>6, <1>7 DEF Begins

LEMMA EndStep ==
  ASSUME IInv, NEW c \in Clients, Ends(c), Unwritten, raced' \in [Users -> SUBSET Races],
         call[c].at \notin {"keep_new", "end", "drop"}
  PROVE  IInv'
<1>1. Begun(c, "idle", Anyone)
  BY EndsEffect DEF IInv
<1>2. TypeOK'
  BY <1>1, UnwrittenTyped DEF IInv, Begun
<1>3. ClientInv(c)' /\ GuessesOn(c)
  BY <1>1, PlainClient DEF Begun, GuessesOn, Unsure
<1> QED BY <1>1, <1>2, <1>3, UnwrittenQuiet, CallKept DEF Begun

LEMMA MoveStep ==
  ASSUME IInv, NEW c \in Clients, NEW at \in At, Moves(c, at), Unwritten,
         raced' \in [Users -> SUBSET Races],
         call[c].at \notin {"keep_new", "end", "drop"},
         at \in {"find", "verify"} => call[c].at \in {"find", "verify"},
         ClientInv(c)'
  PROVE  IInv'
<1>1. TypeOK'
  BY UnwrittenTyped DEF IInv, Moves
<1>2. GuessesOn(c)
  BY DEF Moves, GuessesOn
<1> QED BY <1>1, <1>2, UnwrittenQuiet, CallKept DEF Moves

\* The frames of the actions, as Unwritten states them.
LEMMA Frame ==
  ASSUME TypeOK, UNCHANGED <<users, attempts, sessions, guesses, raced>>
  PROVE  Unwritten /\ raced' \in [Users -> SUBSET Races]
BY RacedSame DEF Unwritten

LEMMA CallTyped ==
  ASSUME IInv, NEW c \in Clients
  PROVE  call[c] \in Call /\ Of(c) \in Users /\ ClientInv(c)
         /\ row[Of(c)] \in Row \cup {None} /\ UserInv(Of(c))
BY DEF IInv, TypeOK, Call, Of

\* What is found is what there is, but while a change is not over or after a race.
LEMMA FoundRow ==
  ASSUME IInv, NEW c \in Clients, Looked(c)
  PROVE  \/ Found(c) = row[Of(c)]
         \/ /\ Found(c) # None /\ row[Of(c)] # None
            /\ Found(c) = cached[Of(c)].user
            /\ PasswordCopied(Of(c)) /\ StatusCopied(Of(c))
<1>1. UserInv(Of(c)) /\ cached[Of(c)] \in Copy \cup {None}
  BY CallTyped DEF IInv, TypeOK
<1>2. CASE call[c].missed
  BY <1>2 DEF Found
<1>3. CASE ~call[c].missed
  <2>1. cached[Of(c)] \in Copy
    BY <1>1, <1>3 DEF Looked, HasCopy
  <2>2. Found(c) \in Row /\ Found(c) = cached[Of(c)].user
    BY <1>3, <2>1 DEF Found, Copy
  <2> QED BY <1>1, <2>1, <2>2, NoneAssumption DEF UserInv
<1> QED BY <1>2, <1>3

LEMMA MissStep ==
  ASSUME IInv, NEW c \in Clients, Miss(c)
  PROVE  IInv'
<1>1. /\ call[c] \in Call /\ ClientInv(c)
      /\ call[c].at \in Looks
  BY CallTyped DEF Miss
<1>2. call'[c] = [call[c] EXCEPT !.missed = TRUE] /\ \A d \in Clients \ {c} : call'[d] = call[d]
  BY <1>1 DEF IInv, TypeOK, Miss
<1>3. call'[c] \in Call /\ call'[c].at = call[c].at /\ call'[c].user = call[c].user
  BY <1>1, <1>2 DEF Call
<1>4. call' \in [Clients -> Call]
  BY <1>2, <1>3 DEF IInv, TypeOK, Miss
<1>5. Unwritten /\ raced' \in [Users -> SUBSET Races] /\ row' = row
  BY Frame DEF IInv, Miss, users
<1>6. TypeOK'
  BY <1>4, <1>5, UnwrittenTyped DEF IInv
<1>7. ClientInv(c)'
  BY <1>1, <1>3, <1>5, PlainClient DEF ClientInv, Known, Of
<1>8. GuessesOn(c)
  BY <1>3 DEF GuessesOn
<1> QED BY <1>1, <1>2, <1>5, <1>6, <1>7, <1>8, UnwrittenQuiet, CallKept

LEMMA FindStep ==
  ASSUME IInv, NEW c \in Clients, Find(c)
  PROVE  IInv'
<1>1. Unwritten /\ raced' \in [Users -> SUBSET Races] /\ row' = row /\ call[c].at = "find"
  BY Frame DEF IInv, Find, In, users
<1>2. CASE Goto(c, "fail")
  <2>1. Moves(c, "fail")
    BY <1>2, GotoEffect DEF IInv
  <2>2. ClientInv(c)'
    BY <2>1, PlainClient DEF Moves, Unsure
  <2> QED BY <1>1, <2>1, <2>2, MoveStep
<1>3. CASE Goto(c, "verify") /\ Found(c) # None
  <2>1. Moves(c, "verify")
    BY <1>3, GotoEffect DEF IInv
  <2>2. row[Of(c)] # None
    BY <1>3, FoundRow DEF Find
  <2>3. ClientInv(c)'
    BY <1>1, <2>1, <2>2, PlainClient DEF Moves, Unsure, Of
  <2> QED BY <1>1, <2>1, <2>3, MoveStep
<1>4. CASE Ends(c)
  BY <1>1, <1>4, EndStep
<1> QED BY <1>2, <1>3, <1>4 DEF Find

LEMMA VerifyStep ==
  ASSUME IInv, NEW c \in Clients, Verify(c)
  PROVE  IInv'
<1> DEFINE u  == Of(c)
           at == IF Found(c).password = call[c].given THEN "clear" ELSE "fail"
<1>1. call[c].at = "verify" /\ u \in Users /\ call[c] \in Call
  BY CallTyped DEF Verify, In
<1>2. Moves(c, at)
  BY GotoEffect DEF IInv, Verify
<1>3. /\ row' = row /\ cached' = cached /\ attempts' = attempts /\ holder' = holder
      /\ proof' = proof /\ raced' = raced
      /\ guesses' = [guesses EXCEPT ![u] = IF Locked(u) THEN @ + 1 ELSE @]
  BY DEF Verify, users, sessions
<1>4. Quiet
  BY <1>3 DEF Quiet, RacesKept
<1>5. TypeOK'
  BY <1>1, <1>2, <1>3 DEF IInv, TypeOK, HolderOK, Moves
<1>6. ClientInv(c)'
  <2>1. CASE at = "fail"
    BY <1>2, <2>1, PlainClient DEF Moves, Unsure
  <2>2. CASE at = "clear"
    <3>1. row[u] # None
      BY <1>1, CallTyped DEF ClientInv, Known, Unsure
    <3>2. \/ call[c].given = row[u].password
          \/ Busy(u, {"keep_new", "end"}) # {}
          \/ raced[u] \cap {"login", "create", "password"} # {}
      <4>1. Found(c).password = call[c].given
        BY <2>2
      <4>2. Looked(c)
        BY DEF Verify
      <4>3. Found(c) = row[u] \/ (Found(c) = cached[u].user /\ PasswordCopied(u))
        BY <4>2, FoundRow
      <4>4. Busy(u, {"keep_new"}) \subseteq Busy(u, {"keep_new", "end"})
        BY DEF Busy
      <4> QED BY <4>1, <4>3, <4>4 DEF PasswordCopied
    <3>3. \A v : Busy(v, {"keep_new", "end"}) \subseteq Busy(v, {"keep_new", "end"})'
      <4>1. \A d \in Clients : call'[d] = call[d] \/ call[d].at \notin {"keep_new", "end"}
        BY <1>1, <1>2 DEF Moves
      <4> QED BY <4>1, BusyKept
    <3>4. /\ call'[c].at = "clear" /\ call'[c].user = u /\ call'[c].given = call[c].given
      BY <1>2, <2>2 DEF Moves, Of
    <3> QED BY <1>3, <3>1, <3>2, <3>3, <3>4 DEF ClientInv, Known, Keeping, Verified, Spared, In, Of
  <2> QED BY <2>1, <2>2
<1>7. ASSUME NEW v \in Users PROVE GuessInv(v)'
  <2>1. Guessing(v)' \subseteq Guessing(v)
    BY <1>2 DEF Moves, Guessing, Busy, Of
  <2>2. CASE v # u
    <3>1. guesses'[v] = guesses[v]
      BY <1>3, <2>2 DEF IInv, TypeOK
    <3> QED BY <1>3, <1>5, <2>1, <3>1, GuessKept DEF IInv, Locked
  <2>3. CASE v = u
    <3> SUFFICES ASSUME Locked(v) PROVE GuessInv(v)'
      BY <1>3 DEF GuessInv, Locked
    <3>1. Guessing(v)' = Guessing(v) \ {c} /\ c \in Guessing(v)
      BY <1>1, <1>2, <2>3 DEF Moves, Guessing, Busy, Of
    <3>2. IsFiniteSet(Guessing(v)) /\ Cardinality(Guessing(v)) \in Nat
      BY ClientAssumption, FS_Subset, FS_CardinalityType DEF Guessing, Busy
    <3>3. Cardinality(Guessing(v)') = Cardinality(Guessing(v)) - 1
      BY <3>1, <3>2, FS_RemoveElement
    <3>4. guesses'[v] = guesses[v] + 1 /\ guesses[v] \in Nat /\ Cardinality(Clients) \in Nat
      BY <1>3, <2>3, ClientAssumption, FS_CardinalityType DEF IInv, TypeOK
    <3> QED BY <3>2, <3>3, <3>4 DEF IInv, GuessInv
  <2> QED BY <2>2, <2>3
<1>8. \A d \in Clients \ {c} : call'[d] = call[d]
  BY <1>2 DEF Moves
<1> QED BY <1>1, <1>4, <1>5, <1>6, <1>7, <1>8, RestKept DEF IInv

LEMMA FailStep ==
  ASSUME IInv, NEW c \in Clients, RecordFailedAttempt(c)
  PROVE  IInv'
<1> DEFINE u == Of(c)
<1>1. call[c].at = "fail" /\ u \in Users
  BY CallTyped DEF RecordFailedAttempt, In
<1>2. Begun(c, "idle", Anyone)
  BY EndsEffect DEF IInv, RecordFailedAttempt
<1>3. /\ row' = row /\ cached' = cached /\ holder' = holder /\ proof' = proof /\ raced' = raced
      /\ attempts' = [attempts EXCEPT ![u] = Failed(u)]
      /\ guesses' = [guesses EXCEPT ![u] = IF Locked(u) THEN @ ELSE 0]
  BY DEF RecordFailedAttempt, users, sessions
<1>4. Quiet
  BY <1>3 DEF Quiet, RacesKept
<1>5. Failed(u) \in Attempts
  <2>1. attempts[u] \in Attempts \cup {None}
    BY <1>1 DEF IInv, TypeOK
  <2>2. Counted(u) \in 0..MaxAttempts
    BY <2>1, AttemptAssumption DEF Counted, Attempts
  <2> QED BY <2>2, AttemptAssumption DEF Failed, Attempts
<1>6. TypeOK'
  BY <1>1, <1>2, <1>3, <1>5 DEF IInv, TypeOK, HolderOK, Begun
<1>7. ClientInv(c)'
  BY <1>2, PlainClient DEF Begun, Unsure
<1>8. ASSUME NEW v \in Users PROVE GuessInv(v)'
  <2>1. Guessing(v)' \subseteq Guessing(v) \ {c}
    BY <1>1, <1>2 DEF Begun, Guessing, Busy, Of
  <2>2. CASE v # u
    <3>1. guesses'[v] = guesses[v] /\ attempts'[v] = attempts[v]
      BY <1>3, <2>2 DEF IInv, TypeOK
    <3> QED BY <1>6, <2>1, <3>1, GuessKept DEF IInv, Locked
  <2>3. CASE v = u /\ Locked(v)
    <3>1. guesses'[v] = guesses[v]
      BY <1>3, <2>3 DEF IInv, TypeOK
    <3> QED BY <1>6, <2>1, <2>3, <3>1, GuessKept DEF IInv
  <2>4. CASE v = u /\ ~Locked(v)
    <3>1. guesses'[v] = 0
      BY <1>3, <2>4 DEF IInv, TypeOK
    <3>2. Guessing(v)' \subseteq Clients \ {c}
      BY <2>1 DEF Guessing, Busy
    <3>3. Cardinality(Clients \ {c}) = Cardinality(Clients) - 1 /\ IsFiniteSet(Clients \ {c})
          /\ Cardinality(Clients) \in Nat
      BY ClientAssumption, FS_RemoveElement, FS_CardinalityType
    <3>4. Cardinality(Guessing(v)') <= Cardinality(Clients \ {c}) /\ Cardinality(Guessing(v)') \in Nat
      BY <3>2, <3>3, FS_Subset, FS_CardinalityType
    <3> QED BY <3>1, <3>3, <3>4 DEF GuessInv
  <2> QED BY <2>2, <2>3, <2>4
<1>9. \A d \in Clients \ {c} : call'[d] = call[d]
  BY <1>2 DEF Begun
<1> QED BY <1>1, <1>4, <1>6, <1>7, <1>8, <1>9, RestKept DEF IInv

LEMMA ClearStep ==
  ASSUME IInv, NEW c \in Clients, ClearFailedAttempts(c)
  PROVE  IInv'
<1>1. call[c].at = "clear" /\ Of(c) \in Users /\ ClientInv(c)
  BY CallTyped DEF ClearFailedAttempts, In
<1>2. Moves(c, "grant")
  BY GotoEffect DEF IInv, ClearFailedAttempts
<1>3. /\ row' = row /\ cached' = cached /\ holder' = holder /\ proof' = proof /\ raced' = raced
      /\ attempts' = [attempts EXCEPT ![Of(c)] = None]
      /\ guesses' = [guesses EXCEPT ![Of(c)] = 0]
  BY DEF ClearFailedAttempts, users, sessions
<1>4. Quiet
  BY <1>3 DEF Quiet, RacesKept
<1>5. TypeOK'
  BY <1>1, <1>2, <1>3 DEF IInv, TypeOK, HolderOK, Moves
<1>6. ClientInv(c)'
  <2>1. \A d \in Clients : call'[d] = call[d] \/ call[d].at \notin {"keep_new", "end"}
    BY <1>1, <1>2 DEF Moves
  <2>2. \A v : Busy(v, {"keep_new", "end"}) \subseteq Busy(v, {"keep_new", "end"})'
    BY <2>1, BusyKept
  <2>3. row[Of(c)] # None
    BY <1>1 DEF ClientInv, Known, Unsure
  <2> QED BY <1>1, <1>2, <1>3, <2>2, <2>3
         DEF ClientInv, Known, Keeping, Verified, Spared, In, Of, Moves
<1>7. NoLock
  BY <1>1, <1>3 DEF IInv, TypeOK, NoLock, Locked
<1> QED BY <1>1, <1>2, <1>4, <1>5, <1>6, <1>7, CallKept DEF Moves, GuessesOn

LEMMA CreateStep ==
  ASSUME IInv, NEW c \in Clients, CreateSession(c)
  PROVE  IInv'
<1> DEFINE u == Of(c)
<1>1. /\ call[c].at = "grant" /\ u \in Users /\ ClientInv(c) /\ row[u] # None
      /\ call[c] \in Call
  BY CallTyped DEF CreateSession, In, ClientInv, Known, Unsure
<1>2. CASE Ends(c) /\ UNCHANGED sessions
  <2>1. Unwritten /\ raced' \in [Users -> SUBSET Races]
    BY <1>2, Frame DEF IInv, CreateSession, sessions, users
  <2> QED BY <1>1, <1>2, <2>1, EndStep
<1>3. ASSUME NEW t \in Tokens, Grant(t, Of(c)), proof' = [proof EXCEPT ![t] = call[c].given],
             Goto(c, "touch")
      PROVE  IInv'
  <2>1. Moves(c, "touch")
    BY <1>3, GotoEffect DEF IInv
  <2>2. /\ row' = row /\ cached' = cached /\ attempts' = attempts /\ raced' = raced
        /\ guesses' = guesses
    BY DEF CreateSession, users
  <2>3. /\ holder' = [holder EXCEPT ![t] = u]
        /\ proof' = [proof EXCEPT ![t] = call[c].given]
    BY <1>3 DEF Grant
  <2>4. TypeOK'
    BY <1>1, <2>1, <2>2, <2>3 DEF IInv, TypeOK, HolderOK, Moves, Call
  <2>5. ClientInv(c)'
    BY <1>1, <2>1, <2>2, PlainClient DEF Moves, Of
  <2>6. NoneOver /\ RacesKept
    BY <1>1, <2>1, <2>2 DEF NoneOver, RacesKept, Moves
  <2>7. (\A d \in Clients : ClientInv(d)') /\ AdminRemains'
    BY <2>1, <2>2, <2>5, <2>6, ClientsKept, NoneOverOn DEF Moves
  <2>8. \A v \in Users : UserInv(v)'
    BY <2>2, <2>6, UserKept, NoneOverOn
  <2>9. \A n \in Tokens : TokenInv(n)'
    <3>1. ASSUME NEW n \in Tokens, n # t PROVE TokenInv(n)'
      <4>1. holder'[n] = holder[n] /\ proof'[n] = proof[n]
        BY <2>3, <3>1 DEF IInv, TypeOK, HolderOK
      <4> QED BY <2>2, <2>6, <4>1, TokenKept, NoneOverOn
    <3>2. TokenInv(t)'
      <4>1. holder'[t] = u /\ proof'[t] = call[c].given
        BY <2>3 DEF IInv, TypeOK, HolderOK
      <4>2. \A d \in Clients : call'[d] = call[d] \/ call[d].at \notin {"keep_new", "end"}
        BY <1>1, <2>1 DEF Moves
      <4>3. \A v : Busy(v, {"keep_new", "end"}) \subseteq Busy(v, {"keep_new", "end"})'
        BY <4>2, BusyKept
      <4>4. \/ call[c].given = row[u].password
            \/ Busy(u, {"keep_new", "end"}) # {}
            \/ raced[u] \cap {"login", "create", "password"} # {}
        BY <1>1 DEF ClientInv, Verified
      <4> HIDE DEF u
      <4> QED BY <1>1, <2>2, <4>1, <4>3, <4>4 DEF TokenInv
    <3> QED BY <3>1, <3>2
  <2>10. \A v \in Users : GuessInv(v)'
    <3>1. \A v \in Users : Guessing(v)' \subseteq Guessing(v)
      BY <2>1 DEF Moves, Guessing, Busy, Of
    <3>2. \A v \in Users : (Locked(v)' => Locked(v)) /\ guesses'[v] = guesses[v]
      BY <2>2 DEF Locked
    <3> QED BY <2>4, <3>1, <3>2, GuessKept DEF IInv
  <2> QED BY <2>4, <2>7, <2>8, <2>9, <2>10 DEF IInv
<1> QED BY <1>2, <1>3 DEF CreateSession

\* A copy is renewed, and its user stays what it was.
LEMMA RenewedTyped ==
  ASSUME TypeOK, NEW u \in Users, cached' = Renewed(u)
  PROVE  /\ cached' \in [Users -> Copy \cup {None}]
         /\ \A v \in Users : cached'[v] # None => cached[v] # None /\ cached'[v].user = cached[v].user
<1>1. CASE cached[u] = None
  BY <1>1 DEF TypeOK, Renewed
<1>2. CASE cached[u] # None
  <2>1. cached[u] \in Copy /\ cached[u].user \in Row
    BY <1>2 DEF TypeOK, Copy
  <2>2. cached' = [cached EXCEPT ![u] = [user |-> cached[u].user, fresh |-> TRUE]]
    BY <1>2 DEF Renewed, Rewritten
  <2>3. [user |-> cached[u].user, fresh |-> TRUE] \in Copy
    BY <2>1 DEF Copy
  <2>4. cached' \in [Users -> Copy \cup {None}]
    BY <2>2, <2>3 DEF TypeOK
  <2>5. \A v \in Users : cached'[v] # None => cached[v] # None /\ cached'[v].user = cached[v].user
    BY <1>2, <2>2 DEF TypeOK
  <2> QED BY <2>4, <2>5
<1> QED BY <1>1, <1>2

LEMMA TouchStep ==
  ASSUME IInv, NEW c \in Clients, UpdateLastLogin(c)
  PROVE  IInv'
<1>1. call[c].at = "touch" /\ Of(c) \in Users
  BY CallTyped DEF UpdateLastLogin, In
<1>2. Begun(c, "idle", Anyone)
  BY EndsEffect DEF IInv, UpdateLastLogin
<1>3. /\ row' = row /\ attempts' = attempts /\ holder' = holder /\ proof' = proof
      /\ guesses' = guesses /\ raced' = raced /\ cached' = Renewed(Of(c))
  BY DEF UpdateLastLogin, sessions
<1>4. TypeOK' /\ Quiet
  BY <1>1, <1>2, <1>3, RenewedTyped DEF IInv, TypeOK, HolderOK, Quiet, RacesKept, Begun
<1>5. ClientInv(c)' /\ GuessesOn(c) /\ NoLock
  BY <1>2, <1>3, PlainClient DEF Begun, Unsure, GuessesOn, NoLock, Locked
<1> QED BY <1>1, <1>2, <1>4, <1>5, CallKept DEF Begun

LEMMA ExistsStep ==
  ASSUME IInv, NEW c \in Clients, Exists(c)
  PROVE  IInv'
<1>1. Unwritten /\ raced' \in [Users -> SUBSET Races] /\ call[c].at = "exists"
  BY Frame DEF IInv, Exists, In
<1>2. CASE Goto(c, "insert")
  <2>1. Moves(c, "insert")
    BY <1>2, GotoEffect DEF IInv
  <2>2. ClientInv(c)'
    BY <2>1, PlainClient DEF Moves, Unsure
  <2> QED BY <1>1, <2>1, <2>2, MoveStep
<1>3. CASE Ends(c)
  BY <1>1, <1>3, EndStep
<1> QED BY <1>2, <1>3 DEF Exists

LEMMA CheckOldStep ==
  ASSUME IInv, NEW c \in Clients, CheckOld(c)
  PROVE  IInv'
<1>1. /\ Unwritten /\ raced' \in [Users -> SUBSET Races] /\ call[c].at = "old"
      /\ row' = row /\ row[Of(c)] # None
  BY Frame, CallTyped DEF IInv, CheckOld, In, users, ClientInv, Known, Unsure
<1>2. CASE Goto(c, "set")
  <2>1. Moves(c, "set")
    BY <1>2, GotoEffect DEF IInv
  <2>2. ClientInv(c)'
    BY <1>1, <2>1, PlainClient DEF Moves, Of
  <2> QED BY <1>1, <2>1, <2>2, MoveStep
<1>3. CASE Ends(c)
  BY <1>1, <1>3, EndStep
<1> QED BY <1>2, <1>3 DEF CheckOld

LEMMA AdminSets == IsFiniteSet(AdminUsers) /\ Cardinality(AdminUsers) \in Nat
BY ClientAssumption, FS_Subset, FS_CardinalityType DEF AdminUsers

LEMMA CountStep ==
  ASSUME IInv, NEW c \in Clients, CountAdmins(c)
  PROVE  IInv'
<1> DEFINE at == IF Suffice THEN "set_role" ELSE "role_of"
<1>1. /\ Unwritten /\ raced' \in [Users -> SUBSET Races] /\ call[c].at = "count"
      /\ row' = row /\ row[Of(c)] # None
  BY Frame, CallTyped DEF IInv, CountAdmins, In, users, ClientInv, Known, Unsure
<1>2. Moves(c, at)
  BY GotoEffect DEF IInv, CountAdmins
<1>3. CASE at = "role_of"
  <2>1. ClientInv(c)'
    BY <1>1, <1>2, <1>3, PlainClient DEF Moves, Of
  <2> QED BY <1>1, <1>2, <1>3, <2>1, MoveStep
<1>4. CASE at = "set_role"
  <2>1. AdminUsers \ {Of(c)} # {}
    <3> SUFFICES ASSUME AdminUsers \subseteq {Of(c)} PROVE FALSE
      OBVIOUS
    <3>1. Cardinality(AdminUsers) <= Cardinality({Of(c)})
      BY FS_Singleton, FS_Subset
    <3> QED BY <1>4, <3>1, FS_Singleton, AdminSets DEF Suffice
  <2>2. AdminUsers' = AdminUsers
    BY <1>1 DEF AdminUsers
  <2>3. ClientInv(c)'
    BY <1>1, <1>2, <1>4, <2>1, <2>2
       DEF Moves, Of, In, ClientInv, Known, Keeping, Verified, Spared
  <2> QED BY <1>1, <1>2, <1>4, <2>3, MoveStep
<1> QED BY <1>3, <1>4

LEMMA RoleOfStep ==
  ASSUME IInv, NEW c \in Clients, RoleOf(c)
  PROVE  IInv'
<1>1. /\ call[c].at = "role_of" /\ row' = row /\ row[Of(c)] # None
      /\ Of(c) \in Users /\ UserInv(Of(c))
  BY CallTyped DEF RoleOf, In, users, ClientInv, Known, Unsure
<1>2. /\ RacesKept /\ raced' \in [Users -> SUBSET Races]
      /\ Busy(Of(c), {"drop"}) # {} => "look" \in raced'[Of(c)]
  BY <1>1, RaceTyped DEF IInv, RoleOf
<1>3. Unwritten
  BY <1>2 DEF RoleOf, Unwritten
<1>4. CASE Ends(c)
  BY <1>1, <1>2, <1>3, <1>4, EndStep
<1>5. CASE Goto(c, "set_role") /\ ~Found(c).admin
  <2>1. Moves(c, "set_role")
    BY <1>5, GotoEffect DEF IInv
  <2>2. ~row[Of(c)].admin \/ Excused'
    <3>1. \/ Found(c) = row[Of(c)]
          \/ Found(c) = cached[Of(c)].user /\ StatusCopied(Of(c))
      BY FoundRow DEF RoleOf
    <3>2. CASE Found(c) = row[Of(c)]
      BY <1>5, <3>2
    <3>3. CASE Found(c) = cached[Of(c)].user /\ StatusCopied(Of(c))
      <4>1. CASE cached[Of(c)].user.admin = row[Of(c)].admin
        BY <1>5, <3>3, <4>1
      <4>2. CASE Busy(Of(c), {"drop"}) # {} \/ "create" \in raced[Of(c)]
        <5>1. \E v \in Users : raced'[v] \cap {"demotion", "look", "create"} # {}
          BY <1>1, <1>2, <4>2 DEF RacesKept
        <5> QED BY <5>1 DEF Excused
      <4> QED BY <3>3, <4>1, <4>2 DEF StatusCopied
    <3> QED BY <3>1, <3>2, <3>3
  <2>3. AdminUsers' = AdminUsers /\ (Excused => Excused')
    BY <1>1, <1>2 DEF AdminUsers, Excused, RacesKept
  <2>4. AdminUsers \ {Of(c)} # {} \/ Excused'
    <3>1. AdminUsers # {} \/ Excused
      BY DEF IInv, AdminRemains, Excused
    <3>2. Of(c) \in AdminUsers => row[Of(c)].admin
      BY DEF AdminUsers
    <3> QED BY <2>2, <2>3, <3>1, <3>2
  <2>5. Spared(c)'
    BY <2>1, <2>3, <2>4 DEF Spared, Moves, Of
  <2>6. ClientInv(c)'
    BY <1>1, <2>1, <2>5 DEF Moves, Of, In, ClientInv, Known, Keeping, Verified
  <2> QED BY <1>1, <1>2, <1>3, <2>1, <2>6, MoveStep
<1> QED BY <1>4, <1>5 DEF RoleOf

LEMMA ErrorStep ==
  ASSUME IInv, NEW c \in Clients, DbError(c)
  PROVE  IInv'
<1>1. Unwritten /\ raced' \in [Users -> SUBSET Races] /\ Ends(c)
  BY Frame DEF IInv, DbError
<1>2. call[c].at \notin {"keep_new", "end", "drop"}
  BY DEF DbError
<1> QED BY <1>1, <1>2, EndStep

(***************************************************************************)
(* The steps that write the table, a copy, or end the sessions.            *)
(***************************************************************************)

LEMMA GuessesKept ==
  ASSUME IInv, TypeOK', NEW c \in Clients, attempts' = attempts, guesses' = guesses,
         \A d \in Clients \ {c} : call'[d] = call[d],
         call'[c].at \notin {"find", "verify"}
  PROVE  \A u \in Users : GuessInv(u)'
BY GuessingOn, GuessKept DEF IInv, GuessesOn, Locked

LEMMA InsertUserStep ==
  ASSUME IInv, NEW c \in Clients, InsertUser(c)
  PROVE  IInv'
<1> DEFINE u == Of(c)
           r == call[c].want
<1>1. /\ call[c].at = "insert" /\ u \in Users /\ r \in Row /\ UserInv(u)
  BY CallTyped DEF InsertUser, In, Call
<1>2. CASE Ends(c) /\ UNCHANGED users
  <2>1. Unwritten /\ raced' \in [Users -> SUBSET Races]
    BY <1>2, Frame DEF IInv, InsertUser, sessions, users
  <2> QED BY <1>1, <1>2, <2>1, EndStep
<1>3. CASE row[Of(c)] = None /\ Write(Of(c), call[c].want) /\ Goto(c, "keep")
  <2>1. Moves(c, "keep")
    BY <1>3, GotoEffect DEF IInv
  <2>2. /\ row' = [row EXCEPT ![u] = r] /\ cached' = cached /\ attempts' = attempts
        /\ holder' = holder /\ proof' = proof /\ guesses' = guesses /\ raced' = raced
    BY <1>3 DEF InsertUser, Write, sessions
  <2>3. TypeOK'
    BY <1>1, <2>1, <2>2 DEF IInv, TypeOK, HolderOK, Moves
  <2>4. row[u] = None /\ row'[u] = r /\ r # None /\ \A v \in Users \ {u} : row'[v] = row[v]
    BY <1>1, <1>3, <2>2, NoneAssumption DEF IInv, TypeOK
  <2>5. NoneOver
    BY <1>1, <2>1 DEF NoneOver, Moves
  <2>6. \A x : Busy(x, {"keep_new", "end"}) \subseteq Busy(x, {"keep_new", "end"})'
    BY <2>5, BusyKept DEF NoneOver
  <2>7. AdminUsers \subseteq AdminUsers'
    BY <2>4 DEF AdminUsers
  <2>8. Excused' = Excused
    BY <2>2 DEF Excused
  <2>9. AdminRemains'
    BY <2>7, <2>2 DEF IInv, AdminRemains
  <2>10. ASSUME NEW d \in Clients \ {c} PROVE ClientInv(d)'
    <3>1. call'[d] = call[d] /\ ClientInv(d) /\ Of(d) \in Users
      BY <2>1, CallTyped DEF Moves
    <3>2. Spared(d)'
      BY <2>7, <2>8, <3>1 DEF ClientInv, Spared, In, Of
    <3>3. CASE call[d].user = u
      <4>1. call[d].at \in Unsure
        BY <2>4, <3>1, <3>3 DEF ClientInv, Known, Of
      <4> QED BY <3>1, <3>2, <4>1 DEF ClientInv, Known, Keeping, Verified, Unsure, In
    <3>4. CASE call[d].user # u
      <4>1. row'[call[d].user] = row[call[d].user]
        BY <2>4, <3>1, <3>4 DEF Of
      <4> QED BY <2>2, <2>6, <3>1, <3>2, <4>1
             DEF ClientInv, Known, Keeping, Verified, In, Of
    <3> QED BY <3>3, <3>4
  <2>11. ClientInv(c)'
    <3>1. call'[c].want = r /\ call'[c].user = u
      BY <2>1 DEF Moves, Of
    <3> QED BY <2>1, <2>4, <3>1 DEF Moves, ClientInv, Known, Keeping, Verified, Spared, In, Of
  <2>12. ASSUME NEW v \in Users PROVE UserInv(v)'
    <3>1. UserInv(v)
      BY DEF IInv
    <3>2. CASE v = u
      BY <2>2, <2>4, <3>1, <3>2 DEF UserInv
    <3>3. CASE v # u
      <4>1. row'[v] = row[v] /\ cached' = cached /\ raced' = raced
        BY <2>2, <2>4, <3>3
      <4>2. Busy(v, {"keep_new"}) \subseteq Busy(v, {"keep_new"})'
        BY <2>5, BusyKept DEF NoneOver
      <4>3. Busy(v, {"drop"}) \subseteq Busy(v, {"drop"})'
        BY <2>5, BusyKept DEF NoneOver
      <4> QED BY <3>1, <4>1, <4>2, <4>3 DEF UserInv, PasswordCopied, StatusCopied
    <3> QED BY <3>2, <3>3
  <2>13. ASSUME NEW t \in Tokens PROVE TokenInv(t)'
    <3>1. TokenInv(t) /\ (holder[t] # Nobody => holder[t] \in Users)
      BY DEF IInv, TypeOK, HolderOK
    <3>2. holder[t] # Nobody => row'[holder[t]] = row[holder[t]]
      BY <2>4, <3>1 DEF TokenInv
    <3> QED BY <2>2, <2>6, <3>1, <3>2 DEF TokenInv
  <2>14. \A v \in Users : GuessInv(v)'
    BY <2>1, <2>2, <2>3, GuessesKept DEF Moves
  <2> QED BY <2>3, <2>9, <2>10, <2>11, <2>12, <2>13, <2>14 DEF IInv
<1> QED BY <1>2, <1>3 DEF InsertUser

LEMMA KeepUserStep ==
  ASSUME IInv, NEW c \in Clients, KeepUser(c)
  PROVE  IInv'
<1> DEFINE u == Of(c)
           r == call[c].want
<1>1. /\ call[c].at = "keep" /\ u \in Users /\ r \in Row /\ ClientInv(c) /\ row[u] # None
  BY CallTyped DEF KeepUser, In, Call, ClientInv, Known, Unsure
<1>2. Begun(c, "idle", Anyone)
  BY EndsEffect DEF IInv, KeepUser
<1>3. /\ row' = row /\ attempts' = attempts /\ holder' = holder /\ proof' = proof
      /\ guesses' = guesses /\ raced' = raced
      /\ cached' = [cached EXCEPT ![u] = [user |-> r, fresh |-> TRUE]]
  BY DEF KeepUser, Rewritten, sessions
<1>4. [user |-> r, fresh |-> TRUE] \in Copy
  BY <1>1 DEF Copy
<1>5. TypeOK'
  BY <1>1, <1>2, <1>3, <1>4 DEF IInv, TypeOK, HolderOK, Begun
<1>6. NoneOver /\ RacesKept
  BY <1>1, <1>2, <1>3 DEF NoneOver, RacesKept, Begun
<1>7. (\A d \in Clients \ {c} : ClientInv(d)') /\ AdminRemains'
  BY <1>2, <1>3, <1>6, ClientsKept, NoneOverOn DEF Begun
<1>8. ClientInv(c)'
  BY <1>2, PlainClient DEF Begun, Unsure
<1>9. ASSUME NEW v \in Users PROVE UserInv(v)'
  <2>1. CASE v = u
    <3>1. cached'[v].user = r
      BY <1>3, <2>1 DEF IInv, TypeOK
    <3>2. r = row[v] \/ "create" \in raced[v]
      BY <1>1, <2>1 DEF ClientInv, Keeping, In
    <3> QED BY <1>1, <1>3, <2>1, <3>1, <3>2 DEF UserInv, PasswordCopied, StatusCopied
  <2>2. CASE v # u
    <3>1. cached'[v] = cached[v]
      BY <1>3, <2>2 DEF IInv, TypeOK
    <3> QED BY <1>3, <1>6, <3>1, UserKept, NoneOverOn
  <2> QED BY <2>1, <2>2
<1>10. \A t \in Tokens : TokenInv(t)'
  BY <1>3, <1>6, TokenKept, NoneOverOn
<1>11. \A v \in Users : GuessInv(v)'
  BY <1>2, <1>3, <1>5, GuessesKept DEF Begun
<1> QED BY <1>5, <1>7, <1>8, <1>9, <1>10, <1>11 DEF IInv

\* A change of a user: of the password, or of the status and the role.
Changes(c, u, r, at) ==
  /\ Moves(c, at) /\ call[c].at \in {"set", "set_status", "set_role"}
  /\ row[u] # None /\ r \in Row
  /\ row' = [row EXCEPT ![u] = r]
  /\ cached' = cached /\ attempts' = attempts /\ holder' = holder /\ proof' = proof
  /\ guesses' = guesses
  /\ RacesKept /\ raced' \in [Users -> SUBSET Races]
  /\ Busy(u, {"keep"}) # {} => "create" \in raced'[u]
  /\ \/ /\ at = "drop" /\ r.password = row[u].password
     \/ /\ at = "keep_new" /\ r.password = call[c].want.password
        /\ r.admin = row[u].admin /\ r.active = row[u].active
        /\ Busy(u, {"keep_new"}) # {} => "password" \in raced'[u]

LEMMA ChangeStep ==
  ASSUME IInv, NEW c \in Clients, NEW r, NEW at, Changes(c, Of(c), r, at),
         \A d \in Clients \ {c} : Spared(d)', AdminRemains'
  PROVE  IInv'
<1> DEFINE u == Of(c)
<1>1. u \in Users /\ call[c] \in Call
  BY CallTyped
<1>2. /\ Moves(c, at) /\ call[c].at \in {"set", "set_status", "set_role"}
      /\ row' = [row EXCEPT ![u] = r] /\ r \in Row /\ r # None /\ row[u] # None
      /\ cached' = cached /\ attempts' = attempts /\ holder' = holder /\ proof' = proof
      /\ guesses' = guesses /\ raced' \in [Users -> SUBSET Races]
      /\ at \in {"drop", "keep_new"}
  BY NoneAssumption DEF Changes
<1>3. TypeOK'
  BY <1>1, <1>2 DEF IInv, TypeOK, HolderOK, Moves
<1>4. row'[u] = r /\ \A v \in Users \ {u} : row'[v] = row[v]
  BY <1>1, <1>2 DEF IInv, TypeOK
<1>5. NoneOver /\ \A v \in Users : raced[v] \subseteq raced'[v]
  BY <1>2 DEF NoneOver, Moves, Changes, RacesKept
<1>6. \A x : Busy(x, {"keep_new", "end"}) \subseteq Busy(x, {"keep_new", "end"})'
  BY <1>5, BusyKept DEF NoneOver
<1>7. ASSUME NEW ats, at \in ats
      PROVE  \A v : v = u => Busy(v, ats)' # {}
  <2>1. call'[c].at = at /\ call'[c].user = u
    BY <1>2 DEF Moves, Of
  <2> QED BY <1>7, <2>1 DEF Busy, Of
<1>8. ASSUME NEW d \in Clients \ {c} PROVE ClientInv(d)'
  <2>1. call'[d] = call[d] /\ ClientInv(d) /\ Of(d) \in Users
    BY <1>2, CallTyped DEF Moves
  <2>2. CASE call[d].user # u
    <3>1. row'[call[d].user] = row[call[d].user]
      BY <1>4, <2>1, <2>2 DEF Of
    <3> QED BY <1>5, <1>6, <2>1, <3>1 DEF ClientInv, Known, Keeping, Verified, In, Of
  <2>3. CASE call[d].user = u
    <3>1. Known(d)'
      BY <1>2, <1>4, <2>1, <2>3 DEF Known, Of
    <3>2. Keeping(d)'
      <4>1. ASSUME call[d].at = "keep" PROVE "create" \in raced'[u]
        BY <2>3, <4>1 DEF Changes, Busy, Of
      <4>2. ASSUME call[d].at = "keep_new"
            PROVE  call[d].want.password = r.password \/ "password" \in raced'[u]
        <5>1. d \in Busy(u, {"keep_new"})
          BY <2>3, <4>2 DEF Busy, Of
        <5>2. call[d].want.password = row[u].password \/ "password" \in raced[u]
          BY <2>1, <2>3, <4>2 DEF ClientInv, Keeping, In, Of
        <5> QED BY <1>1, <1>5, <5>1, <5>2 DEF Changes
      <4> QED BY <1>4, <2>1, <2>3, <4>1, <4>2 DEF Keeping, In, Of
    <3>3. Verified(d)'
      <4>1. CASE at = "keep_new"
        <5>1. \A v : v = u => Busy(v, {"keep_new", "end"})' # {}
          BY <1>7, <4>1
        <5> QED BY <2>1, <2>3, <5>1 DEF Verified, Of
      <4>2. CASE at = "drop"
        <5>1. r.password = row[u].password
          BY <4>2 DEF Changes
        <5> QED BY <1>1, <1>4, <1>5, <1>6, <2>1, <2>3, <5>1 DEF ClientInv, Verified, Of
      <4> QED BY <1>2, <4>1, <4>2
    <3> QED BY <3>1, <3>2, <3>3 DEF ClientInv
  <2> QED BY <2>2, <2>3
<1>9. ClientInv(c)'
  <2>1. /\ call'[c].at = at /\ call'[c].user = u /\ call'[c].want = call[c].want
    BY <1>2 DEF Moves, Of
  <2>2. at = "keep_new" => call[c].want.password = r.password
    BY DEF Changes
  <2> QED BY <1>2, <1>4, <2>1, <2>2 DEF ClientInv, Known, Keeping, Verified, Spared, In, Of
<1>10. ASSUME NEW v \in Users PROVE UserInv(v)'
  <2>1. UserInv(v)
    BY DEF IInv
  <2>2. Busy(v, {"keep_new"}) \subseteq Busy(v, {"keep_new"})'
    BY <1>5, BusyKept DEF NoneOver
  <2>3. Busy(v, {"drop"}) \subseteq Busy(v, {"drop"})'
    BY <1>5, BusyKept DEF NoneOver
  <2>4. CASE v # u
    BY <1>2, <1>4, <1>5, <2>1, <2>2, <2>3, <2>4 DEF UserInv, PasswordCopied, StatusCopied
  <2>5. CASE v = u /\ at = "keep_new"
    <3>1. Busy(v, {"keep_new"})' # {}
      BY <1>7, <2>5
    <3>2. r.admin = row[v].admin /\ r.active = row[v].active
      BY <2>5 DEF Changes
    <3> QED BY <1>2, <1>4, <1>5, <2>1, <2>3, <2>5, <3>1, <3>2
           DEF UserInv, PasswordCopied, StatusCopied
  <2>6. CASE v = u /\ at = "drop"
    <3>1. Busy(v, {"drop"})' # {}
      BY <1>7, <2>6
    <3>2. r.password = row[v].password
      BY <2>6 DEF Changes
    <3> QED BY <1>2, <1>4, <1>5, <2>1, <2>2, <2>6, <3>1, <3>2
           DEF UserInv, PasswordCopied, StatusCopied
  <2> QED BY <1>2, <2>4, <2>5, <2>6
<1>11. ASSUME NEW t \in Tokens PROVE TokenInv(t)'
  <2>1. TokenInv(t) /\ (holder[t] # Nobody => holder[t] \in Users)
    BY DEF IInv, TypeOK, HolderOK
  <2>2. CASE holder[t] # u
    BY <1>2, <1>4, <1>5, <1>6, <2>1, <2>2 DEF TokenInv
  <2>3. CASE holder[t] = u /\ at = "keep_new"
    <3>1. \A v : v = u => Busy(v, {"keep_new", "end"})' # {}
      BY <1>7, <2>3
    <3> QED BY <1>2, <1>4, <2>3, <3>1 DEF TokenInv
  <2>4. CASE holder[t] = u /\ at = "drop"
    <3>1. r.password = row[u].password
      BY <2>4 DEF Changes
    <3> QED BY <1>2, <1>4, <1>5, <1>6, <2>1, <2>4, <3>1 DEF TokenInv
  <2> QED BY <1>2, <2>2, <2>3, <2>4
<1>12. \A v \in Users : GuessInv(v)'
  BY <1>2, <1>3, GuessesKept DEF Moves
<1> QED BY <1>3, <1>8, <1>9, <1>10, <1>11, <1>12 DEF IInv

LEMMA SetPasswordStep ==
  ASSUME IInv, NEW c \in Clients, SetPassword(c)
  PROVE  IInv'
<1> DEFINE u == Of(c)
           r == [row[Of(c)] EXCEPT !.password = call[c].want.password]
<1>1. /\ call[c].at = "set" /\ u \in Users /\ row[u] # None /\ row[u] \in Row
      /\ call[c].want \in Row
  BY CallTyped DEF SetPassword, In, Call, ClientInv, Known, Unsure
<1>2. r \in Row /\ r.password = call[c].want.password /\ r.admin = row[u].admin
      /\ r.active = row[u].active
  BY <1>1 DEF Row
<1>3. /\ RacesKept /\ raced' \in [Users -> SUBSET Races]
      /\ Busy(u, {"keep"}) # {} => "create" \in raced'[u]
      /\ Busy(u, {"keep_new"}) # {} => "password" \in raced'[u]
  BY <1>1 DEF IInv, TypeOK, SetPassword, RacesKept
<1>4. Moves(c, "keep_new")
  BY GotoEffect DEF IInv, SetPassword
<1>5. /\ row' = [row EXCEPT ![u] = r] /\ cached' = cached /\ attempts' = attempts
      /\ holder' = holder /\ proof' = proof /\ guesses' = guesses
  BY DEF SetPassword, Write, sessions
<1>6. Changes(c, Of(c), r, "keep_new")
  BY <1>1, <1>2, <1>3, <1>4, <1>5 DEF Changes
<1>7. AdminUsers' = AdminUsers
  BY <1>1, <1>2, <1>5, NoneAssumption DEF IInv, TypeOK, AdminUsers
<1>8. AdminRemains' /\ (Excused => Excused')
  BY <1>3, <1>7 DEF IInv, AdminRemains, Excused, RacesKept
<1>9. \A d \in Clients \ {c} : Spared(d)'
  BY <1>4, <1>7, <1>8 DEF IInv, ClientInv, Spared, Moves, In, Of
<1> QED BY <1>6, <1>8, <1>9, ChangeStep

LEMMA SetStatusStep ==
  ASSUME IInv, NEW c \in Clients, SetStatus(c)
  PROVE  IInv'
<1> DEFINE u == Of(c)
           r == [row[Of(c)] EXCEPT !.active = call[c].want.active]
<1>1. /\ call[c].at = "set_status" /\ u \in Users /\ row[u] # None /\ row[u] \in Row
      /\ call[c].want \in Row
  BY CallTyped DEF SetStatus, In, Call, ClientInv, Known, Unsure
<1>2. r \in Row /\ r.password = row[u].password /\ r.admin = row[u].admin
  BY <1>1 DEF Row
<1>3. /\ RacesKept /\ raced' \in [Users -> SUBSET Races]
      /\ Busy(u, {"keep"}) # {} => "create" \in raced'[u]
  BY <1>1, RaceTyped DEF IInv, SetStatus
<1>4. Moves(c, "drop")
  BY GotoEffect DEF IInv, SetStatus
<1>5. /\ row' = [row EXCEPT ![u] = r] /\ cached' = cached /\ attempts' = attempts
      /\ holder' = holder /\ proof' = proof /\ guesses' = guesses
  BY DEF SetStatus, Write, sessions
<1>6. Changes(c, Of(c), r, "drop")
  BY <1>1, <1>2, <1>3, <1>4, <1>5 DEF Changes
<1>7. AdminUsers' = AdminUsers
  BY <1>1, <1>2, <1>5, NoneAssumption DEF IInv, TypeOK, AdminUsers
<1>8. AdminRemains' /\ (Excused => Excused')
  BY <1>3, <1>7 DEF IInv, AdminRemains, Excused, RacesKept
<1>9. \A d \in Clients \ {c} : Spared(d)'
  BY <1>4, <1>7, <1>8 DEF IInv, ClientInv, Spared, Moves, In, Of
<1> QED BY <1>6, <1>8, <1>9, ChangeStep

\* A demotion leaves another administrator; and who is about to demote is in a race now.
LEMMA SetRoleStep ==
  ASSUME IInv, NEW c \in Clients, SetRole(c)
  PROVE  IInv'
<1> DEFINE u == Of(c)
           r == [row[Of(c)] EXCEPT !.admin = call[c].want.admin]
<1>1. /\ call[c].at = "set_role" /\ u \in Users /\ row[u] # None /\ row[u] \in Row
      /\ call[c].want \in Row /\ Spared(c)
  BY CallTyped DEF SetRole, In, Call, ClientInv, Known, Unsure
<1>2. r \in Row /\ r.password = row[u].password /\ r.admin = call[c].want.admin
  BY <1>1 DEF Row
<1>3. /\ RacesKept /\ raced' \in [Users -> SUBSET Races]
      /\ Busy(u, {"keep"}) # {} => "create" \in raced'[u]
      /\ Demoting \ {c} # {} => "demotion" \in raced'[u]
  BY <1>1 DEF IInv, TypeOK, SetRole, RacesKept
<1>4. Moves(c, "drop")
  BY GotoEffect DEF IInv, SetRole
<1>5. /\ row' = [row EXCEPT ![u] = r] /\ cached' = cached /\ attempts' = attempts
      /\ holder' = holder /\ proof' = proof /\ guesses' = guesses
  BY DEF SetRole, Write, sessions
<1>6. Changes(c, Of(c), r, "drop")
  BY <1>1, <1>2, <1>3, <1>4, <1>5 DEF Changes
<1>7. row'[u] = r /\ r # None /\ \A v \in Users \ {u} : row'[v] = row[v]
  BY <1>1, <1>2, <1>5, NoneAssumption DEF IInv, TypeOK
<1>8. AdminUsers \ {u} \subseteq AdminUsers'
  BY <1>7 DEF AdminUsers
<1>9. Excused => Excused'
  BY <1>3 DEF Excused, RacesKept
<1>10. AdminRemains'
  <2>1. CASE r.admin
    <3>1. \A v : v = u => v \in AdminUsers'
      BY <1>1, <1>7, <2>1 DEF AdminUsers
    <3> QED BY <3>1 DEF AdminRemains
  <2>2. CASE ~r.admin
    <3>1. AdminUsers \ {u} # {} \/ Excused
      BY <1>1, <1>2, <2>2 DEF Spared, In
    <3> QED BY <1>8, <1>9, <3>1 DEF AdminRemains, Excused
  <2> QED BY <2>1, <2>2
<1>11. ASSUME NEW d \in Clients \ {c} PROVE Spared(d)'
  <2>1. call'[d] = call[d]
    BY <1>4 DEF Moves
  <2> SUFFICES ASSUME call[d].at = "set_role", ~call[d].want.admin
               PROVE  Excused'
    BY <2>1 DEF Spared, In, Of
  <2>2. d \in Demoting \ {c}
    BY DEF Demoting
  <2> QED BY <1>1, <1>3, <2>2 DEF Excused
<1> QED BY <1>6, <1>10, <1>11, ChangeStep

\* A copy takes the new password, and the change goes on with the sessions.
LEMMA KeepPasswordStep ==
  ASSUME IInv, NEW c \in Clients, KeepPassword(c)
  PROVE  IInv'
<1> DEFINE u == Of(c)
           p == call[c].want.password
<1>1. /\ call[c].at = "keep_new" /\ u \in Users /\ p \in Passwords
      /\ ClientInv(c) /\ UserInv(u) /\ row[u] # None
  BY CallTyped DEF KeepPassword, In, Call, Row, ClientInv, Known, Unsure
<1>2. Moves(c, "end")
  BY GotoEffect DEF IInv, KeepPassword
<1>3. /\ row' = row /\ attempts' = attempts /\ holder' = holder /\ proof' = proof
      /\ guesses' = guesses /\ raced' = raced
  BY DEF KeepPassword, sessions
<1>4. /\ cached' \in [Users -> Copy \cup {None}]
      /\ \A v \in Users \ {u} : cached'[v] = cached[v]
      /\ cached'[u] # None =>
           /\ cached[u] # None /\ cached'[u].user.password = p
           /\ cached'[u].user.admin = cached[u].user.admin
           /\ cached'[u].user.active = cached[u].user.active
  <2>1. CASE cached[u] = None
    BY <1>1, <2>1 DEF IInv, TypeOK, KeepPassword
  <2>2. CASE cached[u] # None
    <3> DEFINE r == [cached[u].user EXCEPT !.password = p]
    <3>1. cached[u] \in Copy /\ cached[u].user \in Row
      BY <1>1, <2>2 DEF IInv, TypeOK, Copy
    <3>2. /\ r \in Row /\ r.password = p /\ r.admin = cached[u].user.admin
          /\ r.active = cached[u].user.active
      BY <1>1, <3>1 DEF Row
    <3>3. [user |-> r, fresh |-> TRUE] \in Copy
      BY <3>2 DEF Copy
    <3>4. cached' = [cached EXCEPT ![u] = [user |-> r, fresh |-> TRUE]]
      BY <2>2 DEF KeepPassword, Rewritten
    <3> HIDE DEF r
    <3> QED BY <1>1, <2>2, <3>2, <3>3, <3>4 DEF IInv, TypeOK
  <2> QED BY <2>1, <2>2
<1>5. TypeOK'
  BY <1>2, <1>3, <1>4 DEF IInv, TypeOK, HolderOK, Moves
<1>6. ChangesOn /\ RacesKept
  BY <1>1, <1>2, <1>3 DEF ChangesOn, RacesKept, Busy, Moves, Of
<1>7. (\A d \in Clients \ {c} : ClientInv(d)') /\ AdminRemains'
  BY <1>2, <1>3, <1>6, ClientsKept DEF Moves
<1>8. ClientInv(c)'
  BY <1>1, <1>2, <1>3, PlainClient DEF Moves, Of
<1>9. ASSUME NEW v \in Users PROVE UserInv(v)'
  <2>1. CASE v # u
    <3>1. CopiesOn(v)
      BY <1>1, <1>2, <2>1 DEF CopiesOn, Busy, Moves, Of
    <3> QED BY <1>3, <1>4, <1>6, <2>1, <3>1, UserKept
  <2>2. CASE v = u
    <3>1. p = row[v].password \/ "password" \in raced[v]
      BY <1>1, <2>2 DEF ClientInv, Keeping, In
    <3>2. Busy(v, {"drop"}) \subseteq Busy(v, {"drop"})'
      BY <1>1, <1>2 DEF Busy, Moves, Of
    <3>3. StatusCopied(v) \/ cached[v] = None
      BY <1>1, <2>2 DEF UserInv
    <3>4. cached'[v] # None => PasswordCopied(v)'
      BY <1>3, <1>4, <2>2, <3>1 DEF PasswordCopied
    <3>5. cached'[v] # None => StatusCopied(v)'
      BY <1>3, <1>4, <2>2, <3>2, <3>3 DEF StatusCopied
    <3> QED BY <1>1, <1>3, <2>2, <3>4, <3>5 DEF UserInv
  <2> QED BY <2>1, <2>2
<1>10. \A t \in Tokens : TokenInv(t)'
  BY <1>3, <1>6, TokenKept
<1>11. \A v \in Users : GuessInv(v)'
  BY <1>2, <1>3, <1>5, GuessesKept DEF Moves
<1> QED BY <1>5, <1>7, <1>8, <1>9, <1>10, <1>11, <1>2 DEF IInv

\* The sessions go; a login that has yet to create one is in a race now.
LEMMA EndSessionsStep ==
  ASSUME IInv, NEW c \in Clients, EndSessions(c)
  PROVE  IInv'
<1> DEFINE u == Of(c)
<1>1. call[c].at = "end" /\ u \in Users
  BY CallTyped DEF EndSessions, In
<1>2. Begun(c, "idle", Anyone)
  BY EndsEffect DEF IInv, EndSessions
<1>3. /\ row' = row /\ cached' = cached /\ attempts' = attempts /\ guesses' = guesses
      /\ holder' = [t \in Tokens |-> IF t \in Held(u) THEN Nobody ELSE holder[t]]
      /\ proof' = [t \in Tokens |-> IF t \in Held(u) THEN None ELSE proof[t]]
  BY DEF EndSessions, Withdraw, users
<1>4. /\ RacesKept /\ raced' \in [Users -> SUBSET Races]
      /\ Busy(u, {"clear", "grant"}) # {} => "login" \in raced'[u]
  BY <1>1, RaceTyped DEF IInv, EndSessions
<1>5. TypeOK'
  BY <1>2, <1>3, <1>4 DEF IInv, TypeOK, HolderOK, Begun
<1>6. /\ \A v \in Users : CopiesOn(v)
      /\ \A v \in Users \ {u} :
           Busy(v, {"keep_new", "end"}) \subseteq Busy(v, {"keep_new", "end"})'
  BY <1>1, <1>2 DEF CopiesOn, Busy, Begun, Of
<1>7. AdminUsers' = AdminUsers /\ (Excused => Excused') /\ AdminRemains'
  BY <1>3, <1>4 DEF IInv, AdminUsers, Excused, AdminRemains, RacesKept
<1>8. ASSUME NEW d \in Clients \ {c} PROVE ClientInv(d)'
  <2>1. call'[d] = call[d] /\ ClientInv(d) /\ Of(d) \in Users
    BY <1>2, CallTyped DEF Begun
  <2>2. Known(d)' /\ Keeping(d)' /\ Spared(d)'
    BY <1>3, <1>4, <1>7, <2>1 DEF ClientInv, Known, Keeping, Spared, In, Of, RacesKept
  <2>3. Verified(d)'
    <3> SUFFICES ASSUME call[d].at \in {"clear", "grant"} PROVE Verified(d)'
      BY <2>1 DEF Verified
    <3>1. CASE call[d].user = u
      <4>1. d \in Busy(u, {"clear", "grant"})
        BY <3>1 DEF Busy, Of
      <4>2. "login" \in raced'[call[d].user]
        BY <1>4, <3>1, <4>1
      <4> QED BY <2>1, <4>2 DEF Verified, Of
    <3>2. CASE call[d].user # u
      BY <1>3, <1>4, <1>6, <2>1, <3>2 DEF ClientInv, Verified, Of, RacesKept
    <3> QED BY <3>1, <3>2
  <2> QED BY <2>2, <2>3 DEF ClientInv
<1>9. ClientInv(c)'
  BY <1>2, PlainClient DEF Begun, Unsure
<1>10. \A v \in Users : UserInv(v)'
  BY <1>3, <1>4, <1>6, UserKept
<1>11. ASSUME NEW t \in Tokens PROVE TokenInv(t)'
  <2>1. TokenInv(t) /\ (holder[t] # Nobody => holder[t] \in Users)
    BY DEF IInv, TypeOK, HolderOK
  <2>2. CASE holder[t] = u
    BY <1>3, <2>2 DEF TokenInv, Held
  <2>3. CASE holder[t] # u
    <3>1. holder'[t] = holder[t] /\ proof'[t] = proof[t]
      BY <1>3, <2>3 DEF Held
    <3> QED BY <1>3, <1>4, <1>6, <2>1, <2>3, <3>1 DEF TokenInv, RacesKept
  <2> QED BY <2>2, <2>3
<1>12. \A v \in Users : GuessInv(v)'
  BY <1>2, <1>3, <1>5, GuessesKept DEF Begun
<1> QED BY <1>5, <1>7, <1>8, <1>9, <1>10, <1>11, <1>12 DEF IInv

LEMMA DropCopyStep ==
  ASSUME IInv, NEW c \in Clients, DropCopy(c)
  PROVE  IInv'
<1> DEFINE u == Of(c)
<1>1. call[c].at = "drop" /\ u \in Users
  BY CallTyped DEF DropCopy, In
<1>2. Begun(c, "idle", Anyone)
  BY EndsEffect DEF IInv, DropCopy
<1>3. /\ row' = row /\ attempts' = attempts /\ holder' = holder /\ proof' = proof
      /\ guesses' = guesses /\ raced' = raced /\ cached' = [cached EXCEPT ![u] = None]
  BY DEF DropCopy, sessions
<1>4. TypeOK'
  BY <1>1, <1>2, <1>3 DEF IInv, TypeOK, HolderOK, Begun
<1>5. ChangesOn /\ RacesKept /\ \A v \in Users \ {u} : CopiesOn(v)
  BY <1>1, <1>2, <1>3 DEF ChangesOn, CopiesOn, RacesKept, Busy, Begun, Of
<1>6. (\A d \in Clients \ {c} : ClientInv(d)') /\ AdminRemains'
  BY <1>2, <1>3, <1>5, ClientsKept DEF Begun
<1>7. ClientInv(c)'
  BY <1>2, PlainClient DEF Begun, Unsure
<1>8. ASSUME NEW v \in Users PROVE UserInv(v)'
  <2>1. CASE v = u
    BY <1>3, <2>1 DEF IInv, TypeOK, UserInv
  <2>2. CASE v # u
    <3>1. cached'[v] = cached[v]
      BY <1>3, <2>2 DEF IInv, TypeOK
    <3> QED BY <1>3, <1>5, <2>2, <3>1, UserKept
  <2> QED BY <2>1, <2>2
<1>9. \A t \in Tokens : TokenInv(t)'
  BY <1>3, <1>5, TokenKept
<1>10. \A v \in Users : GuessInv(v)'
  BY <1>2, <1>3, <1>4, GuessesKept DEF Begun
<1> QED BY <1>4, <1>6, <1>7, <1>8, <1>9, <1>10 DEF IInv

(***************************************************************************)
(* The steps of no client.                                                 *)
(***************************************************************************)

LEMMA OutsideStep ==
  ASSUME IInv, TypeOK', Quiet, NoLock, call' = call
  PROVE  IInv'
<1>1. NoneOver /\ RacesKept /\ row' = row
  BY DEF NoneOver, Quiet
<1>2. (\A d \in Clients : ClientInv(d)') /\ AdminRemains'
  BY <1>1, ClientsKept, NoneOverOn
<1>3. \A u \in Users : UserInv(u)'
  BY <1>1, UserKept, NoneOverOn DEF Quiet
<1>4. \A t \in Tokens : TokenInv(t)'
  BY <1>1, TokenKept, NoneOverOn DEF Quiet
<1>5. \A u \in Users : Guessing(u)' = Guessing(u)
  BY DEF Guessing, Busy, Of
<1>6. \A u \in Users : GuessInv(u)'
  BY <1>5, GuessKept DEF IInv, NoLock
<1> QED BY <1>2, <1>3, <1>4, <1>6 DEF IInv

LEMMA ProfileStep ==
  ASSUME IInv, NEW u \in Users, UpdateProfile(u)
  PROVE  IInv'
<1>1. TypeOK' /\ Quiet /\ NoLock /\ call' = call
  BY RenewedTyped
     DEF IInv, TypeOK, HolderOK, Quiet, RacesKept, NoLock, Locked, UpdateProfile, sessions
<1> QED BY <1>1, OutsideStep

LEMMA SessionEndsStep ==
  ASSUME IInv, NEW t \in Tokens, SessionEnds(t)
  PROVE  IInv'
<1>1. TypeOK' /\ Quiet /\ NoLock /\ call' = call
  BY DEF IInv, TypeOK, HolderOK, Quiet, RacesKept, NoLock, Locked, SessionEnds, Withdraw, users
<1> QED BY <1>1, OutsideStep

LEMMA CleanupStep ==
  ASSUME IInv, Cleanup
  PROVE  IInv'
<1>1. PICK S \in SUBSET {u \in Users : attempts[u] # None /\ ~attempts[u].locked} :
        attempts' = [u \in Users |-> IF u \in S \/ Over(u) THEN None ELSE attempts[u]]
  BY DEF Cleanup
<1>2. TypeOK' /\ Quiet /\ NoLock /\ call' = call
  BY <1>1
     DEF IInv, TypeOK, HolderOK, Quiet, RacesKept, NoLock, Locked, Cleanup, users, sessions
<1> QED BY <1>2, OutsideStep

LEMMA GrowOldStep ==
  ASSUME IInv, NEW u \in Users, GrowOld(u)
  PROVE  IInv'
<1>1. cached[u] \in Copy
  BY DEF IInv, TypeOK, GrowOld, HasCopy
<1>2. [cached[u] EXCEPT !.fresh = FALSE] \in Copy
      /\ [cached[u] EXCEPT !.fresh = FALSE].user = cached[u].user
  BY <1>1 DEF Copy
<1>3. cached' = [cached EXCEPT ![u] = [cached[u] EXCEPT !.fresh = FALSE]]
  BY DEF GrowOld
<1>4. /\ cached' \in [Users -> Copy \cup {None}]
      /\ \A v \in Users : cached'[v] # None => cached[v] # None /\ cached'[v].user = cached[v].user
  BY <1>1, <1>2, <1>3, NoneAssumption DEF IInv, TypeOK
<1>5. TypeOK' /\ Quiet /\ NoLock /\ call' = call
  BY <1>4 DEF IInv, TypeOK, HolderOK, Quiet, RacesKept, NoLock, Locked, GrowOld, sessions
<1> QED BY <1>5, OutsideStep

LEMMA TickStep ==
  ASSUME IInv, Tick
  PROVE  IInv'
<1>1. ASSUME NEW u \in Users
      PROVE  attempts'[u] \in Attempts \cup {None} /\ (Locked(u)' => Locked(u))
  <2>1. CASE ~Locked(u)
    BY <2>1 DEF IInv, TypeOK, Tick, Locked
  <2>2. CASE Locked(u)
    <3>1. attempts[u] \in Attempts /\ attempts[u].lock \in 1..Lockout
      BY <2>2, AttemptAssumption DEF IInv, TypeOK, Locked, Attempts
    <3>2. [attempts[u] EXCEPT !.lock = @ - 1] \in Attempts
      BY <3>1, AttemptAssumption DEF Attempts
    <3> QED BY <2>2, <3>2 DEF Tick
  <2> QED BY <2>1, <2>2
<1>2. TypeOK' /\ Quiet /\ NoLock /\ call' = call
  BY <1>1 DEF IInv, TypeOK, HolderOK, Quiet, RacesKept, NoLock, Tick, users, sessions
<1> QED BY <1>2, OutsideStep

LEMMA RestartStep ==
  ASSUME IInv, Restart
  PROVE  IInv'
<1>1. /\ row' = row /\ raced' = raced /\ attempts' = [u \in Users |-> None]
      /\ cached' = [u \in Users |-> None] /\ call' = [c \in Clients |-> Idle]
      /\ holder' = [t \in Tokens |-> Nobody] /\ proof' = [t \in Tokens |-> None]
      /\ guesses' = [u \in Users |-> 0]
  BY DEF Restart, Withdraw
<1>2. TypeOK'
  BY <1>1, IdleTyped DEF IInv, TypeOK, HolderOK
<1>3. \A c \in Clients : ClientInv(c)'
  BY <1>1, PlainClient DEF Idle, Unsure
<1>4. (\A u \in Users : UserInv(u)') /\ (\A t \in Tokens : TokenInv(t)')
  BY <1>1 DEF UserInv, TokenInv
<1>5. \A u \in Users : GuessInv(u)'
  BY <1>1 DEF GuessInv, Locked
<1>6. AdminRemains'
  BY <1>1 DEF IInv, AdminRemains, AdminUsers
<1> QED BY <1>2, <1>3, <1>4, <1>5, <1>6 DEF IInv

(***************************************************************************)
(* The theorems.                                                           *)
(***************************************************************************)

LEMMA InitInv == Init => IInv
<1> SUFFICES ASSUME Init PROVE IInv
  OBVIOUS
<1>1. Blank \in Row /\ [Blank EXCEPT !.admin = TRUE] \in Row
      /\ [Blank EXCEPT !.admin = TRUE].admin
  BY Requests DEF Blank
<1>2. TypeOK
  BY <1>1, IdleTyped DEF Init, Unheld, TypeOK, HolderOK
<1>3. \A c \in Clients : ClientInv(c)
  BY DEF Init, Idle, ClientInv, Known, Keeping, Verified, Spared, Unsure, In
<1>4. /\ \A u \in Users : UserInv(u) /\ GuessInv(u)
      /\ \A t \in Tokens : TokenInv(t)
  BY DEF Init, Unheld, UserInv, GuessInv, Locked, TokenInv
<1>5. First \subseteq AdminUsers
  BY <1>1, FirstAssumption, NoneAssumption DEF Init, AdminUsers
<1> QED BY <1>2, <1>3, <1>4, <1>5 DEF IInv, AdminRemains

LEMMA ProgressStep ==
  ASSUME IInv, NEW c \in Clients, Progress(c)
  PROVE  IInv'
BY MissStep, FindStep, VerifyStep, FailStep, ClearStep, CreateStep, TouchStep, ExistsStep,
   InsertUserStep, KeepUserStep, CheckOldStep, SetPasswordStep, KeepPasswordStep,
   EndSessionsStep, SetStatusStep, CountStep, RoleOfStep, SetRoleStep, DropCopyStep
   DEF Progress

LEMMA StutterStep ==
  ASSUME IInv, UNCHANGED vars
  PROVE  IInv'
<1>1. TypeOK' /\ Quiet /\ NoLock /\ call' = call
  BY DEF IInv, TypeOK, HolderOK, Quiet, RacesKept, NoLock, Locked, vars
<1> QED BY <1>1, OutsideStep

\* IInv is inductive.
LEMMA StepInv == IInv /\ [Next]_vars => IInv'
BY BeginStep, ProgressStep, ErrorStep, ProfileStep, GrowOldStep, SessionEndsStep, CleanupStep,
   TickStep, RestartStep, StutterStep
   DEF Next

THEOREM Invariance == Spec => []IInv
BY InitInv, StepInv, PTL DEF Spec

\* Users, copies, failed attempts, calls and sessions are always well formed.
THEOREM TypeCorrect == Spec => []TypeOK
<1>1. IInv => TypeOK
  BY DEF IInv
<1> QED BY <1>1, Invariance, PTL

\* However many clients log in as a user whom is_account_locked refuses, and however late,
\* fewer passwords are tried than there are clients.
THEOREM Guesses == Spec => []GuessesBounded
<1>1. IInv => GuessesBounded
  <2> SUFFICES ASSUME IInv, NEW u \in Users, Locked(u)
               PROVE  guesses[u] < Cardinality(Clients)
    BY DEF GuessesBounded
  <2>1. guesses[u] \in Nat /\ Cardinality(Clients) \in Nat /\ GuessInv(u)
    BY ClientAssumption, FS_CardinalityType DEF IInv, TypeOK
  <2>2. Cardinality(Guessing(u)) \in Nat
    BY ClientAssumption, FS_Subset, FS_CardinalityType DEF Guessing, Busy
  <2> QED BY <2>1, <2>2 DEF GuessInv
<1> QED BY <1>1, Invariance, PTL

\* DatabaseCache.users agrees with the table outside changes and but for two races.
THEOREM Copies == Spec => []CopyCurrent
<1>1. IInv => CopyCurrent
  <2> SUFFICES ASSUME IInv, NEW u \in Users, cached[u] # None
               PROVE  \/ cached[u].user = row[u]
                      \/ Busy(u, {"keep_new", "drop"}) # {}
                      \/ raced[u] \cap {"create", "password"} # {}
    BY DEF CopyCurrent
  <2>1. row[u] # None /\ PasswordCopied(u) /\ StatusCopied(u)
    BY DEF IInv, UserInv
  <2>2. cached[u].user \in Row /\ row[u] \in Row
    BY <2>1 DEF IInv, TypeOK, Copy
  <2>3. /\ Busy(u, {"keep_new"}) \subseteq Busy(u, {"keep_new", "drop"})
        /\ Busy(u, {"drop"}) \subseteq Busy(u, {"keep_new", "drop"})
    BY DEF Busy
  <2> QED BY <2>1, <2>2, <2>3 DEF PasswordCopied, StatusCopied, Row
<1> QED BY <1>1, Invariance, PTL

\* After change_password every session was granted for the new password, but for races.
THEOREM Sessions == Spec => []SessionsCurrent
<1>1. IInv => SessionsCurrent
  BY DEF IInv, TokenInv, SessionsCurrent
<1> QED BY <1>1, Invariance, PTL

\* update_user_role leaves an administrator, but for overlapping demotions and looks at
\* an outdated role.
THEOREM Administrators == Spec => []AdminRemains
<1>1. IInv => AdminRemains
  BY DEF IInv
<1> QED BY <1>1, Invariance, PTL

(***************************************************************************)
(* A user who is out stays out.                                            *)
(***************************************************************************)

\* The places from which a call gets a user in: a copy of an insert, a session.
Inward == {"keep", "verify", "clear", "grant"}

NoWayIn(u) == \A c \in Clients : call[c].user = u => call[c].at \notin Inward

LEMMA OutSays ==
  ASSUME NEW u \in Users
  PROVE  Out(u) <=> /\ row[u] # None /\ ~row[u].active
                    /\ cached[u] # None => ~cached[u].user.active
                    /\ NoWayIn(u)
                    /\ \A t \in Tokens : holder[t] # u
BY DEF Out, Busy, Of, Held, NoWayIn, Inward

\* Rows are never deleted.
LEMMA RowStays ==
  ASSUME IInv, Next, NEW u \in Users, row[u] # None
  PROVE  row'[u] # None
<1>1. row \in [Users -> Row \cup {None}] /\ row[u] \in Row
  BY DEF IInv, TypeOK
<1>2. ASSUME NEW r \in Row, NEW v \in Users, Write(v, r)
      PROVE  row'[u] # None
  BY <1>1, <1>2, NoneAssumption DEF Write
<1>3. ASSUME NEW c \in Clients, InsertUser(c) \/ SetPassword(c) \/ SetStatus(c) \/ SetRole(c)
      PROVE  row'[u] # None
  <2>1. call[c].want \in Row /\ Of(c) \in Users /\ row[Of(c)] \in Row \cup {None} /\ Known(c)
    BY CallTyped DEF Call, ClientInv
  <2>2. CASE InsertUser(c)
    BY <1>1, <1>2, <2>1, <2>2 DEF InsertUser, users
  <2>3. CASE SetPassword(c) \/ SetStatus(c) \/ SetRole(c)
    <3>1. row[Of(c)] \in Row
      BY <2>1, <2>3 DEF Known, Unsure, SetPassword, SetStatus, SetRole, In
    <3>2. /\ [row[Of(c)] EXCEPT !.password = call[c].want.password] \in Row
          /\ [row[Of(c)] EXCEPT !.active = call[c].want.active] \in Row
          /\ [row[Of(c)] EXCEPT !.admin = call[c].want.admin] \in Row
      BY <2>1, <3>1 DEF Row
    <3> QED BY <1>2, <2>1, <2>3, <3>2 DEF SetPassword, SetStatus, SetRole
  <2> QED BY <1>3, <2>2, <2>3
<1>4. ASSUME row' = row PROVE row'[u] # None
  BY <1>4
<1>5. ASSUME NEW c \in Clients, Begins(c) \/ DbError(c) PROVE row' = row
  BY <1>5 DEF Begins, Login, Register, ChangePassword, UpdateStatus, UpdateRole, DbError, users
<1>6. ASSUME NEW c \in Clients, Progress(c) PROVE row'[u] # None
  BY <1>3, <1>4, <1>6
     DEF Progress, Miss, Find, Verify, RecordFailedAttempt, ClearFailedAttempts, CreateSession,
         UpdateLastLogin, Exists, KeepUser, CheckOld, KeepPassword, EndSessions, CountAdmins,
         RoleOf, DropCopy, users
<1>7. ASSUME ~\E c \in Clients : Begins(c) \/ Progress(c) \/ DbError(c) PROVE row' = row
  BY <1>7 DEF Next, UpdateProfile, GrowOld, SessionEnds, Cleanup, Tick, Restart, users
<1> QED BY <1>4, <1>5, <1>6, <1>7

\* A renewed copy says of the status what it said.
LEMMA RenewedStatus ==
  ASSUME TypeOK, NEW v \in Users, cached' = Renewed(v), NEW u \in Users, cached'[u] # None
  PROVE  cached[u] # None /\ cached'[u].user = cached[u].user
<1>1. CASE cached[v] = None
  BY <1>1 DEF Renewed
<1>2. CASE cached[v] # None
  <2>1. cached' = [cached EXCEPT ![v] = [user |-> cached[v].user, fresh |-> TRUE]]
    BY <1>2 DEF Renewed, Rewritten
  <2>2. u # v => cached'[u] = cached[u]
    BY <2>1 DEF TypeOK
  <2>3. u = v => cached'[u] = [user |-> cached[u].user, fresh |-> TRUE]
    BY <2>1 DEF TypeOK
  <2> QED BY <1>2, <2>2, <2>3
<1> QED BY <1>1, <1>2

\* The cache makes nobody active but by an insert that is still under way.
LEMMA CopyStaysOut ==
  ASSUME IInv, Next, NEW u \in Users, NoWayIn(u),
         cached[u] # None => ~cached[u].user.active
  PROVE  cached'[u] # None => ~cached'[u].user.active
<1>1. cached \in [Users -> Copy \cup {None}] /\ TypeOK
  BY DEF IInv, TypeOK
<1>2. CASE cached' = cached
  BY <1>2
<1>3. ASSUME NEW c \in Clients, KeepUser(c)
      PROVE  cached'[u] = cached[u]
  <2>1. Of(c) # u
    BY <1>3 DEF KeepUser, In, NoWayIn, Inward, Of
  <2> QED BY <1>1, <1>3, <2>1 DEF KeepUser, Rewritten
<1>4. ASSUME NEW c \in Clients, KeepPassword(c), cached'[u] # None
      PROVE  cached[u] # None /\ cached'[u].user.active = cached[u].user.active
  <2>1. CASE cached' = cached
    BY <1>4, <2>1
  <2>2. CASE cached[Of(c)] # None
    <3> DEFINE r == [cached[Of(c)].user EXCEPT !.password = call[c].want.password]
    <3>1. cached' = [cached EXCEPT ![Of(c)] = [user |-> r, fresh |-> TRUE]]
      BY <1>4, <2>2 DEF KeepPassword, Rewritten
    <3>2. cached[Of(c)].user \in Row /\ Of(c) \in Users
      BY <1>1, <2>2, CallTyped DEF Copy
    <3>3. r.active = cached[Of(c)].user.active
      BY <3>2 DEF Row
    <3>4. u = Of(c) => cached'[u].user = r
      BY <1>1, <3>1, <3>2
    <3>5. u # Of(c) => cached'[u] = cached[u]
      BY <1>1, <3>1, <3>2
    <3> QED BY <1>4, <2>2, <3>3, <3>4, <3>5
  <2> QED BY <1>4, <2>1, <2>2 DEF KeepPassword
<1>5. ASSUME NEW c \in Clients, DropCopy(c), cached'[u] # None
      PROVE  cached'[u] = cached[u]
  BY <1>1, <1>5, CallTyped DEF DropCopy
<1>6. ASSUME NEW v \in Users, GrowOld(v), cached'[u] # None
      PROVE  cached[u] # None /\ cached'[u].user = cached[u].user
  <2>1. cached[v] \in Copy /\ cached[v] # None
    BY <1>1, <1>6 DEF GrowOld, HasCopy
  <2>2. [cached[v] EXCEPT !.fresh = FALSE].user = cached[v].user
    BY <2>1 DEF Copy
  <2>3. cached' = [cached EXCEPT ![v] = [cached[v] EXCEPT !.fresh = FALSE]]
    BY <1>6 DEF GrowOld
  <2> QED BY <1>1, <1>6, <2>1, <2>2, <2>3
<1>7. ASSUME NEW v \in Users, cached' = Renewed(v), cached'[u] # None
      PROVE  cached[u] # None /\ cached'[u].user = cached[u].user
  BY <1>1, <1>7, RenewedStatus
<1>8. Restart => cached'[u] = None
  BY DEF Restart
<1>9. ASSUME NEW c \in Clients, Begins(c) \/ DbError(c) PROVE cached' = cached
  BY <1>9 DEF Begins, Login, Register, ChangePassword, UpdateStatus, UpdateRole, DbError, users
<1>10. ASSUME NEW c \in Clients, Progress(c)
       PROVE  \/ cached' = cached \/ cached' = Renewed(Of(c))
              \/ KeepUser(c) \/ KeepPassword(c) \/ DropCopy(c)
  BY <1>10
     DEF Progress, Miss, Find, Verify, RecordFailedAttempt, ClearFailedAttempts, CreateSession,
         UpdateLastLogin, Exists, InsertUser, CheckOld, SetPassword, EndSessions, SetStatus,
         CountAdmins, RoleOf, SetRole, Write, users
<1>11. ASSUME NEW c \in Clients, Progress(c), cached'[u] # None
       PROVE  cached[u] # None /\ cached'[u].user.active = cached[u].user.active
  <2>1. Of(c) \in Users
    BY CallTyped
  <2> QED BY <1>3, <1>4, <1>5, <1>7, <1>10, <1>11, <2>1
<1>12. ASSUME ~\E c \in Clients : Begins(c) \/ Progress(c) \/ DbError(c)
       PROVE  \/ cached' = cached \/ Restart
              \/ \E v \in Users : cached' = Renewed(v) \/ GrowOld(v)
  BY <1>12 DEF Next, UpdateProfile, SessionEnds, Cleanup, Tick, users
<1> QED BY <1>2, <1>6, <1>7, <1>8, <1>9, <1>11, <1>12

\* A call in progress comes to no place from which it gets in a user whom neither the table
\* nor the cache calls active.
LEMMA WayStaysShut ==
  ASSUME IInv, NEW c \in Clients, Progress(c), NEW u \in Users, row[u] # None, ~row[u].active,
         cached[u] # None => ~cached[u].user.active, NoWayIn(u)
  PROVE  NoWayIn(u)'
<1>1. TypeOK /\ call[c] \in Call
  BY CallTyped DEF IInv
<1>2. ASSUME NEW at \in At, Moves(c, at), at \in Inward => Of(c) # u \/ call[c].at \in Inward
      PROVE  NoWayIn(u)'
  BY <1>2 DEF Moves, NoWayIn, Of
<1>3. ASSUME Ends(c) PROVE NoWayIn(u)'
  <2>1. Begun(c, "idle", Anyone)
    BY <1>1, <1>3, EndsEffect
  <2> QED BY <2>1 DEF Begun, NoWayIn, Inward
<1>4. ASSUME NEW at \in At, Goto(c, at), at \in Inward => Of(c) # u \/ call[c].at \in Inward
      PROVE  NoWayIn(u)'
  BY <1>1, <1>2, <1>4, GotoEffect
<1>5. ASSUME Find(c) PROVE NoWayIn(u)'
  <2>1. CASE Goto(c, "verify") /\ Admitted(Found(c))
    <3>1. Of(c) # u
      <4> SUFFICES ASSUME Of(c) = u PROVE FALSE
        OBVIOUS
      <4>1. call[c].missed \/ cached[u] # None
        BY <1>5 DEF Find, Looked, HasCopy
      <4> QED BY <2>1, <4>1 DEF Admitted, Found
    <3> QED BY <1>4, <2>1, <3>1
  <2>2. CASE Goto(c, "fail")
    BY <1>4, <2>2 DEF Inward
  <2> QED BY <1>3, <1>5, <2>1, <2>2 DEF Find
<1>6. ASSUME InsertUser(c) PROVE NoWayIn(u)'
  <2>1. CASE row[Of(c)] = None
    BY <1>4, <1>6, <2>1 DEF InsertUser
  <2> QED BY <1>3, <1>6, <2>1 DEF InsertUser
<1>7. ASSUME Miss(c) PROVE NoWayIn(u)'
  <2>1. call'[c] = [call[c] EXCEPT !.missed = TRUE]
        /\ \A d \in Clients \ {c} : call'[d] = call[d]
    BY <1>1, <1>7 DEF TypeOK, Miss
  <2>2. call'[c].at = call[c].at /\ call'[c].user = call[c].user
    BY <1>1, <2>1 DEF Call
  <2> QED BY <2>1, <2>2 DEF NoWayIn
<1>8. ASSUME Verify(c) PROVE NoWayIn(u)'
  BY <1>4, <1>8 DEF Verify, In, Inward
<1>9. ASSUME ClearFailedAttempts(c) PROVE NoWayIn(u)'
  BY <1>4, <1>9 DEF ClearFailedAttempts, In, Inward
<1>10. \/ Find(c) \/ InsertUser(c) \/ Miss(c) \/ Verify(c) \/ ClearFailedAttempts(c) \/ Ends(c)
       \/ \E at \in At \ Inward : Goto(c, at)
  <2>1. {"touch", "insert", "set", "keep_new", "end", "drop", "set_role", "role_of"}
          \subseteq At \ Inward
    BY DEF Inward
  <2> QED BY <2>1
     DEF Progress, RecordFailedAttempt, CreateSession, UpdateLastLogin, Exists, KeepUser,
         CheckOld, SetPassword, KeepPassword, EndSessions, SetStatus, CountAdmins, RoleOf,
         SetRole, DropCopy
<1> QED BY <1>3, <1>4, <1>5, <1>6, <1>7, <1>8, <1>9, <1>10

\* Nor does any other step.
LEMMA NobodyComesIn ==
  ASSUME IInv, Next, NEW u \in Users, row[u] # None, ~row[u].active,
         cached[u] # None => ~cached[u].user.active, NoWayIn(u)
  PROVE  NoWayIn(u)'
<1>1. CASE call' = call
  BY <1>1 DEF NoWayIn
<1>2. ASSUME NEW c \in Clients, NEW at, NEW v, Begun(c, at, v), at \notin Inward
      PROVE  NoWayIn(u)'
  BY <1>2 DEF Begun, NoWayIn
<1>3. ASSUME NEW c \in Clients, DbError(c) PROVE NoWayIn(u)'
  BY <1>2, <1>3, EndsEffect DEF IInv, DbError, Inward
<1>4. ASSUME NEW c \in Clients, Begins(c) PROVE NoWayIn(u)'
  <2>1. ASSUME NEW kind, NEW at \in At \ Inward, NEW v \in Users, NEW p \in Passwords,
               NEW r \in Row, Starts(c, kind, at, v, p, r)
        PROVE  NoWayIn(u)'
    <3>1. at \in At /\ at \notin Inward /\ TypeOK
      BY DEF IInv
    <3>2. Begun(c, at, v)
      BY <2>1, <3>1, StartsEffect
    <3> QED BY <1>2, <3>1, <3>2
  <2>2. {"find", "exists", "old", "set_status", "set_role", "count"} \subseteq At \ Inward
    BY DEF Inward
  <2>3. ASSUME NEW v \in Users, NEW p \in Passwords, Login(c, v, p)
        PROVE  NoWayIn(u)'
    BY <2>1, <2>2, <2>3, Requests DEF Login
  <2>4. ASSUME NEW v \in Users, NEW p \in Passwords, NEW b \in BOOLEAN, Register(c, v, p, b)
        PROVE  NoWayIn(u)'
    BY <2>1, <2>2, <2>4, Requests DEF Register
  <2>5. ASSUME NEW v \in Users, NEW p \in Passwords, NEW q \in Passwords,
               ChangePassword(c, v, p, q)
        PROVE  NoWayIn(u)'
    BY <2>1, <2>2, <2>5, Requests DEF ChangePassword
  <2>6. ASSUME NEW v \in Users, NEW b \in BOOLEAN, UpdateStatus(c, v, b)
        PROVE  NoWayIn(u)'
    BY <2>1, <2>2, <2>6, Requests DEF UpdateStatus
  <2>7. ASSUME NEW v \in Users, NEW b \in BOOLEAN, UpdateRole(c, v, b)
        PROVE  NoWayIn(u)'
    <3>1. [Blank EXCEPT !.admin = b] \in Row /\ Anything \in Passwords
      BY Requests
    <3> DEFINE at == IF b THEN "set_role" ELSE "count"
    <3>2. at \in At \ Inward /\ Starts(c, "role", at, v, Anything, [Blank EXCEPT !.admin = b])
      BY <2>2, <2>7 DEF UpdateRole
    <3> HIDE DEF at
    <3> QED BY <2>1, <3>1, <3>2
  <2> QED BY <1>4, <2>3, <2>4, <2>5, <2>6, <2>7 DEF Begins
<1>5. ASSUME Restart PROVE NoWayIn(u)'
  BY <1>5 DEF Restart, Idle, NoWayIn, Inward
<1>6. ASSUME ~\E c \in Clients : Begins(c) \/ Progress(c) \/ DbError(c)
      PROVE  call' = call \/ Restart
  BY <1>6 DEF Next, UpdateProfile, GrowOld, SessionEnds, Cleanup, Tick
<1> QED BY <1>1, <1>3, <1>4, <1>5, <1>6, WayStaysShut

\* A session is granted by a call on its way in.
LEMMA NoSessionComes ==
  ASSUME IInv, Next, NEW u \in Users, NoWayIn(u), NEW t \in Tokens, holder[t] # u
  PROVE  holder'[t] # u
<1>1. holder \in [Tokens -> Users \cup {Nobody}] /\ Nobody # u
  BY NobodyAssumption DEF IInv, TypeOK, HolderOK
<1>2. ASSUME NEW S, Withdraw(S) PROVE holder'[t] # u
  BY <1>1, <1>2 DEF Withdraw
<1>3. ASSUME NEW c \in Clients, CreateSession(c) PROVE holder'[t] # u
  <2>1. Of(c) # u
    BY <1>3 DEF CreateSession, In, NoWayIn, Inward, Of
  <2> QED BY <1>1, <1>3, <2>1 DEF CreateSession, Grant, sessions
<1>4. ASSUME NEW c \in Clients, Begins(c) \/ DbError(c) PROVE holder' = holder
  BY <1>4 DEF Begins, Login, Register, ChangePassword, UpdateStatus, UpdateRole, DbError, sessions
<1>5. ASSUME NEW c \in Clients, Progress(c) PROVE holder'[t] # u
  BY <1>2, <1>3, <1>5
     DEF Progress, Miss, Find, Verify, RecordFailedAttempt, ClearFailedAttempts,
         UpdateLastLogin, Exists, InsertUser, KeepUser, CheckOld, SetPassword, KeepPassword,
         EndSessions, SetStatus, CountAdmins, RoleOf, SetRole, DropCopy, sessions
<1>6. ASSUME ~\E c \in Clients : Begins(c) \/ Progress(c) \/ DbError(c) PROVE holder'[t] # u
  BY <1>2, <1>6 DEF Next, UpdateProfile, GrowOld, SessionEnds, Cleanup, Tick, Restart, sessions
<1> QED BY <1>4, <1>5, <1>6

\* Once update_user_status has suspended a user of whom no copy says otherwise, and the
\* sessions and logins there were are over, none of authenticate, register, the changes of
\* password and role and the writes to the cache gets the user in again.
THEOREM SuspendedStayOut == Spec => StaysOut
<1>1. ASSUME IInv, Next, NEW u \in Users, Out(u), ~row'[u].active
      PROVE  Out(u)'
  <2>1. /\ row[u] # None /\ ~row[u].active
        /\ cached[u] # None => ~cached[u].user.active
        /\ NoWayIn(u)
        /\ \A t \in Tokens : holder[t] # u
    BY <1>1, OutSays
  <2>2. row'[u] # None
    BY <1>1, <2>1, RowStays
  <2>3. cached'[u] # None => ~cached'[u].user.active
    BY <1>1, <2>1, CopyStaysOut
  <2>4. NoWayIn(u)'
    BY <1>1, <2>1, NobodyComesIn
  <2>5. \A t \in Tokens : holder'[t] # u
    BY <1>1, <2>1, NoSessionComes
  <2> QED BY <1>1, <2>2, <2>3, <2>4, <2>5 DEF Out, Busy, Of, Held, NoWayIn, Inward
<1>2. IInv /\ [Next]_vars => [\A u \in Users : Out(u) => Out(u)' \/ row'[u].active]_vars
  BY <1>1
<1> QED BY <1>2, Invariance, PTL DEF Spec, StaysOut

=============================================================================
