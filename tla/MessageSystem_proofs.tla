------------------------ MODULE MessageSystem_proofs ------------------------
(***************************************************************************)
(* Safety of MessageSystem for any number of clients, messages and users.  *)
(***************************************************************************)
EXTENDS MessageSystem, TLAPS

(***************************************************************************)
(* The inductive invariant.                                                *)
(***************************************************************************)

ComposeSteps == {"check_hash", "store", "index", "cache_new", "queue", "mark_sent"}
AfterStore   == {"index", "cache_new", "queue", "mark_sent"}

\* What a client in the middle of a call knows about the message it works on.
InCall(c) ==
  /\ call[c].at \notin {"idle", "fill_list"} => Msg(c) \in Messages
  /\ call[c].at \in ComposeSteps => /\ outcome[Msg(c)] = "composing"
                                    /\ composer[Msg(c)] = c
  /\ call[c].at \in {"check_hash", "store"} => ~row[Msg(c)].stored
  /\ call[c].at \in AfterStore => row[Msg(c)].stored
  /\ call[c].at = "fill" => call[c].seen[Msg(c)] # None
  /\ call[c].at \in {"mark_read", "mark_deleted"} => Fetched(Msg(c))

CallsOK == \A c \in Clients : InCall(c)

\* A row nobody has stored yet is as it was at the start.
Untouched ==
  \A m \in Messages : ~row[m].stored => ~row[m].read /\ row[m].status = Pending

UnsentNotStored == \A m \in Messages : outcome[m] = "unsent" => ~row[m].stored

\* The parent of a reply could be fetched, and stays fetchable.
ParentsFetched ==
  \A m \in Messages : row[m].parent # None => Fetched(row[m].parent)

StatusOfUnreadable ==
  \A m \in Messages : ~Readable(m) => ~row[m].read /\ row[m].status \in {Pending, Sent}

\* A client about to store a text has stored no row with that text.
NoOwnCopy ==
  \A c \in Clients : call[c].at = "store" =>
    \A m \in Stored : row[m].req.hash = row[Msg(c)].req.hash => composer[m] # c

IInv ==
  /\ TypeOK
  /\ CallsOK
  /\ Untouched
  /\ UnsentNotStored
  /\ ParentsFetched
  /\ StatusOfUnreadable
  /\ AcceptedIsSent
  /\ ThreadsRooted
  /\ NoOwnCopy
  /\ DuplicateNeedsOverlap

(***************************************************************************)
(* What the operators that move a client or write a row do.                *)
(***************************************************************************)

\* Nothing outside the client's own call changes.
OthersKeep(c) == \A d \in Clients \ {c} : call'[d] = call[d]

LEMMA BeginEffect ==
  ASSUME call \in [Clients -> Call], NEW c \in Clients, NEW at \in At, NEW m \in Messages,
         Begin(c, at, m)
  PROVE  /\ call' \in [Clients -> Call]
         /\ call'[c].at = at /\ call'[c].msg = m
         /\ OthersKeep(c)
BY DEF Begin, OthersKeep, Call, Idle, Nothing, At

LEMMA GotoEffect ==
  ASSUME call \in [Clients -> Call], NEW c \in Clients, NEW at \in At, Goto(c, at)
  PROVE  /\ call' \in [Clients -> Call]
         /\ call'[c].at = at /\ call'[c].msg = call[c].msg
         /\ OthersKeep(c)
BY DEF Goto, OthersKeep, Call

LEMMA GetLoadEffect ==
  ASSUME TypeOK, NEW c \in Clients, GetLoad(c), Fetched(Msg(c)), Msg(c) \in Messages
  PROVE  /\ call' \in [Clients -> Call]
         /\ call'[c].at = "fill" /\ call'[c].msg = call[c].msg
         /\ call'[c].seen[Msg(c)] = row[Msg(c)].status
         /\ OthersKeep(c)
BY DEF TypeOK, GetLoad, OthersKeep, Call, Row, At

LEMMA ReturnEffect ==
  ASSUME call \in [Clients -> Call], NEW c \in Clients, Return(c)
  PROVE  /\ call' \in [Clients -> Call]
         /\ call'[c].at = "idle"
         /\ OthersKeep(c)
BY DEF Return, OthersKeep, Call, Idle, Nothing, At

LEMMA EndsEffect ==
  ASSUME TypeOK, NEW c \in Clients, Msg(c) \in Messages,
         NEW how \in {"accepted", "failed"}, Ends(c, how)
  PROVE  /\ outcome' \in [Messages -> {"unsent", "composing", "accepted", "failed"}]
         /\ outcome'[Msg(c)] = how
         /\ \A m \in Messages \ {Msg(c)} : outcome'[m] = outcome[m]
BY DEF TypeOK, Ends

\* Rows other than m keep all their fields.
RowsKeep(m) == \A n \in Messages \ {m} : row'[n] = row[n]

\* Only the status (and the read mark) of row m may change.
OnlyStatus(m) ==
  /\ RowsKeep(m)
  /\ row'[m].stored = row[m].stored
  /\ row'[m].req = row[m].req
  /\ row'[m].parent = row[m].parent
  /\ row'[m].thread = row[m].thread

LEMMA SetStatusEffect ==
  ASSUME row \in [Messages -> Row], NEW m \in Messages, NEW s \in Status, SetStatusRow(m, s)
  PROVE  /\ row' \in [Messages -> Row]
         /\ OnlyStatus(m)
         /\ row'[m].status = s /\ row'[m].read = row[m].read
<1>1. row' \in [Messages -> Row]
  BY DEF SetStatusRow, Row
<1>2. RowsKeep(m)
  BY DEF SetStatusRow, RowsKeep, Row
<1>3. row'[m].status = s /\ row'[m].read = row[m].read
  BY DEF SetStatusRow, Row
<1>4. /\ row'[m].stored = row[m].stored /\ row'[m].req = row[m].req
      /\ row'[m].parent = row[m].parent /\ row'[m].thread = row[m].thread
  BY DEF SetStatusRow, Row
<1> QED BY <1>1, <1>2, <1>3, <1>4 DEF OnlyStatus

LEMMA MarkReadEffect ==
  ASSUME row \in [Messages -> Row], NEW m \in Messages, MarkReadRow(m)
  PROVE  /\ row' \in [Messages -> Row]
         /\ OnlyStatus(m)
         /\ row'[m].read
         /\ row'[m].status >= Read /\ row'[m].status >= row[m].status
<1>1. row' \in [Messages -> Row]
  <2>1. PICK s \in Status : s = IF row[m].status < Read THEN Read ELSE row[m].status
    BY DEF Row, Status
  <2>2. row' = [row EXCEPT ![m].read = TRUE, ![m].status = s]
    BY <2>1 DEF MarkReadRow
  <2>3. row[m] \in Row
    OBVIOUS
  <2>4. [row[m] EXCEPT !.read = TRUE, !.status = s] \in Row
    BY <2>1, <2>3 DEF Row
  <2>5. row' = [row EXCEPT ![m] = [row[m] EXCEPT !.read = TRUE, !.status = s]]
    BY <2>2
  <2> QED BY <2>4, <2>5
<1>2. RowsKeep(m)
  BY DEF MarkReadRow, RowsKeep, Row
<1>3. row'[m].read = TRUE
  BY DEF MarkReadRow, Row
<1>4. row'[m].status = IF row[m].status < Read THEN Read ELSE row[m].status
  BY DEF MarkReadRow, Row
<1>5. row[m].status \in {0, 1, 3, 5}
  BY DEF Row, Status, Pending, Sent, Read, Deleted
<1>6. row'[m].status >= Read /\ row'[m].status >= row[m].status
  BY <1>4, <1>5 DEF Read
<1>7. /\ row'[m].stored = row[m].stored /\ row'[m].req = row[m].req
      /\ row'[m].parent = row[m].parent /\ row'[m].thread = row[m].thread
  BY DEF MarkReadRow, Row
<1> QED BY <1>1, <1>2, <1>3, <1>6, <1>7 DEF OnlyStatus

LEMMA StoreEffect ==
  ASSUME row \in [Messages -> Row], NEW m \in Messages,
         row' = [row EXCEPT ![m].stored = TRUE]
  PROVE  /\ row' \in [Messages -> Row]
         /\ RowsKeep(m)
         /\ row'[m].stored
         /\ row'[m].req = row[m].req /\ row'[m].parent = row[m].parent
         /\ row'[m].thread = row[m].thread
         /\ row'[m].status = row[m].status /\ row'[m].read = row[m].read
<1>1. row' \in [Messages -> Row]
  BY DEF Row
<1>2. RowsKeep(m)
  BY DEF RowsKeep, Row
<1>3. row'[m].stored = TRUE
  BY DEF Row
<1>4. /\ row'[m].req = row[m].req /\ row'[m].parent = row[m].parent
      /\ row'[m].thread = row[m].thread
  BY DEF Row
<1>5. row'[m].status = row[m].status /\ row'[m].read = row[m].read
  BY DEF Row
<1> QED BY <1>1, <1>2, <1>3, <1>4, <1>5

LEMMA ThreadForTyped ==
  ASSUME row \in [Messages -> Row], NEW m \in Messages, NEW p \in Messages \cup {None}
  PROVE  ThreadFor(m, p) \in Messages
BY DEF ThreadFor, Row

LEMMA BuildEffect ==
  ASSUME row \in [Messages -> Row], NEW m \in Messages, NEW q \in Requests,
         NEW p \in Messages \cup {None}, BuildRow(m, q, p)
  PROVE  /\ row' \in [Messages -> Row]
         /\ RowsKeep(m)
         /\ row'[m].req = q /\ row'[m].parent = p
         /\ row'[m].thread = IF p = None THEN m ELSE row[p].thread
         /\ row'[m].stored = row[m].stored
         /\ row'[m].status = row[m].status /\ row'[m].read = row[m].read
<1> DEFINE t == ThreadFor(m, p)
<1>1. t \in Messages
  BY ThreadForTyped
<1>2. row' = [row EXCEPT ![m].req = q, ![m].parent = p, ![m].thread = t]
  BY DEF BuildRow
<1> HIDE DEF t
<1>3. row' \in [Messages -> Row]
  BY <1>1, <1>2 DEF Row
<1>4. RowsKeep(m)
  BY <1>2 DEF RowsKeep, Row
<1>5. row'[m].req = q /\ row'[m].parent = p /\ row'[m].thread = t
  BY <1>2 DEF Row
<1>6. /\ row'[m].stored = row[m].stored
      /\ row'[m].status = row[m].status /\ row'[m].read = row[m].read
  BY <1>2 DEF Row
<1> QED BY <1>3, <1>4, <1>5, <1>6 DEF t, ThreadFor

\* Insert leaves a cache of well-formed entries.
LEMMA InsertTyped ==
  ASSUME TypeOK, NEW m \in Messages, NEW s \in Status, Insert(m, s)
  PROVE  recent' \in [Messages -> Entry \cup {None}]
BY DEF TypeOK, Insert, Entry, Age

LEMMA StatusValues == Pending \in Status /\ Sent \in Status /\ Deleted \in Status
BY DEF Status

(***************************************************************************)
(* Type correctness.                                                       *)
(***************************************************************************)

LEMMA InitTypeOK == Init => TypeOK
BY RequestAssumption DEF Init, TypeOK, Row, Call, At, Idle, Nothing, Status,
   Pending, Sent, Read, Deleted

\* TypeOK is preserved by every step; that GetFill inserts something it fetched is all
\* it needs to know of the calls in progress.
LEMMA TypeStep ==
  ASSUME TypeOK, CallsOK, Next
  PROVE  TypeOK'
<1> USE StatusValues
<1>1. ASSUME NEW c \in Clients, NEW m \in Messages, NEW q \in Requests,
             NEW p \in Messages \cup {None}, ComposeStart(c, m, q, p)
      PROVE  TypeOK'
  <2>1. row' \in [Messages -> Row]
    BY <1>1, BuildEffect DEF TypeOK, ComposeStart
  <2>2. call' \in [Clients -> Call]
    BY <1>1, BeginEffect DEF TypeOK, ComposeStart, At
  <2> QED BY <1>1, <2>1, <2>2 DEF TypeOK, ComposeStart
<1>2. ASSUME NEW c \in Clients, NEW m \in Messages, NEW u \in Users,
             GetMiss(c, m, u) \/ ReadStart(c, m, u) \/ DeleteStart(c, m, u)
      PROVE  TypeOK'
  <2>1. call' \in [Clients -> Call]
    BY <1>2, BeginEffect DEF TypeOK, GetMiss, ReadStart, DeleteStart, At
  <2> QED BY <1>2, <2>1 DEF TypeOK, GetMiss, ReadStart, DeleteStart
<1>3. ASSUME NEW c \in Clients, NEW page \in SUBSET Messages, ListLoad(c, page)
      PROVE  TypeOK'
  BY <1>3 DEF TypeOK, ListLoad, Idle, Call, At, Row
<1>4. ASSUME NEW c \in Clients, CheckHash(c)
      PROVE  TypeOK'
  <2>1. Msg(c) \in Messages
    BY <1>4 DEF CallsOK, InCall, CheckHash, In
  <2> QED BY <1>4, <2>1, GotoEffect, ReturnEffect, EndsEffect DEF TypeOK, CheckHash, At
<1>5. ASSUME NEW c \in Clients, StoreRow(c)
      PROVE  TypeOK'
  <2>1. Msg(c) \in Messages
    BY <1>5 DEF CallsOK, InCall, StoreRow, In
  <2> QED BY <1>5, <2>1, GotoEffect, StoreEffect DEF TypeOK, StoreRow, At
<1>6. ASSUME NEW c \in Clients, IndexRow(c)
      PROVE  TypeOK'
  <2>1. Msg(c) \in Messages
    BY <1>6 DEF CallsOK, InCall, IndexRow, In
  <2>2. row[Msg(c)].req.hash \in STRING
    BY <2>1, RequestAssumption DEF TypeOK, Row, RequestType
  <2> QED BY <1>6, <2>2, GotoEffect DEF TypeOK, IndexRow, At
<1>7. ASSUME NEW c \in Clients, CacheNew(c) \/ GetFill(c)
      PROVE  TypeOK'
  <2>1. Msg(c) \in Messages
    BY <1>7 DEF CallsOK, InCall, CacheNew, GetFill, In
  <2>2. CASE CacheNew(c)
    BY <2>1, <2>2, InsertTyped, GotoEffect DEF TypeOK, CacheNew, At
  <2>3. CASE GetFill(c)
    <3>1. call[c].seen[Msg(c)] \in Status
      BY <2>1, <2>3 DEF CallsOK, InCall, GetFill, In, TypeOK, Call
    <3> QED BY <2>1, <2>3, <3>1, InsertTyped, ReturnEffect DEF TypeOK, GetFill
  <2> QED BY <1>7, <2>2, <2>3
<1>8. ASSUME NEW c \in Clients, QueueDelivery(c)
      PROVE  TypeOK'
  <2>1. Msg(c) \in Messages
    BY <1>8 DEF CallsOK, InCall, QueueDelivery, In
  <2> QED BY <1>8, <2>1, GotoEffect DEF TypeOK, QueueDelivery, At
<1>9. ASSUME NEW c \in Clients, MarkSent(c) \/ MarkRead(c) \/ MarkDeleted(c)
      PROVE  TypeOK'
  <2>1. Msg(c) \in Messages
    BY <1>9 DEF CallsOK, InCall, MarkSent, MarkRead, MarkDeleted, In
  <2>2. CASE MarkSent(c)
    BY <2>1, <2>2, SetStatusEffect, ReturnEffect, EndsEffect DEF TypeOK, MarkSent
  <2>3. CASE MarkRead(c)
    BY <2>1, <2>3, MarkReadEffect, GotoEffect DEF TypeOK, MarkRead, At
  <2>4. CASE MarkDeleted(c)
    BY <2>1, <2>4, SetStatusEffect, GotoEffect DEF TypeOK, MarkDeleted, At
  <2> QED BY <1>9, <2>2, <2>3, <2>4
<1>10. ASSUME NEW c \in Clients, GetLoad(c)
       PROVE  TypeOK'
  <2>1. Msg(c) \in Messages
    BY <1>10 DEF CallsOK, InCall, GetLoad, In
  <2>2. call' \in [Clients -> Call]
    BY <1>10, <2>1, ReturnEffect, GetLoadEffect DEF TypeOK, GetLoad
  <2> QED BY <1>10, <2>2 DEF TypeOK, GetLoad
<1>11. ASSUME NEW c \in Clients, ListFill(c)
       PROVE  TypeOK'
  <2>1. recent' \in [Messages -> Entry \cup {None}]
    BY <1>11 DEF TypeOK, ListFill, InsertAll, Call, Entry, Age
  <2> QED BY <1>11, <2>1, ReturnEffect DEF TypeOK, ListFill
<1>12. ASSUME NEW c \in Clients, Invalidate(c)
       PROVE  TypeOK'
  BY <1>12, ReturnEffect DEF TypeOK, Invalidate
<1>13. ASSUME NEW c \in Clients, DbError(c)
       PROVE  TypeOK'
  <2>1. Msg(c) \in Messages
    BY <1>13 DEF CallsOK, InCall, DbError, DbSteps
  <2> QED BY <1>13, <2>1, ReturnEffect, EndsEffect DEF TypeOK, DbError
<1>14. ASSUME ProcessDeliveries \/ CleanupCache \/ RebuildIndexes
       PROVE  TypeOK'
  BY <1>14 DEF TypeOK, ProcessDeliveries, CleanupCache, RebuildIndexes
<1>15. ASSUME Restart
       PROVE  TypeOK'
  BY <1>15 DEF TypeOK, Restart, Nothing, Idle, Call, At
<1>16. ASSUME NEW m \in Messages, GrowOld(m)
       PROVE  TypeOK'
  <2>1. recent[m] \in Entry
    BY <1>16 DEF TypeOK, GrowOld, Cached
  <2>2. recent' \in [Messages -> Entry \cup {None}]
    BY <1>16, <2>1 DEF TypeOK, GrowOld, Entry, Age
  <2> QED BY <1>16, <2>2 DEF TypeOK, GrowOld
<1> QED
  BY <1>1, <1>2, <1>3, <1>4, <1>5, <1>6, <1>7, <1>8, <1>9, <1>10, <1>11, <1>12, <1>13,
     <1>14, <1>15, <1>16 DEF Next, Start, Progress, Inbox, GroupRows, Stored

(***************************************************************************)
(* What each client knows of its message.                                  *)
(***************************************************************************)

\* A client other than c keeps what it knows when the table, the outcomes and the
\* composers stay as they are for its message.
LEMMA OtherCalls ==
  ASSUME CallsOK, NEW c \in Clients, OthersKeep(c),
         UNCHANGED <<row, outcome, composer>>, InCall(c)'
  PROVE  CallsOK'
BY DEF CallsOK, InCall, OthersKeep, Msg, Fetched, Readable, Flagged, Encoded

\* No two clients compose the same message.
LEMMA OneComposer ==
  ASSUME CallsOK, NEW c \in Clients, NEW d \in Clients, c # d,
         call[c].at \in ComposeSteps, call[d].at \in ComposeSteps
  PROVE  Msg(c) # Msg(d)
BY DEF CallsOK, InCall

\* A write to the status of a row hurts nobody.
LEMMA StatusCalls ==
  ASSUME CallsOK, NEW c \in Clients, OthersKeep(c), InCall(c)',
         NEW m \in Messages, OnlyStatus(m), UNCHANGED <<outcome, composer>>
  PROVE  CallsOK'
<1>1. \A n \in Messages : row'[n].stored = row[n].stored /\ row'[n].req = row[n].req
  BY DEF OnlyStatus, RowsKeep
<1>2. \A n \in Messages : Fetched(n) => Fetched(n)'
  BY <1>1 DEF Fetched, Readable, Flagged, Encoded
<1> QED BY <1>1, <1>2 DEF CallsOK, InCall, OthersKeep, Msg, ComposeSteps, AfterStore

\* Nor does the end of a compose, since nobody else composes that message.
LEMMA EndedCall ==
  ASSUME TypeOK, CallsOK, NEW c \in Clients, NEW how \in {"accepted", "failed"},
         Msg(c) \in Messages, composer[Msg(c)] = c,
         Return(c), Ends(c, how), OnlyStatus(Msg(c)), UNCHANGED composer
  PROVE  CallsOK'
<1>1. call'[c].at = "idle" /\ OthersKeep(c)
  BY ReturnEffect DEF TypeOK
<1>2. \A n \in Messages : row'[n].stored = row[n].stored /\ row'[n].req = row[n].req
  BY DEF OnlyStatus, RowsKeep
<1>3. \A n \in Messages : Fetched(n) => Fetched(n)'
  BY <1>2 DEF Fetched, Readable, Flagged, Encoded
<1>4. InCall(c)'
  BY <1>1 DEF InCall, ComposeSteps, AfterStore
<1>5. ASSUME NEW d \in Clients, d # c
      PROVE  InCall(d)'
  <2>1. InCall(d) /\ call'[d] = call[d]
    BY <1>1, <1>5 DEF CallsOK, OthersKeep
  <2>2. call[d].at \in ComposeSteps => Msg(d) # Msg(c)
    BY <1>5, <2>1 DEF InCall
  <2>3. \A n \in Messages \ {Msg(c)} : outcome'[n] = outcome[n]
    BY EndsEffect
  <2> QED BY <1>2, <1>3, <2>1, <2>2, <2>3 DEF InCall, Msg, ComposeSteps, AfterStore
<1> QED BY <1>4, <1>5 DEF CallsOK

LEMMA CallsStep ==
  ASSUME TypeOK, TypeOK', CallsOK, UnsentNotStored, Next
  PROVE  CallsOK'
<1> USE DEF ComposeSteps, AfterStore
<1>1. ASSUME NEW c \in Clients, NEW m \in Messages, NEW q \in Requests,
             NEW p \in Messages \cup {None}, ComposeStart(c, m, q, p)
      PROVE  CallsOK'
  <2>1. /\ call'[c].at = "check_hash" /\ call'[c].msg = m /\ OthersKeep(c)
    BY <1>1, BeginEffect DEF TypeOK, ComposeStart, At
  <2>2. /\ RowsKeep(m) /\ row'[m].stored = row[m].stored
    BY <1>1, BuildEffect DEF TypeOK, ComposeStart
  <2>3. outcome[m] = "unsent" /\ ~row[m].stored
    BY <1>1 DEF ComposeStart, UnsentNotStored
  <2>4. outcome'[m] = "composing" /\ composer'[m] = c
    BY <1>1 DEF ComposeStart, TypeOK
  <2>5. \A n \in Messages \ {m} : outcome'[n] = outcome[n] /\ composer'[n] = composer[n]
    BY <1>1 DEF ComposeStart, TypeOK
  <2>6. InCall(c)'
    BY <2>1, <2>2, <2>3, <2>4 DEF InCall, Msg
  <2>7. ASSUME NEW d \in Clients, d # c
        PROVE  InCall(d)'
    <3>1. InCall(d) /\ call'[d] = call[d]
      BY <2>1, <2>7 DEF CallsOK, OthersKeep
    <3>2. CASE Msg(d) = m
      BY <2>2, <2>3, <3>1, <3>2 DEF InCall, Msg, Fetched
    <3>3. CASE Msg(d) \in Messages \ {m}
      BY <2>2, <2>5, <3>1, <3>3
         DEF InCall, Msg, RowsKeep, Fetched, Readable, Flagged, Encoded
    <3>4. CASE Msg(d) \notin Messages
      BY <3>1, <3>4 DEF InCall, Msg
    <3> QED BY <3>2, <3>3, <3>4
  <2> QED BY <2>6, <2>7 DEF CallsOK
<1>2. ASSUME NEW c \in Clients, NEW m \in Messages, NEW u \in Users,
             GetMiss(c, m, u) \/ ReadStart(c, m, u) \/ DeleteStart(c, m, u)
      PROVE  CallsOK'
  <2>1. /\ call'[c].at \in {"load", "mark_read", "mark_deleted"}
        /\ call'[c].msg = m /\ OthersKeep(c)
    BY <1>2, BeginEffect DEF TypeOK, GetMiss, ReadStart, DeleteStart, At
  <2>2. call'[c].at \in {"mark_read", "mark_deleted"} => Fetched(m)
    BY <1>2, BeginEffect DEF TypeOK, GetMiss, ReadStart, DeleteStart, At
  <2>3. UNCHANGED <<row, outcome, composer>>
    BY <1>2 DEF GetMiss, ReadStart, DeleteStart
  <2>4. InCall(c)'
    BY <2>1, <2>2, <2>3 DEF InCall, Msg, Fetched, Readable, Flagged, Encoded
  <2> QED BY <2>1, <2>3, <2>4, OtherCalls
<1>3. ASSUME NEW c \in Clients, NEW page \in SUBSET Messages, ListLoad(c, page)
      PROVE  CallsOK'
  <2>1. call'[c].at = "fill_list" /\ OthersKeep(c)
    BY <1>3 DEF TypeOK, ListLoad, Idle, OthersKeep
  <2>2. InCall(c)'
    BY <2>1 DEF InCall
  <2> QED BY <1>3, <2>1, <2>2, OtherCalls DEF ListLoad
<1>4. ASSUME NEW c \in Clients, CheckHash(c)
      PROVE  CallsOK'
  <2>1. /\ Msg(c) \in Messages /\ ~row[Msg(c)].stored
        /\ outcome[Msg(c)] = "composing" /\ composer[Msg(c)] = c
    BY <1>4 DEF CallsOK, InCall, CheckHash, In
  <2>2. CASE HashKnown(row[Msg(c)].req.hash)
    <3>1. OnlyStatus(Msg(c))
      BY <1>4 DEF CheckHash, OnlyStatus, RowsKeep
    <3> QED BY <1>4, <2>1, <2>2, <3>1, EndedCall DEF CheckHash
  <2>3. CASE ~HashKnown(row[Msg(c)].req.hash)
    <3>1. /\ call'[c].at = "store" /\ call'[c].msg = call[c].msg /\ OthersKeep(c)
          /\ UNCHANGED <<row, outcome, composer>>
      BY <1>4, <2>3, GotoEffect DEF TypeOK, CheckHash, At
    <3>2. InCall(c)'
      BY <2>1, <3>1 DEF InCall, Msg
    <3> QED BY <3>1, <3>2, OtherCalls
  <2> QED BY <2>2, <2>3
<1>5. ASSUME NEW c \in Clients, StoreRow(c)
      PROVE  CallsOK'
  <2>1. /\ Msg(c) \in Messages
        /\ outcome[Msg(c)] = "composing" /\ composer[Msg(c)] = c
    BY <1>5 DEF CallsOK, InCall, StoreRow, In
  <2>2. call'[c].at = "index" /\ call'[c].msg = call[c].msg /\ OthersKeep(c)
    BY <1>5, GotoEffect DEF TypeOK, StoreRow, At
  <2>3. RowsKeep(Msg(c)) /\ row'[Msg(c)].stored /\ row'[Msg(c)].req = row[Msg(c)].req
    BY <1>5, <2>1, StoreEffect DEF TypeOK, StoreRow
  <2>4. UNCHANGED <<outcome, composer>>
    BY <1>5 DEF StoreRow
  <2>5. InCall(c)'
    BY <2>1, <2>2, <2>3, <2>4 DEF InCall, Msg
  <2>6. ASSUME NEW d \in Clients, d # c
        PROVE  InCall(d)'
    <3>1. InCall(d) /\ call'[d] = call[d]
      BY <2>2, <2>6 DEF CallsOK, OthersKeep
    <3>2. call[d].at \in {"check_hash", "store"} => Msg(d) # Msg(c)
      BY <1>5, <2>6, OneComposer DEF StoreRow, In
    <3>3. \A n \in Messages : Fetched(n) => Fetched(n)'
      BY <2>3 DEF RowsKeep, Fetched, Readable, Flagged, Encoded
    <3> QED BY <2>3, <2>4, <3>1, <3>2, <3>3 DEF InCall, Msg, RowsKeep
  <2> QED BY <2>5, <2>6 DEF CallsOK
<1>6. ASSUME NEW c \in Clients, IndexRow(c) \/ CacheNew(c) \/ QueueDelivery(c)
      PROVE  CallsOK'
  <2>1. /\ Msg(c) \in Messages /\ row[Msg(c)].stored
        /\ outcome[Msg(c)] = "composing" /\ composer[Msg(c)] = c
    BY <1>6 DEF CallsOK, InCall, IndexRow, CacheNew, QueueDelivery, In
  <2>2. /\ call'[c].at \in {"cache_new", "queue", "mark_sent"}
        /\ call'[c].msg = call[c].msg /\ OthersKeep(c)
    BY <1>6, GotoEffect DEF TypeOK, IndexRow, CacheNew, QueueDelivery, At
  <2>3. UNCHANGED <<row, outcome, composer>>
    BY <1>6 DEF IndexRow, CacheNew, QueueDelivery
  <2>4. InCall(c)'
    BY <2>1, <2>2, <2>3 DEF InCall, Msg
  <2> QED BY <2>2, <2>3, <2>4, OtherCalls
<1>7. ASSUME NEW c \in Clients, MarkSent(c)
      PROVE  CallsOK'
  <2>1. /\ Msg(c) \in Messages
        /\ outcome[Msg(c)] = "composing" /\ composer[Msg(c)] = c
    BY <1>7 DEF CallsOK, InCall, MarkSent, In
  <2>2. OnlyStatus(Msg(c))
    BY <1>7, <2>1, SetStatusEffect, StatusValues DEF TypeOK, MarkSent
  <2> QED BY <1>7, <2>1, <2>2, EndedCall DEF MarkSent
<1>8. ASSUME NEW c \in Clients, MarkRead(c) \/ MarkDeleted(c)
      PROVE  CallsOK'
  <2>1. Msg(c) \in Messages
    BY <1>8 DEF CallsOK, InCall, MarkRead, MarkDeleted, In
  <2>2. /\ call'[c].at = "invalidate" /\ call'[c].msg = call[c].msg /\ OthersKeep(c)
    BY <1>8, GotoEffect DEF TypeOK, MarkRead, MarkDeleted, At
  <2>3. OnlyStatus(Msg(c))
    BY <1>8, <2>1, SetStatusEffect, MarkReadEffect, StatusValues
       DEF TypeOK, MarkRead, MarkDeleted
  <2>4. UNCHANGED <<outcome, composer>>
    BY <1>8 DEF MarkRead, MarkDeleted
  <2>5. InCall(c)'
    BY <2>1, <2>2 DEF InCall, Msg
  <2> QED BY <2>1, <2>2, <2>3, <2>4, <2>5, StatusCalls
<1>9. ASSUME NEW c \in Clients, GetLoad(c)
      PROVE  CallsOK'
  <2>1. Msg(c) \in Messages
    BY <1>9 DEF CallsOK, InCall, GetLoad, In
  <2>2. InCall(c)' /\ OthersKeep(c)
    <3>1. CASE Fetched(Msg(c))
      <4>1. row[Msg(c)].status # None
        BY <2>1, NoneAssumption DEF TypeOK, Row
      <4> QED BY <1>9, <2>1, <3>1, <4>1, GetLoadEffect DEF InCall, Msg
    <3>2. CASE ~Fetched(Msg(c))
      BY <1>9, <3>2, ReturnEffect DEF TypeOK, GetLoad, InCall
    <3> QED BY <3>1, <3>2
  <2> QED BY <1>9, <2>2, OtherCalls DEF GetLoad
<1>10. ASSUME NEW c \in Clients, GetFill(c) \/ ListFill(c) \/ Invalidate(c)
       PROVE  CallsOK'
  <2>1. call'[c].at = "idle" /\ OthersKeep(c)
    BY <1>10, ReturnEffect DEF TypeOK, GetFill, ListFill, Invalidate
  <2>2. InCall(c)'
    BY <2>1 DEF InCall
  <2> QED BY <1>10, <2>1, <2>2, OtherCalls DEF GetFill, ListFill, Invalidate
<1>11. ASSUME NEW c \in Clients, DbError(c)
       PROVE  CallsOK'
  <2>1. Msg(c) \in Messages
    BY <1>11 DEF CallsOK, InCall, DbError, DbSteps
  <2>2. CASE outcome[Msg(c)] = "composing" /\ composer[Msg(c)] = c
    <3>1. OnlyStatus(Msg(c))
      BY <1>11 DEF DbError, OnlyStatus, RowsKeep
    <3> QED BY <1>11, <2>1, <2>2, <3>1, EndedCall DEF DbError
  <2>3. CASE ~(outcome[Msg(c)] = "composing" /\ composer[Msg(c)] = c)
    <3>1. call'[c].at = "idle" /\ OthersKeep(c)
      BY <1>11, ReturnEffect DEF TypeOK, DbError
    <3>2. InCall(c)'
      BY <3>1 DEF InCall
    <3> QED BY <1>11, <2>3, <3>1, <3>2, OtherCalls DEF DbError
  <2> QED BY <2>2, <2>3
<1>12. ASSUME ProcessDeliveries \/ CleanupCache \/ RebuildIndexes
              \/ \E m \in Messages : GrowOld(m)
       PROVE  CallsOK'
  BY <1>12 DEF ProcessDeliveries, CleanupCache, RebuildIndexes, GrowOld,
     CallsOK, InCall, Msg, Fetched, Readable, Flagged, Encoded
<1>13. ASSUME Restart
       PROVE  CallsOK'
  BY <1>13 DEF Restart, CallsOK, InCall, Idle
<1> QED
  BY <1>1, <1>2, <1>3, <1>4, <1>5, <1>6, <1>7, <1>8, <1>9, <1>10, <1>11, <1>12, <1>13
     DEF Next, Start, Progress, Inbox, GroupRows, Stored

(***************************************************************************)
(* The table.                                                              *)
(***************************************************************************)

\* A step that writes no row; at most it turns composes into failed ones.
NoRowWritten ==
  /\ UNCHANGED <<row, composer>>
  /\ \A m \in Messages :
       \/ outcome'[m] = outcome[m]
       \/ outcome[m] = "composing" /\ outcome'[m] = "failed"

\* Row m gets its request, parent and thread.
RowComposed(c, m, p) ==
  /\ outcome[m] = "unsent" /\ outcome'[m] = "composing" /\ composer'[m] = c
  /\ \A n \in Messages \ {m} : outcome'[n] = outcome[n] /\ composer'[n] = composer[n]
  /\ p # None => Fetched(p)
  /\ RowsKeep(m)
  /\ row'[m].parent = p
  /\ row'[m].thread = IF p = None THEN m ELSE row[p].thread
  /\ row'[m].stored = row[m].stored
  /\ row'[m].status = row[m].status
  /\ row'[m].read = row[m].read

\* Row m appears in the table.
RowStored(c, m) ==
  /\ m = Msg(c) /\ call[c].at = "store" /\ call'[c].at = "index"
  /\ ~row[m].stored /\ row'[m].stored
  /\ outcome[m] = "composing" /\ composer[m] = c
  /\ RowsKeep(m)
  /\ row'[m].req = row[m].req /\ row'[m].parent = row[m].parent
  /\ row'[m].thread = row[m].thread
  /\ row'[m].status = row[m].status /\ row'[m].read = row[m].read
  /\ UNCHANGED <<outcome, composer>>

\* Row m is marked Sent, which ends its compose.
RowSent(m) ==
  /\ row[m].stored /\ outcome[m] = "composing" /\ outcome'[m] = "accepted"
  /\ \A n \in Messages \ {m} : outcome'[n] = outcome[n]
  /\ OnlyStatus(m)
  /\ row'[m].status = Sent /\ row'[m].read = row[m].read
  /\ UNCHANGED composer

\* Row m is marked Read or Deleted.
RowTouched(m) ==
  /\ Fetched(m)
  /\ OnlyStatus(m)
  /\ row'[m].status >= Read /\ row'[m].status >= row[m].status
  /\ UNCHANGED <<outcome, composer>>

TableStep ==
  \/ NoRowWritten
  \/ \E c \in Clients, m \in Messages, p \in Messages \cup {None} : RowComposed(c, m, p)
  \/ \E c \in Clients, m \in Messages : RowStored(c, m)
  \/ \E m \in Messages : RowSent(m) \/ RowTouched(m)

\* Every step treats the table in one of these ways.
LEMMA TableSteps ==
  ASSUME TypeOK, CallsOK, Next
  PROVE  TableStep
<1> USE DEF ComposeSteps, AfterStore
<1>1. ASSUME NEW c \in Clients, NEW m \in Messages, NEW q \in Requests,
             NEW p \in Messages \cup {None}, ComposeStart(c, m, q, p)
      PROVE  TableStep
  <2>1. /\ RowsKeep(m)
        /\ row'[m].parent = p /\ row'[m].thread = IF p = None THEN m ELSE row[p].thread
        /\ row'[m].stored = row[m].stored
        /\ row'[m].status = row[m].status /\ row'[m].read = row[m].read
    BY <1>1, BuildEffect DEF TypeOK, ComposeStart
  <2>2. /\ outcome'[m] = "composing" /\ composer'[m] = c
        /\ \A n \in Messages \ {m} : outcome'[n] = outcome[n] /\ composer'[n] = composer[n]
    BY <1>1 DEF ComposeStart, TypeOK
  <2>3. RowComposed(c, m, p)
    BY <1>1, <2>1, <2>2 DEF ComposeStart, RowComposed
  <2> QED BY <2>3 DEF TableStep
<1>2. ASSUME NEW c \in Clients, StoreRow(c)
      PROVE  TableStep
  <2>1. /\ Msg(c) \in Messages /\ ~row[Msg(c)].stored
        /\ outcome[Msg(c)] = "composing" /\ composer[Msg(c)] = c
    BY <1>2 DEF CallsOK, InCall, StoreRow, In
  <2>2. row' = [row EXCEPT ![Msg(c)].stored = TRUE]
    BY <1>2 DEF StoreRow
  <2>3. RowStored(c, Msg(c))
    BY <1>2, <2>1, <2>2, StoreEffect, GotoEffect DEF TypeOK, StoreRow, In, RowStored, At
  <2> QED BY <2>1, <2>3 DEF TableStep
<1>3. ASSUME NEW c \in Clients, MarkSent(c)
      PROVE  TableStep
  <2>1. /\ Msg(c) \in Messages /\ row[Msg(c)].stored /\ outcome[Msg(c)] = "composing"
    BY <1>3 DEF CallsOK, InCall, MarkSent, In
  <2>2. RowSent(Msg(c))
    BY <1>3, <2>1, SetStatusEffect, EndsEffect, StatusValues DEF TypeOK, MarkSent, RowSent
  <2> QED BY <2>1, <2>2 DEF TableStep
<1>4. ASSUME NEW c \in Clients, MarkRead(c) \/ MarkDeleted(c)
      PROVE  TableStep
  <2>1. Msg(c) \in Messages /\ Fetched(Msg(c))
    BY <1>4 DEF CallsOK, InCall, MarkRead, MarkDeleted, In
  <2>2. row[Msg(c)].status \in {0, 1, 3, 5}
    BY <2>1 DEF TypeOK, Row, Status, Pending, Sent, Read, Deleted
  <2>3. CASE MarkRead(c)
    <3>1. RowTouched(Msg(c))
      BY <2>1, <2>3, MarkReadEffect DEF TypeOK, MarkRead, RowTouched
    <3> QED BY <2>1, <3>1 DEF TableStep
  <2>4. CASE MarkDeleted(c)
    <3>1. /\ OnlyStatus(Msg(c)) /\ row'[Msg(c)].status = 5
      BY <2>1, <2>4, SetStatusEffect, StatusValues DEF TypeOK, MarkDeleted, Deleted
    <3> QED BY <2>1, <2>2, <2>4, <3>1 DEF MarkDeleted, RowTouched, TableStep, Read
  <2> QED BY <1>4, <2>3, <2>4
<1>5. ASSUME NEW c \in Clients, CheckHash(c) \/ DbError(c)
      PROVE  TableStep
  <2>1. Msg(c) \in Messages
    BY <1>5 DEF CallsOK, InCall, CheckHash, DbError, DbSteps, In
  <2>2. outcome' = outcome \/ (Ends(c, "failed") /\ outcome[Msg(c)] = "composing")
    BY <1>5 DEF CallsOK, InCall, CheckHash, DbError, In
  <2>3. UNCHANGED <<row, composer>>
    BY <1>5 DEF CheckHash, DbError
  <2> QED BY <2>1, <2>2, <2>3, EndsEffect DEF NoRowWritten, TableStep
<1>6. ASSUME Restart
      PROVE  TableStep
  BY <1>6 DEF Restart, NoRowWritten, TableStep, TypeOK
<1>7. ASSUME UNCHANGED <<row, outcome, composer>>
      PROVE  TableStep
  BY <1>7 DEF NoRowWritten, TableStep
<1> QED
  BY <1>1, <1>2, <1>3, <1>4, <1>5, <1>6, <1>7
     DEF Next, Start, Progress, GetMiss, ReadStart, DeleteStart, ListLoad, IndexRow,
         CacheNew, QueueDelivery, GetLoad, GetFill, ListFill, Invalidate,
         ProcessDeliveries, CleanupCache, RebuildIndexes, GrowOld

LEMMA UntouchedStep ==
  ASSUME Untouched, TableStep
  PROVE  Untouched'
<1>1. CASE NoRowWritten
  BY <1>1 DEF Untouched, NoRowWritten
<1>2. CASE \E c \in Clients, m \in Messages, p \in Messages \cup {None} : RowComposed(c, m, p)
  BY <1>2 DEF Untouched, RowComposed, RowsKeep
<1>3. CASE \E c \in Clients, m \in Messages : RowStored(c, m)
  BY <1>3 DEF Untouched, RowStored, RowsKeep
<1>4. CASE \E m \in Messages : RowSent(m) \/ RowTouched(m)
  BY <1>4 DEF Untouched, RowSent, RowTouched, Fetched, OnlyStatus, RowsKeep
<1> QED BY <1>1, <1>2, <1>3, <1>4 DEF TableStep

LEMMA UnsentStep ==
  ASSUME UnsentNotStored, TableStep
  PROVE  UnsentNotStored'
<1>1. CASE NoRowWritten
  BY <1>1 DEF UnsentNotStored, NoRowWritten
<1>2. CASE \E c \in Clients, m \in Messages, p \in Messages \cup {None} : RowComposed(c, m, p)
  BY <1>2 DEF UnsentNotStored, RowComposed, RowsKeep
<1>3. CASE \E c \in Clients, m \in Messages : RowStored(c, m)
  BY <1>3 DEF UnsentNotStored, RowStored, RowsKeep
<1>4. CASE \E m \in Messages : RowSent(m) \/ RowTouched(m)
  BY <1>4 DEF UnsentNotStored, RowSent, RowTouched, OnlyStatus, RowsKeep
<1> QED BY <1>1, <1>2, <1>3, <1>4 DEF TableStep

\* What could be fetched still can.
LEMMA FetchedStays ==
  ASSUME UnsentNotStored, TableStep, NEW n \in Messages, Fetched(n)
  PROVE  Fetched(n)' /\ row'[n].thread = row[n].thread /\ row'[n].parent = row[n].parent
<1> USE DEF Fetched, Readable, Flagged, Encoded
<1>1. CASE NoRowWritten
  BY <1>1 DEF NoRowWritten
<1>2. CASE \E c \in Clients, m \in Messages, p \in Messages \cup {None} : RowComposed(c, m, p)
  BY <1>2 DEF UnsentNotStored, RowComposed, RowsKeep
<1>3. CASE \E c \in Clients, m \in Messages : RowStored(c, m)
  BY <1>3 DEF RowStored, RowsKeep
<1>4. CASE \E m \in Messages : RowSent(m) \/ RowTouched(m)
  BY <1>4 DEF RowSent, RowTouched, OnlyStatus, RowsKeep
<1> QED BY <1>1, <1>2, <1>3, <1>4 DEF TableStep

LEMMA ParentsStep ==
  ASSUME TypeOK, TypeOK', UnsentNotStored, ParentsFetched, TableStep
  PROVE  ParentsFetched'
<1>1. ASSUME NEW m \in Messages, row'[m].parent # None
      PROVE  Fetched(row[m].parent)'
  <2> DEFINE p == row'[m].parent
  <2>1. p = row[m].parent \/ Fetched(p)
    <3>1. CASE NoRowWritten
      BY <3>1 DEF NoRowWritten
    <3>2. CASE \E c \in Clients, n \in Messages, r \in Messages \cup {None} :
                 RowComposed(c, n, r)
      <4>1. PICK c \in Clients, n \in Messages, r \in Messages \cup {None} :
                 RowComposed(c, n, r)
        BY <3>2
      <4>2. CASE n = m
        BY <1>1, <4>1, <4>2 DEF RowComposed
      <4>3. CASE n # m
        BY <4>1, <4>3 DEF RowComposed, RowsKeep
      <4> QED BY <4>2, <4>3
    <3>3. CASE \E c \in Clients, n \in Messages : RowStored(c, n)
      BY <3>3 DEF RowStored, RowsKeep
    <3>4. CASE \E n \in Messages : RowSent(n) \/ RowTouched(n)
      BY <3>4 DEF RowSent, RowTouched, OnlyStatus, RowsKeep
    <3> QED BY <3>1, <3>2, <3>3, <3>4 DEF TableStep
  <2>2. p \in Messages
    BY <1>1 DEF TypeOK, Row
  <2>3. Fetched(p)
    BY <1>1, <2>1 DEF ParentsFetched
  <2>4. \A n \in Messages : Fetched(n) => Fetched(n)'
    BY FetchedStays
  <2> QED BY <2>2, <2>3, <2>4 DEF Fetched, Readable, Flagged, Encoded
<1> QED BY <1>1 DEF ParentsFetched

LEMMA UnreadableStep ==
  ASSUME TypeOK, Untouched, UnsentNotStored, StatusOfUnreadable, TableStep
  PROVE  StatusOfUnreadable'
<1> USE DEF Readable, Flagged, Encoded
<1>1. CASE NoRowWritten
  BY <1>1 DEF StatusOfUnreadable, NoRowWritten
<1>2. CASE \E c \in Clients, m \in Messages, p \in Messages \cup {None} : RowComposed(c, m, p)
  BY <1>2 DEF StatusOfUnreadable, Untouched, UnsentNotStored, RowComposed, RowsKeep
<1>3. CASE \E c \in Clients, m \in Messages : RowStored(c, m)
  BY <1>3 DEF StatusOfUnreadable, RowStored, RowsKeep
<1>4. CASE \E m \in Messages : RowSent(m) \/ RowTouched(m)
  BY <1>4 DEF StatusOfUnreadable, RowSent, RowTouched, Fetched, OnlyStatus, RowsKeep
<1> QED BY <1>1, <1>2, <1>3, <1>4 DEF TableStep

LEMMA AcceptedStep ==
  ASSUME TypeOK, TypeOK', AcceptedIsSent, TableStep
  PROVE  AcceptedIsSent'
<1> USE DEF Sent, Read
<1>0. \A m \in Messages : row[m].status \in {0, 1, 3, 5}
  BY DEF TypeOK, Row, Status, Pending, Deleted
<1>1. CASE NoRowWritten
  BY <1>1 DEF AcceptedIsSent, NoRowWritten
<1>2. CASE \E c \in Clients, m \in Messages, p \in Messages \cup {None} : RowComposed(c, m, p)
  BY <1>2 DEF AcceptedIsSent, RowComposed, RowsKeep
<1>3. CASE \E c \in Clients, m \in Messages : RowStored(c, m)
  BY <1>3 DEF AcceptedIsSent, RowStored, RowsKeep
<1>4. CASE \E m \in Messages : RowSent(m)
  <2>1. PICK m \in Messages : RowSent(m)
    BY <1>4
  <2>2. row'[m].stored /\ row'[m].status = 1
    BY <2>1 DEF RowSent, OnlyStatus
  <2>3. \A n \in Messages \ {m} : outcome'[n] = outcome[n] /\ row'[n] = row[n]
    BY <2>1 DEF RowSent, OnlyStatus, RowsKeep
  <2> QED BY <2>2, <2>3 DEF AcceptedIsSent
<1>5. CASE \E m \in Messages : RowTouched(m)
  <2>1. PICK m \in Messages : RowTouched(m)
    BY <1>5
  <2>2. row'[m].stored /\ row'[m].status >= 3
    BY <2>1 DEF RowTouched, Fetched, OnlyStatus
  <2>3. row'[m].status \in {0, 1, 3, 5}
    BY DEF TypeOK, Row, Status, Pending, Deleted
  <2>4. outcome' = outcome /\ \A n \in Messages \ {m} : row'[n] = row[n]
    BY <2>1 DEF RowTouched, OnlyStatus, RowsKeep
  <2> QED BY <2>2, <2>3, <2>4 DEF AcceptedIsSent
<1> QED BY <1>1, <1>2, <1>3, <1>4, <1>5 DEF TableStep

\* What ThreadsRooted says of one message.
Rooted(m) ==
  LET p == row[m].parent  t == row[m].thread IN
  /\ IF p = None THEN t = m ELSE row[p].stored /\ row[p].thread = t
  /\ t # m => row[t].stored
  /\ row[t].parent = None /\ row[t].thread = t

LEMMA ThreadsStep ==
  ASSUME TypeOK, TypeOK', UnsentNotStored, ThreadsRooted, TableStep
  PROVE  ThreadsRooted'
<1>1. \A m \in Messages : outcome[m] # "unsent" => Rooted(m)
  BY DEF ThreadsRooted, Rooted
<1>2. \A m \in Messages : row[m].thread \in Messages /\ row[m].parent \in Messages \cup {None}
  BY DEF TypeOK, Row
<1>3. CASE \E c \in Clients, m \in Messages, p \in Messages \cup {None} : RowComposed(c, m, p)
  <2>1. PICK c \in Clients, m \in Messages, p \in Messages \cup {None} : RowComposed(c, m, p)
    BY <1>3
  <2>2. ~row[m].stored /\ RowsKeep(m)
    BY <2>1 DEF RowComposed, UnsentNotStored
  <2>3. Rooted(m)'
    <3>1. CASE p = None
      BY <2>1, <3>1 DEF RowComposed, Rooted
    <3>2. CASE p # None
      <4>1. p \in Messages /\ row[p].stored /\ p # m
        BY <2>1, <2>2, <3>2 DEF RowComposed, Fetched
      <4>2. Rooted(p)
        BY <1>1, <4>1 DEF UnsentNotStored
      <4>3. row[p].thread \in Messages \ {m} /\ row[row[p].thread].stored
        BY <1>2, <2>2, <4>1, <4>2 DEF Rooted
      <4>4. row'[m].parent = p /\ row'[m].thread = row[p].thread
        BY <2>1, <3>2 DEF RowComposed
      <4> QED BY <2>2, <3>2, <4>1, <4>2, <4>3, <4>4 DEF Rooted, RowsKeep
    <3> QED BY <3>1, <3>2
  <2>4. ASSUME NEW n \in Messages, n # m, outcome'[n] # "unsent"
        PROVE  Rooted(n)'
    <3>1. Rooted(n)
      BY <1>1, <2>1, <2>4 DEF RowComposed
    <3>2. row'[n] = row[n]
      BY <2>2, <2>4 DEF RowsKeep
    <3>3. row[n].thread \in Messages \ {m}
      BY <1>2, <2>2, <2>4, <3>1 DEF Rooted
    <3>4. row[n].parent # None => row[n].parent \in Messages \ {m}
      BY <1>2, <2>2, <3>1 DEF Rooted
    <3> QED BY <2>2, <3>1, <3>2, <3>3, <3>4 DEF Rooted, RowsKeep
  <2> QED BY <2>3, <2>4 DEF ThreadsRooted, Rooted
<1>4. CASE ~(\E c \in Clients, m \in Messages, p \in Messages \cup {None} : RowComposed(c, m, p))
  <2>1. \A m \in Messages : /\ row'[m].parent = row[m].parent
                            /\ row'[m].thread = row[m].thread
                            /\ row[m].stored => row'[m].stored
                            /\ outcome'[m] # "unsent" => outcome[m] # "unsent"
    <3>1. CASE NoRowWritten
      BY <3>1 DEF NoRowWritten
    <3>2. CASE \E c \in Clients, m \in Messages : RowStored(c, m)
      BY <3>2 DEF RowStored, RowsKeep
    <3>3. CASE \E m \in Messages : RowSent(m) \/ RowTouched(m)
      BY <3>3 DEF RowSent, RowTouched, OnlyStatus, RowsKeep
    <3> QED BY <1>4, <3>1, <3>2, <3>3 DEF TableStep
  <2>2. ASSUME NEW m \in Messages, outcome'[m] # "unsent"
        PROVE  Rooted(m)'
    <3>1. Rooted(m)
      BY <1>1, <2>1, <2>2
    <3> QED BY <1>2, <2>1, <3>1 DEF Rooted
  <2> QED BY <2>2 DEF ThreadsRooted, Rooted
<1> QED BY <1>3, <1>4

\* A client comes to store a text only past CheckHash, which saw no row with it.
LEMMA ReachStore ==
  ASSUME TypeOK, CallsOK, Next, NEW c \in Clients, call'[c].at = "store"
  PROVE  /\ call'[c].msg = call[c].msg /\ Msg(c) \in Messages
         /\ \/ call[c].at = "store"
            \/ CheckHash(c) /\ ~HashKnown(row[Msg(c)].req.hash)
<1>1. ASSUME NEW d \in Clients, Start(d) \/ Progress(d) \/ DbError(d), ~CheckHash(d)
      PROVE  call'[c] = call[c]
  <2>1. OthersKeep(d) /\ call'[d].at # "store"
    <3>1. CASE Start(d)
      <4>1. ASSUME NEW page, ListLoad(d, page)
            PROVE  OthersKeep(d) /\ call'[d].at # "store"
        BY <4>1 DEF TypeOK, ListLoad, Idle, OthersKeep
      <4>2. ASSUME NEW at \in At \ {"store"}, NEW m \in Messages, Begin(d, at, m)
            PROVE  OthersKeep(d) /\ call'[d].at # "store"
        BY <4>2, BeginEffect DEF TypeOK
      <4>3. (\E page : ListLoad(d, page))
            \/ (\E at \in At \ {"store"}, m \in Messages : Begin(d, at, m))
        BY <3>1 DEF Start, ComposeStart, GetMiss, ReadStart, DeleteStart, At
      <4> QED BY <4>1, <4>2, <4>3
    <3>2. CASE GetLoad(d)
      BY <3>2, ReturnEffect, GetLoadEffect DEF TypeOK, CallsOK, InCall, GetLoad, In
    <3>3. CASE Progress(d) /\ ~GetLoad(d)
      BY <1>1, <3>3, GotoEffect, ReturnEffect
         DEF TypeOK, At, Progress, StoreRow, IndexRow, CacheNew, QueueDelivery, MarkSent,
             GetFill, ListFill, MarkRead, MarkDeleted, Invalidate
    <3>4. CASE DbError(d)
      BY <3>4, ReturnEffect DEF TypeOK, DbError
    <3> QED BY <1>1, <3>1, <3>2, <3>3, <3>4
  <2> QED BY <2>1 DEF OthersKeep
<1>2. ASSUME NEW d \in Clients, CheckHash(d)
      PROVE  \/ call'[c] = call[c]
             \/ /\ c = d /\ ~HashKnown(row[Msg(c)].req.hash)
                /\ call'[c].msg = call[c].msg
  BY <1>2, GotoEffect, ReturnEffect DEF TypeOK, CheckHash, OthersKeep, At
<1>3. ASSUME \/ ProcessDeliveries \/ CleanupCache \/ RebuildIndexes \/ Restart
             \/ \E m \in Messages : GrowOld(m)
      PROVE  call'[c] = call[c]
  BY <1>3 DEF ProcessDeliveries, CleanupCache, RebuildIndexes, Restart, GrowOld, Idle
<1>4. CASE call'[c] = call[c]
  BY <1>4 DEF CallsOK, InCall, Msg
<1>5. CASE CheckHash(c) /\ ~HashKnown(row[Msg(c)].req.hash) /\ call'[c].msg = call[c].msg
  BY <1>5 DEF CheckHash, In, CallsOK, InCall
<1> QED BY <1>1, <1>2, <1>3, <1>4, <1>5 DEF Next

\* Composers and texts of stored rows are fixed, and a row that appears has the text
\* and the composer of its store step.
LEMMA NoOwnCopyStep ==
  ASSUME TypeOK, CallsOK, UnsentNotStored, NoOwnCopy, Next, TableStep
  PROVE  NoOwnCopy'
<1> SUFFICES ASSUME NEW c \in Clients, call'[c].at = "store",
                    NEW n \in Messages, row'[n].stored,
                    row'[n].req.hash = row'[Msg(c)'].req.hash
             PROVE  composer'[n] # c
  BY DEF NoOwnCopy, Stored
<1>1. Msg(c)' = Msg(c) /\ Msg(c) \in Messages
  BY ReachStore DEF Msg
<1>2. /\ ~row[Msg(c)].stored /\ outcome[Msg(c)] = "composing" /\ composer[Msg(c)] = c
  BY ReachStore DEF CallsOK, InCall, ComposeSteps, CheckHash, In
<1>3. row[n].stored /\ row[n].req.hash = row[Msg(c)].req.hash => composer[n] # c
  BY ReachStore DEF NoOwnCopy, HashKnown, Stored
<1>4. CASE NoRowWritten
  BY <1>1, <1>3, <1>4 DEF NoRowWritten
<1>5. CASE \E d \in Clients, m \in Messages, p \in Messages \cup {None} : RowComposed(d, m, p)
  <2>1. PICK d \in Clients, m \in Messages, p \in Messages \cup {None} : RowComposed(d, m, p)
    BY <1>5
  <2>2. m # n /\ m # Msg(c)
    BY <1>2, <2>1 DEF RowComposed, UnsentNotStored
  <2> QED BY <1>1, <1>3, <2>1, <2>2 DEF RowComposed, RowsKeep
<1>6. CASE \E d \in Clients, m \in Messages : RowStored(d, m)
  <2>1. PICK d \in Clients, m \in Messages : RowStored(d, m)
    BY <1>6
  <2>2. CASE n = m
    BY <2>1, <2>2 DEF RowStored
  <2>3. CASE n # m
    BY <1>1, <1>3, <2>1, <2>3 DEF RowStored, RowsKeep
  <2> QED BY <2>2, <2>3
<1>7. CASE \E m \in Messages : RowSent(m) \/ RowTouched(m)
  <2>1. \A m \in Messages : row'[m].stored = row[m].stored /\ row'[m].req = row[m].req
    BY <1>7 DEF RowSent, RowTouched, OnlyStatus, RowsKeep
  <2>2. UNCHANGED composer
    BY <1>7 DEF RowSent, RowTouched
  <2> QED BY <1>1, <1>3, <2>1, <2>2
<1> QED BY <1>4, <1>5, <1>6, <1>7 DEF TableStep

LEMMA DuplicateStep ==
  ASSUME UnsentNotStored, NoOwnCopy, DuplicateNeedsOverlap, TableStep
  PROVE  DuplicateNeedsOverlap'
<1>1. CASE NoRowWritten
  BY <1>1 DEF DuplicateNeedsOverlap, Stored, NoRowWritten
<1>2. CASE \E c \in Clients, m \in Messages, p \in Messages \cup {None} : RowComposed(c, m, p)
  BY <1>2 DEF DuplicateNeedsOverlap, Stored, RowComposed, RowsKeep, UnsentNotStored
<1>3. CASE \E c \in Clients, m \in Messages : RowStored(c, m)
  <2>1. PICK c \in Clients, m \in Messages : RowStored(c, m)
    BY <1>3
  <2>2. \A n \in Stored : row[n].req.hash = row[m].req.hash => composer[n] # composer[m]
    BY <2>1 DEF RowStored, NoOwnCopy
  <2>3. Stored' = Stored \cup {m} /\ m \notin Stored
    BY <2>1 DEF Stored, RowStored, RowsKeep
  <2>4. \A n \in Messages : row'[n].req = row[n].req /\ composer'[n] = composer[n]
    BY <2>1 DEF RowStored, RowsKeep
  <2>5. Stored \subseteq Messages
    BY DEF Stored
  <2> QED BY <2>2, <2>3, <2>4, <2>5 DEF DuplicateNeedsOverlap
<1>4. CASE \E m \in Messages : RowSent(m) \/ RowTouched(m)
  <2>1. \A m \in Messages : row'[m].stored = row[m].stored /\ row'[m].req = row[m].req
    BY <1>4 DEF RowSent, RowTouched, OnlyStatus, RowsKeep
  <2>2. UNCHANGED composer
    BY <1>4 DEF RowSent, RowTouched
  <2> QED BY <2>1, <2>2 DEF DuplicateNeedsOverlap, Stored
<1> QED BY <1>1, <1>2, <1>3, <1>4 DEF TableStep

(***************************************************************************)
(* The theorems.                                                           *)
(***************************************************************************)

LEMMA InitInv == Init => IInv
<1> SUFFICES ASSUME Init PROVE IInv
  OBVIOUS
<1>1. \A m \in Messages : /\ ~row[m].stored /\ ~row[m].read /\ row[m].status = Pending
                          /\ row[m].parent = None /\ outcome[m] = "unsent"
  BY DEF Init
<1>2. \A c \in Clients : call[c].at = "idle"
  BY DEF Init, Idle
<1>3. CallsOK /\ NoOwnCopy
  BY <1>2 DEF CallsOK, InCall, ComposeSteps, AfterStore, NoOwnCopy
<1> QED
  BY <1>1, <1>3, InitTypeOK
     DEF IInv, Untouched, UnsentNotStored, ParentsFetched, StatusOfUnreadable,
         AcceptedIsSent, ThreadsRooted, DuplicateNeedsOverlap, Stored

\* IInv is inductive.
LEMMA StepInv == IInv /\ [Next]_vars => IInv'
<1> SUFFICES ASSUME IInv, [Next]_vars PROVE IInv'
  OBVIOUS
<1>1. CASE Next
  <2>1. TypeOK'
    BY <1>1, TypeStep DEF IInv
  <2>2. CallsOK'
    BY <1>1, <2>1, CallsStep DEF IInv
  <2>3. TableStep
    BY <1>1, TableSteps DEF IInv
  <2>4. Untouched' /\ UnsentNotStored'
    BY <2>3, UntouchedStep, UnsentStep DEF IInv
  <2>5. ParentsFetched' /\ StatusOfUnreadable'
    BY <2>1, <2>3, ParentsStep, UnreadableStep DEF IInv
  <2>6. AcceptedIsSent' /\ ThreadsRooted'
    BY <2>1, <2>3, AcceptedStep, ThreadsStep DEF IInv
  <2>7. NoOwnCopy' /\ DuplicateNeedsOverlap'
    BY <1>1, <2>3, NoOwnCopyStep, DuplicateStep DEF IInv
  <2> QED BY <2>1, <2>2, <2>4, <2>5, <2>6, <2>7 DEF IInv
<1>2. CASE UNCHANGED vars
  BY <1>2
     DEF vars, IInv, TypeOK, CallsOK, InCall, Msg, Untouched, UnsentNotStored,
         ParentsFetched, StatusOfUnreadable, AcceptedIsSent, ThreadsRooted, NoOwnCopy,
         DuplicateNeedsOverlap, Stored, Fetched, Readable, Flagged, Encoded
<1> QED BY <1>1, <1>2

THEOREM Invariance == Spec => []IInv
BY InitInv, StepInv, PTL DEF Spec

\* Every variable keeps its type, for any number of clients, messages and users: the
\* handlers never leave the table, the cache or a call in a malformed state.
THEOREM TypeCorrect == Spec => []TypeOK
<1>1. IInv => TypeOK
  BY DEF IInv
<1> QED BY <1>1, Invariance, PTL

\* A compose_message that returned Ok has its row stored and marked Sent or beyond.
THEOREM Accepted == Spec => []AcceptedIsSent
<1>1. IInv => AcceptedIsSent
  BY DEF IInv
<1> QED BY <1>1, Invariance, PTL

\* compose_message gives a reply the thread of its parent, whatever the depth of the
\* replies, and a thread id always names a stored message that starts the thread.
THEOREM Threads == Spec => []ThreadsRooted
<1>1. IInv => ThreadsRooted
  BY DEF IInv
<1> QED BY <1>1, Invariance, PTL

\* Two stored messages with one hash were composed by overlapping calls: the duplicate
\* check stops a client from storing its own text again.
THEOREM Duplicates == Spec => []DuplicateNeedsOverlap
<1>1. IInv => DuplicateNeedsOverlap
  BY DEF IInv
<1> QED BY <1>1, Invariance, PTL

\* The handlers of messaging/mod.rs leave a stored body that decompression rejects unread,
\* undeleted and unanswered.
THEOREM Unhandled == Spec => []UnreadableUnhandled
<1>1. IInv => UnreadableUnhandled
  BY NoneAssumption
     DEF IInv, StatusOfUnreadable, ParentsFetched, UnreadableUnhandled, Fetched
<1> QED BY <1>1, Invariance, PTL

\* Outside its own compose, no step takes the status of a message backwards.
THEOREM Forward == Spec => StatusForward
<1> DEFINE Step == \A m \in Messages :
                     outcome[m] # "composing" => row'[m].status >= row[m].status
<1>1. IInv /\ [Next]_vars => [Step]_vars
  <2> SUFFICES ASSUME IInv, Next PROVE Step
    OBVIOUS
  <2>1. TableStep
    BY TableSteps DEF IInv
  <2>2. \A m \in Messages : row[m].status \in {0, 1, 3, 5}
    BY DEF IInv, TypeOK, Row, Status, Pending, Sent, Read, Deleted
  <2>3. CASE NoRowWritten
    BY <2>2, <2>3 DEF NoRowWritten
  <2>4. CASE \E c \in Clients, m \in Messages, p \in Messages \cup {None} : RowComposed(c, m, p)
    <3>1. \A m \in Messages : row'[m].status = row[m].status
      BY <2>4 DEF RowComposed, RowsKeep
    <3> QED BY <2>2, <3>1
  <2>5. CASE \E c \in Clients, m \in Messages : RowStored(c, m)
    <3>1. \A m \in Messages : row'[m].status = row[m].status
      BY <2>5 DEF RowStored, RowsKeep
    <3> QED BY <2>2, <3>1
  <2>6. ASSUME NEW m \in Messages, RowSent(m) \/ RowTouched(m)
        PROVE  Step
    BY <2>2, <2>6 DEF RowSent, RowTouched, OnlyStatus, RowsKeep
  <2> QED BY <2>1, <2>3, <2>4, <2>5, <2>6 DEF TableStep
<1> QED BY <1>1, Invariance, PTL DEF Spec, StatusForward

(***************************************************************************)
(* The board that the table shows.                                         *)
(***************************************************************************)

OnBoard(m) ==
  IF row[m].stored
  THEN [status |-> row[m].status, thread |-> row[m].thread,
        body |-> Body(m), standing |-> Standing(m)]
  ELSE [status |-> Pending, thread |-> m, body |-> "plain", standing |-> "none"]
B == [m \in Messages |-> OnBoard(m)]

LEMMA OnBoardIs ==
  ASSUME IInv, NEW m \in Messages
  PROVE  /\ B[m] = OnBoard(m)
         /\ m \in Board!Posted <=> row[m].stored
         /\ B[m].standing = "open" <=> row[m].stored /\ outcome[m] = "composing"
<1>1. row[m].stored => Standing(m) # "none"
  BY DEF IInv, TypeOK, UnsentNotStored, Standing
<1>2. Standing(m) = "open" <=> outcome[m] = "composing"
  BY DEF IInv, TypeOK, Standing
<1>3. B[m] = OnBoard(m)
  BY DEF B
<1>4. B[m].standing = IF row[m].stored THEN Standing(m) ELSE "none"
  BY <1>3 DEF OnBoard
<1>5. m \in Board!Posted <=> B[m].standing # "none"
  BY DEF Board!Posted, B, OnBoard
<1> QED BY <1>1, <1>2, <1>3, <1>4, <1>5

\* Storing a row publishes its message, in a thread that is open to it.
LEMMA StoringPublishes ==
  ASSUME IInv, NEW c \in Clients, NEW m \in Messages, RowStored(c, m)
  PROVE  Board!Publish(m, row[m].thread, Body(m))
<1>1. row[m].thread \in Board!ThreadsFor(m)
  <2>1. CASE row[m].parent = None
    BY <2>1 DEF IInv, ThreadsRooted, RowStored, Board!ThreadsFor
  <2>2. CASE row[m].parent # None
    <3> DEFINE p == row[m].parent
    <3>1. p \in Messages /\ Fetched(p) /\ row[p].thread = row[m].thread
      BY <2>2 DEF IInv, TypeOK, Row, ParentsFetched, ThreadsRooted, RowStored
    <3>2. p \in Board!Posted /\ B[p] = OnBoard(p) /\ row[p].stored /\ Readable(p)
      BY <3>1, OnBoardIs DEF Fetched
    <3>3. B[p].body = "plain" /\ B[p].thread = row[m].thread
      BY <3>1, <3>2 DEF OnBoard, Body
    <3> HIDE DEF p
    <3> QED BY <3>2, <3>3 DEF Board!ThreadsFor, B, OnBoard
  <2> QED BY <2>1, <2>2
<1>2. m \notin Board!Posted
  BY OnBoardIs DEF RowStored
<1>3. B' = [B EXCEPT ![m] = [status |-> Pending, thread |-> row[m].thread,
                             body |-> Body(m), standing |-> "open"]]
  <2>1. OnBoard(m)' = [status |-> Pending, thread |-> row[m].thread,
                       body |-> Body(m), standing |-> "open"]
    BY DEF IInv, Untouched, RowStored, OnBoard, Standing, Body, Readable, Flagged, Encoded
  <2>2. \A n \in Messages \ {m} : OnBoard(n)' = OnBoard(n)
    BY DEF RowStored, RowsKeep, OnBoard, Standing, Body, Readable, Flagged, Encoded
  <2> QED BY <2>1, <2>2 DEF B
<1> QED BY <1>1, <1>2, <1>3 DEF Board!Publish, B, OnBoard, Pending, Board!Pending

\* The update that ends a compose is its acceptance.
LEMMA SendingAccepts ==
  ASSUME IInv, NEW m \in Messages, RowSent(m)
  PROVE  Board!Accept(m)
<1>1. B[m].standing = "open"
  BY OnBoardIs DEF RowSent
<1>2. B' = [B EXCEPT ![m] = [status |-> Sent, thread |-> B[m].thread, body |-> B[m].body,
                             standing |-> "accepted"]]
  <2>1. OnBoard(m)' = [status |-> Sent, thread |-> row[m].thread, body |-> Body(m),
                       standing |-> "accepted"]
    BY DEF RowSent, OnlyStatus, OnBoard, Standing, Body, Readable, Flagged, Encoded
  <2>2. \A n \in Messages \ {m} : OnBoard(n)' = OnBoard(n)
    BY DEF RowSent, OnlyStatus, RowsKeep, OnBoard, Standing, Body, Readable, Flagged, Encoded
  <2>3. B[m].thread = row[m].thread /\ B[m].body = Body(m)
    BY DEF RowSent, B, OnBoard
  <2> QED BY <2>1, <2>2, <2>3 DEF B
<1> QED BY <1>1, <1>2 DEF Board!Accept, B, OnBoard, Sent, Board!Sent

\* Reading and deleting move a message on, or change nothing that the board shows.
LEMMA TouchingMoves ==
  ASSUME IInv, TypeOK', NEW m \in Messages, RowTouched(m)
  PROVE  B' = B \/ \E s \in {Board!Read, Board!Deleted} : Board!MoveOn(m, s)
<1> DEFINE s == row'[m].status
<1>1. row[m].status \in {0, 1, 3, 5} /\ s \in {0, 1, 3, 5}
  BY DEF IInv, TypeOK, Row, Status, Pending, Sent, Read, Deleted
<1>2. s \in {3, 5} /\ s >= row[m].status
  BY <1>1 DEF RowTouched, Read
<1>3. B' = [B EXCEPT ![m].status = s]
  <2>1. OnBoard(m)' = [B[m] EXCEPT !.status = s]
    BY DEF B, RowTouched, Fetched, OnlyStatus, OnBoard, Standing, Body, Readable, Flagged, Encoded
  <2>2. \A n \in Messages \ {m} : OnBoard(n)' = OnBoard(n)
    BY DEF RowTouched, OnlyStatus, RowsKeep, OnBoard, Standing, Body, Readable, Flagged, Encoded
  <2> QED BY <2>1, <2>2 DEF B
<1>4. m \in Board!Posted /\ B[m].body = "plain" /\ B[m].status = row[m].status
  <2>1. row[m].stored /\ Readable(m)
    BY DEF RowTouched, Fetched
  <2>2. B[m] = OnBoard(m) /\ m \in Board!Posted
    BY <2>1, OnBoardIs
  <2>3. OnBoard(m) = [status |-> row[m].status, thread |-> row[m].thread,
                      body |-> "plain", standing |-> Standing(m)]
    BY <2>1 DEF OnBoard, Body
  <2> QED BY <2>2, <2>3
<1>5. CASE s = row[m].status
  <2>1. [B[m] EXCEPT !.status = s] = B[m]
    BY <1>4, <1>5 DEF B, OnBoard
  <2> QED BY <1>3, <2>1 DEF B
<1>6. CASE s > row[m].status
  <2>1. Board!MoveOn(m, s)
    BY <1>3, <1>4, <1>6 DEF Board!MoveOn, B, OnBoard
  <2>2. s \in {Board!Read, Board!Deleted}
    BY <1>2 DEF Board!Read, Board!Deleted
  <2> QED BY <2>1, <2>2 DEF Board!MoveOn
<1> QED BY <1>1, <1>2, <1>5, <1>6

\* A call that ends otherwise, and a restart, abandon the messages that are posted by then.
LEMMA EndingAbandons ==
  ASSUME IInv, NoRowWritten
  PROVE  \E S \in SUBSET Messages : Board!Abandon(S)
<1> DEFINE S == {m \in Messages : row[m].stored /\ outcome'[m] # outcome[m]}
<1>1. \A m \in S : row[m].stored /\ outcome[m] = "composing" /\ outcome'[m] = "failed"
  BY DEF NoRowWritten
<1>2. \A m \in S : B[m].standing = "open"
  BY <1>1, OnBoardIs
<1>3. B' = [m \in Messages |-> IF m \in S THEN [B[m] EXCEPT !.standing = "failed"] ELSE B[m]]
  <2>1. ASSUME NEW m \in S PROVE OnBoard(m)' = [B[m] EXCEPT !.standing = "failed"]
    BY <1>1 DEF B, NoRowWritten, OnBoard, Standing, Body, Readable, Flagged, Encoded
  <2>2. ASSUME NEW m \in Messages \ S PROVE OnBoard(m)' = B[m]
    BY DEF B, NoRowWritten, OnBoard, Standing, Body, Readable, Flagged, Encoded
  <2> QED BY <2>1, <2>2 DEF B
<1> HIDE DEF S
<1>4. S \subseteq Messages
  BY DEF S
<1> QED BY <1>2, <1>3, <1>4 DEF Board!Abandon, B, OnBoard

\* Every step of the message system is one of the board's, or shows nothing on it.
LEMMA StepOnBoard == IInv /\ IInv' /\ [Next]_vars => [Board!BoardNext]_B
<1> SUFFICES ASSUME IInv, IInv', [Next]_vars PROVE Board!BoardNext \/ B' = B
  BY DEF B, OnBoard
<1>1. CASE UNCHANGED vars
  BY <1>1 DEF vars, B, OnBoard, Standing, Body, Readable, Flagged, Encoded
<1>2. CASE Next
  <2>1. TableStep
    BY <1>2, TableSteps DEF IInv
  <2>2. CASE NoRowWritten
    BY <2>2, EndingAbandons DEF Board!BoardNext
  <2>3. ASSUME NEW c \in Clients, NEW m \in Messages, NEW p \in Messages \cup {None},
               RowComposed(c, m, p)
        PROVE  B' = B
    <3>1. ~row[m].stored /\ ~row'[m].stored
      BY <2>3 DEF IInv, UnsentNotStored, RowComposed
    <3>2. \A n \in Messages \ {m} : OnBoard(n)' = OnBoard(n)
      BY <2>3 DEF RowComposed, RowsKeep, OnBoard, Standing, Body, Readable, Flagged, Encoded
    <3> QED BY <3>1, <3>2 DEF B, OnBoard
  <2>4. ASSUME NEW c \in Clients, NEW m \in Messages, RowStored(c, m)
        PROVE  Board!BoardNext
    <3>1. row[m].thread \in Messages /\ Body(m) \in {"plain", "sealed"}
      BY DEF IInv, TypeOK, Row, Body
    <3>2. Board!Publish(m, row[m].thread, Body(m))
      BY <2>4, StoringPublishes
    <3> QED BY <3>1, <3>2 DEF Board!BoardNext, Board!Publish
  <2>5. ASSUME NEW m \in Messages, RowSent(m)
        PROVE  Board!BoardNext
    BY <2>5, SendingAccepts DEF Board!BoardNext
  <2>6. ASSUME NEW m \in Messages, RowTouched(m)
        PROVE  Board!BoardNext \/ B' = B
    BY <2>6, TouchingMoves DEF IInv, Board!BoardNext
  <2> QED BY <2>1, <2>2, <2>3, <2>4, <2>5, <2>6 DEF TableStep
<1> QED BY <1>1, <1>2

\* The message system implements MessageBoard.
THEOREM Implements == Spec => Promise
<1>1. Init => Board!BoardInit
  BY DEF Init, Board!BoardInit, Board!Blank, Pending, Board!Pending
<1>2. IInv /\ IInv' /\ [Next]_vars => [Board!BoardNext]_B
  BY StepOnBoard
<1> QED BY <1>1, <1>2, Invariance, PTL DEF Spec, Promise, Board!BoardSpec, B, OnBoard
=============================================================================
