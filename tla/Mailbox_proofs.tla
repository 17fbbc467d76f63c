---------------------------- MODULE Mailbox_proofs ----------------------------
(***************************************************************************)
(* Threads and unread counts, for any number of messages, users and        *)
(* handlers.                                                               *)
(***************************************************************************)
EXTENDS Mailbox, FiniteSetTheorems, TLAPS

\* A row was written once, and a message that is about to be stored is not there yet and
\* in one handler's hands.
Storing(d) == DeskAt(d, "insert")
Dated   == \A m \in Written : written[m] < Cardinality(Written)
OneEach == \A d \in Desks : Storing(d) =>
             /\ desk[d].mail \in Written \ InTable
             /\ \A e \in Desks : Storing(e) /\ desk[e].mail = desk[d].mail => e = d

\* The parent of a message on its way was in the table: if it goes, it does not come back.
Replying(d) ==
  LET m == desk[d].mail
      p == desk[d].parent
  IN IF p = NoMail THEN desk[d].thread = m
     ELSE /\ p \in Written /\ written[p] < written[m]
          /\ \A e \in Desks : Storing(e) => desk[e].mail # p
          /\ p \in InTable => mail[p].thread = desk[d].thread

\* What a handler that loads a count holds is right unless it is outdated.
Indexing(u) == {d \in Desks : DeskAt(d, "index") /\ Recipient[desk[d].mail] = u}
Loaded(d) ==
  DeskAt(d, "count") /\ ~desk[d].outdated => /\ desk[d].count = Unread(desk[d].user)
                                             /\ Indexing(desk[d].user) = {}

ThreadInv == /\ InTable \subseteq Written
             /\ Dated /\ OneEach /\ ThreadsHeld
             /\ \A d \in Desks : Storing(d) => Replying(d)
CountInv  == CountsRight /\ \A d \in Desks : Loaded(d)
MailInv   == MailboxTypeOK /\ ThreadInv /\ CountInv

(***************************************************************************)
(* Handlers.                                                               *)
(***************************************************************************)

LEMMA NoDeskTyped == NoDesk \in Desk /\ NoDesk.at = "idle"
<1>1. (CHOOSE m \in Mails : TRUE) \in Mails
  BY MailAssumption
<1>2. (CHOOSE u \in Inboxes : TRUE) \in Inboxes
  BY MailAssumption
<1> HIDE DEF Desk
<1> QED BY <1>1, <1>2 DEF NoDesk, Desk

LEMMA OutdatedTyped ==
  ASSUME MailboxTypeOK, NEW users
  PROVE  /\ Outdated(users) \in [Desks -> Desk]
         /\ \A d \in Desks :
              /\ Outdated(users)[d].at = desk[d].at
              /\ Outdated(users)[d].mail = desk[d].mail
              /\ Outdated(users)[d].parent = desk[d].parent
              /\ Outdated(users)[d].thread = desk[d].thread
              /\ Outdated(users)[d].user = desk[d].user
              /\ Outdated(users)[d].count = desk[d].count
              /\ DeskAt(d, "count") /\ ~Outdated(users)[d].outdated =>
                   ~desk[d].outdated /\ desk[d].user \notin users
<1>1. ASSUME NEW d \in Desks
      PROVE  /\ [desk[d] EXCEPT !.outdated = TRUE] \in Desk
             /\ [desk[d] EXCEPT !.outdated = TRUE].at = desk[d].at
             /\ [desk[d] EXCEPT !.outdated = TRUE].mail = desk[d].mail
             /\ [desk[d] EXCEPT !.outdated = TRUE].parent = desk[d].parent
             /\ [desk[d] EXCEPT !.outdated = TRUE].thread = desk[d].thread
             /\ [desk[d] EXCEPT !.outdated = TRUE].user = desk[d].user
             /\ [desk[d] EXCEPT !.outdated = TRUE].count = desk[d].count
             /\ [desk[d] EXCEPT !.outdated = TRUE].outdated
  <2>1. desk[d] \in Desk
    BY DEF MailboxTypeOK
  <2> QED BY <2>1 DEF Desk
<1>2. desk \in [Desks -> Desk]
  BY DEF MailboxTypeOK
<1> QED BY <1>1, <1>2 DEF Outdated

\* Rows.
LEMMA MailFields ==
  ASSUME MailboxTypeOK, NEW m \in Mails
  PROVE  /\ m \in InTable => mail[m] \in MailRow
         /\ \A r \in MailRow : /\ r # NoMail
                               /\ ReadRow(r) \in MailRow
                               /\ ReadRow(r).parent = r.parent /\ ReadRow(r).thread = r.thread
                               /\ \A status \in {"Sent", "Deleted"} :
                                    /\ [r EXCEPT !.status = status] \in MailRow
                                    /\ [r EXCEPT !.status = status].parent = r.parent
                                    /\ [r EXCEPT !.status = status].thread = r.thread
                                    /\ [r EXCEPT !.status = status].read = r.read
                                    /\ [r EXCEPT !.status = status].status = status
                               /\ ReadRow(r).read
<1>1. \A r \in MailRow : r # NoMail
  BY MailAssumption
<1>2. m \in InTable => mail[m] \in MailRow
  BY DEF InTable, MailboxTypeOK
<1>3. ASSUME NEW r \in MailRow
      PROVE  /\ ReadRow(r) \in MailRow
             /\ ReadRow(r).parent = r.parent /\ ReadRow(r).thread = r.thread
             /\ ReadRow(r).read
             /\ \A status \in {"Sent", "Deleted"} :
                  /\ [r EXCEPT !.status = status] \in MailRow
                  /\ [r EXCEPT !.status = status].parent = r.parent
                  /\ [r EXCEPT !.status = status].thread = r.thread
                  /\ [r EXCEPT !.status = status].read = r.read
                  /\ [r EXCEPT !.status = status].status = status
  BY DEF ReadRow, MailRow
<1> QED BY <1>1, <1>2, <1>3

LEMMA Sizes ==
  ASSUME MailboxTypeOK
  PROVE  /\ IsFiniteSet(Written) /\ Cardinality(Written) \in Nat
         /\ \A u : IsFiniteSet(Indexing(u)) /\ Cardinality(Indexing(u)) \in Nat
         /\ \A u : Unread(u) \in Nat /\ Arriving(u) = Cardinality(Indexing(u))
<1>1. \A S \in SUBSET Mails : IsFiniteSet(S) /\ Cardinality(S) \in Nat
  BY MailAssumption, FS_Subset, FS_CardinalityType
<1>2. \A S \in SUBSET Desks : IsFiniteSet(S) /\ Cardinality(S) \in Nat
  BY MailAssumption, FS_Subset, FS_CardinalityType
<1>3. Written \in SUBSET Mails
  BY DEF Written
<1>4. \A u : Indexing(u) \in SUBSET Desks
  BY DEF Indexing
<1>5. \A u : {m \in Mails : Recipient[m] = u /\ Unseen(m)} \in SUBSET Mails
  OBVIOUS
<1> QED BY <1>1, <1>2, <1>3, <1>4, <1>5 DEF Unread, Arriving, Indexing

(***************************************************************************)
(* Types.                                                                  *)
(***************************************************************************)

Rows   == mail' \in [Mails -> MailRow \cup {NoMail}]
Works  == desk' \in [Desks -> Desk]
Counts == unread' \in [Inboxes -> Nat \cup {NoCount}] /\ amiss' \subseteq Inboxes

LEMMA Changing ==
  ASSUME MailboxTypeOK, NEW users \in SUBSET Inboxes, NEW d \in Desks, NEW next \in Desk,
         Change(users, d, next) \/ ChangeAt(users), UNCHANGED unread
  PROVE  Works /\ Counts
<1>1. Outdated(users) \in [Desks -> Desk]
  BY OutdatedTyped
<1> QED BY <1>1 DEF Change, ChangeAt, Works, Counts, MailboxTypeOK

LEMMA Leaving ==
  ASSUME MailboxTypeOK, NEW d \in Desks, Leave(d)
  PROVE  Works
BY NoDeskTyped DEF Leave, Works, MailboxTypeOK

LEMMA SendTyped ==
  ASSUME MailboxTypeOK, NEW d \in Desks, NEW m \in Mails, NEW p \in Mails \cup {NoMail},
         NEW via \in {"storage", "direct"}, SendMail(d, m, p, via)
  PROVE  /\ MailboxTypeOK'
         /\ desk'[d].at = "insert" /\ desk'[d].mail = m /\ desk'[d].parent = p
         /\ desk'[d].thread = IF p = NoMail THEN m ELSE mail[p].thread
         /\ \A e \in Desks : e # d => desk'[e] = desk[e]
<1> DEFINE thread == IF p = NoMail THEN m ELSE mail[p].thread
           next == [NoDesk EXCEPT !.at = "insert", !.via = via, !.mail = m, !.parent = p,
                                  !.thread = thread]
<1>1. thread \in Mails
  <2>1. p # NoMail => p \in InTable /\ p \in Mails
    BY DEF SendMail
  <2>2. p \in InTable => mail[p].thread \in Mails
    BY <2>1, MailFields DEF MailRow, InTable
  <2> QED BY <2>1, <2>2
<1> HIDE DEF thread
<1>2. /\ next \in Desk /\ next.at = "insert" /\ next.mail = m /\ next.parent = p
      /\ next.thread = thread
  BY <1>1, NoDeskTyped DEF Desk
<1>3. desk' = [desk EXCEPT ![d] = next] /\ desk \in [Desks -> Desk]
  BY DEF SendMail, MailboxTypeOK, thread
<1> HIDE DEF next
<1>4. Works /\ desk'[d] = next /\ \A e \in Desks : e # d => desk'[e] = desk[e]
  BY <1>2, <1>3 DEF Works
<1>5. written' \in [Mails -> Nat \cup {NoCount}]
  BY Sizes DEF SendMail, MailboxTypeOK
<1>6. UNCHANGED <<mail, unread, amiss>>
  BY DEF SendMail
<1> QED BY <1>2, <1>4, <1>5, <1>6 DEF MailboxTypeOK, Works, thread

LEMMA MailInsertTyped ==
  ASSUME MailboxTypeOK, NEW d \in Desks, InsertMail(d)
  PROVE  MailboxTypeOK'
<1> DEFINE m == desk[d].mail
           u == Recipient[m]
           row == [status |-> "Sent", read |-> FALSE, parent |-> desk[d].parent,
                   thread |-> desk[d].thread]
<1>1. desk[d] \in Desk /\ u \in Inboxes
  BY MailAssumption DEF MailboxTypeOK, Desk
<1>2. row \in MailRow
  BY <1>1 DEF Desk, MailRow
<1>3. UNCHANGED <<unread, written>>
  BY DEF InsertMail
<1> HIDE DEF row
<1>4. Rows
  <2>1. mail' = mail \/ mail' = [mail EXCEPT ![m] = row]
    BY DEF InsertMail, row
  <2> QED BY <1>2, <2>1 DEF Rows, MailboxTypeOK
<1>5. Works /\ Counts
  <2>1. CASE Leave(d) /\ UNCHANGED amiss
    BY <1>3, <2>1, Leaving DEF Counts, MailboxTypeOK
  <2>2. CASE Change({u}, d, NoDesk)
    BY <1>1, <1>3, <2>2, NoDeskTyped, Changing
  <2>3. CASE desk' = [Outdated({u}) EXCEPT ![d] = [desk[d] EXCEPT !.at = "index"]] /\ UNCHANGED amiss
    <3>1. [desk[d] EXCEPT !.at = "index"] \in Desk
      BY <1>1 DEF Desk
    <3> QED BY <1>3, <2>3, <3>1, OutdatedTyped DEF Works, Counts, MailboxTypeOK
  <2> QED BY <2>1, <2>2, <2>3 DEF InsertMail
<1> QED BY <1>3, <1>4, <1>5 DEF MailboxTypeOK, Rows, Works, Counts

LEMMA IndexTyped ==
  ASSUME MailboxTypeOK, NEW d \in Desks, IndexMail(d) \/ CountStore(d) \/ MailDbError(d)
  PROVE  MailboxTypeOK'
<1>1. desk[d] \in Desk /\ Recipient[desk[d].mail] \in Inboxes
  BY MailAssumption DEF MailboxTypeOK, Desk
<1>2. UNCHANGED <<mail, written>>
  BY DEF IndexMail, CountStore, MailDbError
<1>3. CASE IndexMail(d)
  <2> DEFINE u == Recipient[desk[d].mail]
  <2>1. Works
    <3>1. [desk[d] EXCEPT !.at = "sent"] \in Desk
      BY <1>1 DEF Desk
    <3> QED BY <1>3, <3>1, OutdatedTyped DEF IndexMail, Works
  <2>2. Counts
    <3>1. \A v \in Inboxes : unread[v] \in Nat \cup {NoCount}
      BY DEF MailboxTypeOK
    <3>2. unread' = [unread EXCEPT ![u] = IF @ = NoCount THEN 1 ELSE @ + 1]
      BY <1>3 DEF IndexMail
    <3>3. amiss' = amiss \/ amiss' = amiss \cup {u}
      BY <1>3 DEF IndexMail
    <3>5. u \in Inboxes
      BY <1>1
    <3> HIDE DEF u
    <3>4. unread' \in [Inboxes -> Nat \cup {NoCount}]
      <4>1. (IF unread[u] = NoCount THEN 1 ELSE unread[u] + 1) \in Nat
        BY <3>1, <3>5
      <4> QED BY <3>2, <4>1 DEF MailboxTypeOK
    <3> QED BY <3>3, <3>4, <3>5 DEF Counts, MailboxTypeOK
  <2> QED BY <1>2, <2>1, <2>2 DEF MailboxTypeOK, Works, Counts
<1>4. CASE CountStore(d)
  <2>1. Works
    BY <1>4, Leaving DEF CountStore
  <2>2. Counts
    BY <1>1, <1>4 DEF CountStore, Counts, MailboxTypeOK, Desk
  <2> QED BY <1>2, <2>1, <2>2 DEF MailboxTypeOK, Works, Counts
<1>5. CASE MailDbError(d)
  BY <1>2, <1>5, Leaving DEF MailDbError, MailboxTypeOK, Works
<1> QED BY <1>3, <1>4, <1>5

LEMMA LoadTyped ==
  ASSUME MailboxTypeOK, NEW d \in Desks, NEW u \in Inboxes, CountLoad(d, u)
  PROVE  /\ MailboxTypeOK'
         /\ desk'[d].at = "count" /\ desk'[d].user = u /\ desk'[d].count = Unread(u)
         /\ ~desk'[d].outdated => Indexing(u) = {}
         /\ \A e \in Desks : e # d => desk'[e] = desk[e]
<1> DEFINE late == \E e \in Desks : DeskAt(e, "index") /\ Recipient[desk[e].mail] = u
           n == Unread(u)
           next == [NoDesk EXCEPT !.at = "count", !.user = u, !.count = n, !.outdated = late]
<1>1. n \in Nat /\ late \in BOOLEAN /\ (~late => Indexing(u) = {})
  BY Sizes DEF Indexing
<1>2. desk' = [desk EXCEPT ![d] = next] /\ UNCHANGED <<mail, unread, written, amiss>>
  BY DEF CountLoad, CountUnread
<1> HIDE DEF late, n
<1>3. /\ next \in Desk /\ next.at = "count" /\ next.user = u /\ next.count = n
      /\ next.outdated = late
  BY <1>1, NoDeskTyped DEF Desk
<1> HIDE DEF next
<1>4. /\ desk' \in [Desks -> Desk] /\ desk'[d] = next
      /\ \A e \in Desks : e # d => desk'[e] = desk[e]
  BY <1>2, <1>3 DEF MailboxTypeOK
<1> QED BY <1>1, <1>2, <1>3, <1>4 DEF MailboxTypeOK, n

LEMMA ChangesTyped ==
  ASSUME MailboxTypeOK, NEW users \in SUBSET Inboxes,
         ChangeAt(users) \/ \E d \in Desks, next \in Desk : Change(users, d, next),
         UNCHANGED <<unread, written>>, Rows
  PROVE  MailboxTypeOK'
<1>1. Outdated(users) \in [Desks -> Desk]
  BY OutdatedTyped
<1>2. Works /\ Counts
  BY <1>1 DEF Change, ChangeAt, Works, Counts, MailboxTypeOK
<1> QED BY <1>2 DEF MailboxTypeOK, Rows, Works, Counts

LEMMA WhoseTyped ==
  ASSUME NEW mails \in SUBSET Mails
  PROVE  Whose(mails) \in SUBSET Inboxes
BY MailAssumption DEF Whose

LEMMA SentTyped ==
  ASSUME MailboxTypeOK, NEW d \in Desks, MarkSent(d)
  PROVE  MailboxTypeOK'
<1>1. PICK m \in Mails : m = desk[d].mail
  BY DEF MailboxTypeOK, Desk
<1>2. PICK of \in SUBSET Inboxes : of = Whose(Revived(m))
  <2>1. Revived(m) \in SUBSET Mails
    BY DEF Revived
  <2> QED BY <2>1, WhoseTyped
<1>3. /\ mail' = IF m \in InTable THEN [mail EXCEPT ![m].status = "Sent"] ELSE mail
      /\ Change(of, d, NoDesk) /\ UNCHANGED <<unread, written>>
  BY <1>1, <1>2 DEF MarkSent
<1>4. Rows
  <2>1. m \in InTable => [mail[m] EXCEPT !.status = "Sent"] \in MailRow
    BY MailFields
  <2> QED BY <1>3, <2>1 DEF Rows, MailboxTypeOK
<1> QED BY <1>3, <1>4, NoDeskTyped, ChangesTyped

LEMMA ReadTyped ==
  ASSUME MailboxTypeOK, NEW m \in Mails, ReadOne(m) \/ DeleteMail(m)
  PROVE  MailboxTypeOK'
<1>1. m \in InTable /\ mail[m] \in MailRow
  BY MailFields DEF ReadOne, DeleteMail
<1>2. PICK row \in MailRow : mail' = [mail EXCEPT ![m] = row]
  BY <1>1, MailFields DEF ReadOne, DeleteMail
<1>3. Rows
  BY <1>2 DEF Rows, MailboxTypeOK
<1>4. PICK of \in SUBSET Inboxes : of = Whose(Counting({m}))
  BY WhoseTyped DEF Counting
<1>5. ChangeAt(of) /\ UNCHANGED <<unread, written>>
  BY <1>4 DEF ReadOne, DeleteMail
<1> QED BY <1>3, <1>5, ChangesTyped

LEMMA ReadAllTyped ==
  ASSUME MailboxTypeOK, NEW u \in Inboxes, NEW from, ReadConversation(u, from)
  PROVE  MailboxTypeOK'
<1> DEFINE new == {m \in InTable : Recipient[m] = u /\ Sender[m] = from /\ ~mail[m].read}
<1>1. Rows
  BY MailFields DEF ReadConversation, Rows, MailboxTypeOK
<1>2. PICK of \in SUBSET Inboxes : of = Whose(Counting(new))
  BY WhoseTyped DEF Counting, InTable
<1>3. ChangeAt(of) /\ UNCHANGED <<unread, written>>
  BY <1>2 DEF ReadConversation
<1> QED BY <1>1, <1>3, ChangesTyped

LEMMA ArchiveTyped ==
  ASSUME MailboxTypeOK, NEW d \in Desks, NEW k, ArchiveMail(d, k)
  PROVE  MailboxTypeOK'
<1> DEFINE next == [NoDesk EXCEPT !.at = "clear"]
<1>1. Rows
  BY DEF ArchiveMail, Rows, MailboxTypeOK
<1>2. PICK of \in SUBSET Inboxes : of = Whose(Counting(Old(k)))
  BY WhoseTyped DEF Counting, Old, InTable
<1>3. Change(of, d, next) /\ UNCHANGED <<unread, written>>
  BY <1>2 DEF ArchiveMail
<1>4. next \in Desk
  BY NoDeskTyped DEF Desk
<1> HIDE DEF next
<1> QED BY <1>1, <1>3, <1>4, ChangesTyped

LEMMA ClearTyped ==
  ASSUME MailboxTypeOK, RebuildMail \/ RestartMail \/ \E d \in Desks : RebuildAfter(d)
  PROVE  MailboxTypeOK'
<1>1. Counts
  BY DEF RebuildMail, RestartMail, RebuildAfter, ClearCounts, NoCounts, Counts
<1>2. Works
  BY NoDeskTyped, Leaving DEF RebuildMail, RestartMail, RebuildAfter, Works, MailboxTypeOK
<1>3. UNCHANGED <<mail, written>>
  BY DEF RebuildMail, RestartMail, RebuildAfter
<1> QED BY <1>1, <1>2, <1>3 DEF MailboxTypeOK, Counts, Works

(***************************************************************************)
(* Threads.                                                                *)
(***************************************************************************)

\* A handler that goes on to store what it was to store, or does something else.
Onward(d) == Storing(d)' => /\ Storing(d)
                            /\ desk'[d].mail = desk[d].mail
                            /\ desk'[d].parent = desk[d].parent
                            /\ desk'[d].thread = desk[d].thread

\* Rows that go leave no reply behind.
LEMMA ThreadsKeep ==
  ASSUME MailboxTypeOK, ThreadInv, UNCHANGED written, NEW gone,
         \A m \in Mails : m \in InTable' <=> m \in InTable \ gone,
         \A m \in InTable \ gone : /\ mail'[m].parent = mail[m].parent
                                   /\ mail'[m].thread = mail[m].thread
                                   /\ mail[m].parent \notin gone,
         \A d \in Desks : Onward(d)
  PROVE  ThreadInv'
<1>1. InTable \subseteq Mails /\ InTable' = InTable \ gone
  BY DEF InTable
<1>2. Written' = Written /\ Dated'
  BY DEF Written, Dated, ThreadInv
<1>3. (InTable \subseteq Written)'
  BY <1>1, <1>2 DEF ThreadInv
<1>4. OneEach'
  BY <1>1, <1>2 DEF ThreadInv, OneEach, Onward
<1>5. ThreadsHeld'
  BY <1>1 DEF ThreadInv, ThreadsHeld
<1>6. ASSUME NEW d \in Desks, Storing(d)'
      PROVE  Replying(d)'
  <2>1. Storing(d) /\ Replying(d)
    BY <1>6 DEF ThreadInv, Onward
  <2> QED BY <1>1, <1>2, <1>6, <2>1 DEF Replying, Onward
<1> QED BY <1>2, <1>3, <1>4, <1>5, <1>6 DEF ThreadInv

\* The rows of a step that changes none, or only what was read or deleted.
Marked == \A m \in Mails : IF m \in InTable
                           THEN /\ mail'[m] # NoMail
                                /\ mail'[m].parent = mail[m].parent
                                /\ mail'[m].thread = mail[m].thread
                           ELSE mail'[m] = mail[m]

LEMMA RowsKept ==
  ASSUME MailboxTypeOK, ThreadInv, UNCHANGED written, \A d \in Desks : Onward(d), Marked
  PROVE  ThreadInv'
<1>1. \A m \in InTable : /\ mail'[m].parent = mail[m].parent
                         /\ mail'[m].thread = mail[m].thread
  BY DEF InTable, Marked
<1>2. \A m \in Mails : m \in InTable' <=> m \in InTable \ {}
  BY DEF InTable, Marked
<1> QED BY <1>1, <1>2, ThreadsKeep

LEMMA SendThreads ==
  ASSUME MailboxTypeOK, ThreadInv, NEW d \in Desks, NEW m \in Mails,
         NEW p \in Mails \cup {NoMail}, NEW via \in {"storage", "direct"}, SendMail(d, m, p, via)
  PROVE  ThreadInv'
<1> DEFINE n == Cardinality(Written)
<1>1. /\ m \notin Written /\ (p # NoMail => p \in InTable) /\ ~Storing(d)
      /\ written' = [written EXCEPT ![m] = n] /\ mail' = mail
  BY DEF SendMail, Storing, DeskAt
<1>2. /\ Storing(d)' /\ desk'[d].mail = m /\ desk'[d].parent = p
      /\ desk'[d].thread = IF p = NoMail THEN m ELSE mail[p].thread
      /\ \A e \in Desks : e # d => desk'[e] = desk[e]
  BY SendTyped DEF Storing, DeskAt
<1>3. n \in Nat /\ n # NoCount
  BY Sizes, CountAssumption
<1>4. InTable' = InTable /\ InTable \subseteq Written /\ m \notin InTable
  BY <1>1 DEF InTable, ThreadInv
<1>5. /\ written'[m] = n
      /\ \A q \in Written : q \in Mails /\ q # m /\ written'[q] = written[q]
  BY <1>1 DEF MailboxTypeOK, Written
<1>6. Written' = Written \cup {m} /\ Cardinality(Written') = n + 1
  <2>1. Written' = Written \cup {m}
    <3> HIDE DEF n
    <3>1. \A q \in Mails : q # m => written'[q] = written[q]
      BY <1>1 DEF MailboxTypeOK
    <3> QED BY <1>3, <1>5, <3>1 DEF Written
  <2> QED BY <1>1, <2>1, Sizes, FS_AddElement
<1>7. \A q \in Written : written[q] < n /\ written[q] \in Nat
  BY DEF ThreadInv, Dated, Written, MailboxTypeOK
<1> HIDE DEF n
<1>8. Dated'
  BY <1>3, <1>5, <1>6, <1>7 DEF Dated
<1>9. \A e \in Desks : e # d => /\ Storing(e)' <=> Storing(e)
                                /\ Storing(e) => desk[e].mail \in Written \ InTable
  BY <1>2 DEF Storing, DeskAt, ThreadInv, OneEach
<1>10. OneEach'
  BY <1>1, <1>2, <1>4, <1>6, <1>9 DEF OneEach, ThreadInv
<1>11. ThreadsHeld'
  <2>1. \A q \in InTable : written'[q] = written[q]
    BY <1>4, <1>5
  <2> QED BY <1>1, <1>4, <2>1 DEF ThreadInv, ThreadsHeld
<1>12. Replying(d)'
  <2>1. CASE p = NoMail
    BY <1>2, <2>1 DEF Replying
  <2>2. CASE p # NoMail
    <3>1. p \in InTable /\ p \in Written /\ p # m
      BY <1>1, <1>4, <2>2
    <3>2. written'[p] < written'[m]
      BY <1>5, <1>7, <3>1
    <3>3. \A e \in Desks : Storing(e)' => desk'[e].mail # p
      BY <1>2, <1>9, <3>1
    <3> QED BY <1>1, <1>2, <1>6, <2>2, <3>1, <3>2, <3>3 DEF Replying
  <2> QED BY <2>1, <2>2
<1>13. ASSUME NEW e \in Desks, e # d, Storing(e)'
       PROVE  Replying(e)'
  <2>1. Replying(e) /\ desk'[e] = desk[e] /\ desk[e].mail \in Written
    BY <1>2, <1>9, <1>13 DEF ThreadInv
  <2>2. CASE desk[e].parent = NoMail
    BY <2>1, <2>2 DEF Replying
  <2>3. CASE desk[e].parent # NoMail
    <3> DEFINE q == desk[e].parent
    <3>1. /\ q \in Written /\ written[q] < written[desk[e].mail]
          /\ \A f \in Desks : Storing(f) => desk[f].mail # q
          /\ q \in InTable => mail[q].thread = desk[e].thread
      BY <2>1, <2>3 DEF Replying
    <3>2. \A f \in Desks : Storing(f)' => desk'[f].mail # q
      BY <1>1, <1>2, <1>9, <3>1
    <3>3. written'[q] < written'[desk[e].mail]
      BY <1>5, <2>1, <3>1
    <3> QED BY <1>1, <1>4, <1>6, <2>1, <2>3, <3>1, <3>2, <3>3 DEF Replying
  <2> QED BY <2>2, <2>3
<1> QED BY <1>4, <1>6, <1>8, <1>10, <1>11, <1>12, <1>13 DEF ThreadInv

\* InsertMail stores the row, or does nothing more.
LEMMA InsertMoves ==
  ASSUME MailboxTypeOK, NEW d \in Desks, InsertMail(d)
  PROVE  /\ Storing(d) /\ ~Storing(d)'
         /\ \A e \in Desks : e # d => /\ desk'[e].at = desk[e].at
                                      /\ desk'[e].mail = desk[e].mail
                                      /\ desk'[e].parent = desk[e].parent
                                      /\ desk'[e].thread = desk[e].thread
         /\ UNCHANGED <<unread, written>>
<1>1. desk \in [Desks -> Desk] /\ NoDesk.at = "idle"
  BY NoDeskTyped DEF MailboxTypeOK
<1>2. PICK users, next : /\ desk' = [desk EXCEPT ![d] = next]
                            \/ desk' = [Outdated(users) EXCEPT ![d] = next]
                         /\ next.at # "insert"
  <2>1. [desk[d] EXCEPT !.at = "index"].at = "index"
    BY <1>1 DEF Desk
  <2> HIDE DEF NoDesk
  <2> QED BY <1>1, <2>1 DEF InsertMail, Leave, Change
<1>3. DeskAt(d, "insert") /\ UNCHANGED <<unread, written>>
  BY DEF InsertMail
<1>4. desk'[d] = next
  BY <1>1, <1>2, OutdatedTyped
<1>5. \A e \in Desks : e # d => desk'[e] = desk[e] \/ desk'[e] = Outdated(users)[e]
  BY <1>1, <1>2, OutdatedTyped
<1> QED BY <1>2, <1>3, <1>4, <1>5, OutdatedTyped DEF Storing, DeskAt

LEMMA InsertThreads ==
  ASSUME MailboxTypeOK, ThreadInv, NEW d \in Desks, InsertMail(d)
  PROVE  ThreadInv'
<1> DEFINE m == desk[d].mail
           p == desk[d].parent
           row == [status |-> "Sent", read |-> FALSE, parent |-> p, thread |-> desk[d].thread]
<1>1. Storing(d) /\ m \in Mails /\ row \in MailRow /\ m \in Written \ InTable /\ Replying(d)
  <2>1. desk[d] \in Desk /\ Storing(d)
    BY InsertMoves DEF MailboxTypeOK
  <2>2. m \in Mails /\ row \in MailRow
    BY <2>1 DEF Desk, MailRow
  <2> QED BY <2>1, <2>2 DEF ThreadInv, OneEach
<1>2. \A e \in Desks : Onward(e)
  BY InsertMoves DEF Onward, Storing, DeskAt
<1>3. CASE mail' = mail
  <2>1. Marked
    BY <1>3 DEF Marked, InTable
  <2> QED BY <1>2, <2>1, InsertMoves, RowsKept
<1>4. CASE ParentThere(p) /\ mail' = [mail EXCEPT ![m] = row]
  <2>1. row # NoMail /\ row.parent = p /\ row.thread = desk[d].thread
    BY <1>1, MailFields
  <2> HIDE DEF row
  <2>2. /\ mail'[m] = row /\ InTable' = InTable \cup {m}
        /\ \A q \in InTable : q # m /\ mail'[q] = mail[q]
    <3>1. mail'[m] = row /\ \A q \in Mails : q # m => mail'[q] = mail[q]
      BY <1>1, <1>4 DEF MailboxTypeOK
    <3> QED BY <1>1, <2>1, <3>1 DEF InTable
  <2> HIDE DEF m, p
  <2>3. Written' = Written /\ Dated' /\ written' = written
    BY InsertMoves DEF Written, Dated, ThreadInv
  <2>4. (InTable \subseteq Written)'
    BY <1>1, <2>2, <2>3 DEF ThreadInv
  <2>5. \A e \in Desks : Storing(e)' => e # d /\ Storing(e) /\ desk'[e].mail # m
    BY <1>1, <1>2, InsertMoves DEF Onward, ThreadInv, OneEach, m
  <2>6. OneEach'
    BY <1>2, <2>2, <2>3, <2>5 DEF ThreadInv, OneEach, Onward
  <2>7. ThreadsHeld'
    <3>1. CASE p = NoMail
      BY <1>1, <2>1, <2>2, <2>3, <3>1 DEF ThreadInv, ThreadsHeld, Replying, p, m
    <3>2. CASE p # NoMail
      <4>1. p \in InTable /\ written[p] < written[m] /\ mail[p].thread = row.thread
        BY <1>1, <1>4, <2>1, <3>2 DEF ParentThere, Replying, p, m
      <4> QED BY <2>1, <2>2, <2>3, <3>2, <4>1 DEF ThreadInv, ThreadsHeld
    <3> QED BY <3>1, <3>2
  <2>8. ASSUME NEW e \in Desks, Storing(e)'
        PROVE  Replying(e)'
    <3>1. Storing(e) /\ Replying(e)
      BY <2>5, <2>8 DEF ThreadInv
    <3>2. desk[e].parent # NoMail => desk[e].parent # m
      BY <1>1, <3>1 DEF Replying, m
    <3>3. \A f \in Desks : Storing(f)' => Storing(f) /\ desk'[f].mail = desk[f].mail
      BY <1>2 DEF Onward
    <3>4. /\ desk'[e].mail = desk[e].mail /\ desk'[e].parent = desk[e].parent
          /\ desk'[e].thread = desk[e].thread
      BY <1>2, <2>8 DEF Onward
    <3> QED BY <2>2, <2>3, <3>1, <3>2, <3>3, <3>4 DEF Replying
  <2> QED BY <2>3, <2>4, <2>6, <2>7, <2>8 DEF ThreadInv
<1> QED BY <1>3, <1>4 DEF InsertMail

(***************************************************************************)
(* Counts.                                                                 *)
(***************************************************************************)

\* What a step leaves alone but for some users: which of their rows count, and those on
\* their way into the index.
Beside(users) ==
  /\ \A m \in Mails : Recipient[m] \notin users => (Unseen(m)' <=> Unseen(m))
  /\ \A d \in Desks :
       /\ DeskAt(d, "index")' /\ Recipient[desk'[d].mail] \notin users
            => DeskAt(d, "index") /\ desk'[d].mail = desk[d].mail
       /\ DeskAt(d, "index") /\ Recipient[desk[d].mail] \notin users
            => DeskAt(d, "index")' /\ desk'[d].mail = desk[d].mail

\* A handler that still loads a count of another user.
StillLoads(d, users) ==
  DeskAt(d, "count")' /\ ~desk'[d].outdated =>
    /\ DeskAt(d, "count") /\ ~desk[d].outdated
    /\ desk'[d].user = desk[d].user /\ desk'[d].count = desk[d].count
    /\ desk[d].user \notin users

LEMMA BesideKeeps ==
  ASSUME NEW users, Beside(users)
  PROVE  /\ \A u : u \notin users => /\ Unread(u)' = Unread(u)
                                     /\ Indexing(u)' = Indexing(u)
                                     /\ Arriving(u)' = Arriving(u)
         /\ \A d \in Desks : Loaded(d) /\ StillLoads(d, users) => Loaded(d)'
<1>1. ASSUME NEW u, u \notin users
      PROVE  Unread(u)' = Unread(u) /\ Indexing(u)' = Indexing(u) /\ Arriving(u)' = Arriving(u)
  <2>1. \A m \in Mails : Recipient[m] = u => (Unseen(m)' <=> Unseen(m))
    BY <1>1 DEF Beside
  <2>2. {m \in Mails : Recipient[m] = u /\ Unseen(m)}' = {m \in Mails : Recipient[m] = u /\ Unseen(m)}
    BY <2>1
  <2>3. Indexing(u)' = Indexing(u)
    <3>1. \A d \in Desks : (DeskAt(d, "index") /\ Recipient[desk[d].mail] = u)'
                           <=> DeskAt(d, "index") /\ Recipient[desk[d].mail] = u
      BY <1>1 DEF Beside
    <3> QED BY <3>1 DEF Indexing
  <2> QED BY <2>2, <2>3 DEF Unread, Arriving, Indexing
<1>2. ASSUME NEW d \in Desks, Loaded(d), StillLoads(d, users)
      PROVE  Loaded(d)'
  BY <1>1, <1>2 DEF Loaded, StillLoads
<1> QED BY <1>1, <1>2

LEMMA CountsKeep ==
  ASSUME CountInv, NEW users, Beside(users), \A d \in Desks : StillLoads(d, users),
         \A u \in Inboxes : u \notin users =>
           unread'[u] = NoCount \/ (unread'[u] = unread[u] /\ (u \in amiss => u \in amiss')),
         \A u \in Inboxes : u \in users /\ unread'[u] # NoCount /\ u \notin amiss' =>
           unread'[u] + Arriving(u)' = Unread(u)'
  PROVE  CountInv'
<1>1. \A d \in Desks : Loaded(d)'
  BY BesideKeeps DEF CountInv
<1>2. ASSUME NEW u \in Inboxes, unread'[u] # NoCount, u \notin amiss'
      PROVE  unread'[u] + Arriving(u)' = Unread(u)'
  <2>1. CASE u \in users
    BY <1>2, <2>1
  <2>2. CASE u \notin users
    <3>1. unread'[u] = unread[u] /\ u \notin amiss
      BY <1>2, <2>2
    <3>2. Unread(u)' = Unread(u) /\ Arriving(u)' = Arriving(u)
      BY <2>2, BesideKeeps
    <3>3. unread[u] + Arriving(u) = Unread(u)
      BY <1>2, <3>1 DEF CountInv, CountsRight
    <3> QED BY <3>1, <3>2, <3>3
  <2> QED BY <2>1, <2>2
<1>3. CountsRight'
  BY <1>2 DEF CountsRight
<1> QED BY <1>1, <1>3 DEF CountInv

\* A row that stays as it was counts as before.
LEMMA UnseenSame ==
  ASSUME NEW m \in Mails, mail'[m] = mail[m]
  PROVE  Unseen(m)' <=> Unseen(m)
BY DEF Unseen, InTable

\* Rows that begin or cease to count put the counts of their recipients amiss.
LEMMA ChangesKeep ==
  ASSUME MailboxTypeOK, CountInv, NEW users, UNCHANGED unread,
         \A m \in Mails : Recipient[m] \notin users => (Unseen(m)' <=> Unseen(m)),
         \/ ChangeAt(users)
         \/ \E d \in Desks, next \in Desk : /\ Change(users, d, next) /\ ~DeskAt(d, "index")
                                            /\ next.at \notin {"index", "count"}
  PROVE  CountInv'
<1>1. \A u \in Inboxes : u \in users /\ unread'[u] # NoCount => u \in amiss'
  BY DEF Change, ChangeAt
<1>2. amiss \subseteq amiss'
  BY DEF Change, ChangeAt
<1>3. /\ Outdated(users) \in [Desks -> Desk]
      /\ \A d \in Desks :
           /\ Outdated(users)[d].at = desk[d].at /\ Outdated(users)[d].mail = desk[d].mail
           /\ Outdated(users)[d].user = desk[d].user /\ Outdated(users)[d].count = desk[d].count
           /\ DeskAt(d, "count") /\ ~Outdated(users)[d].outdated =>
                ~desk[d].outdated /\ desk[d].user \notin users
  BY OutdatedTyped
<1>4. \A e \in Desks :
        \/ desk'[e] = Outdated(users)[e]
        \/ ~DeskAt(e, "index") /\ desk'[e].at \notin {"index", "count"}
  <2>1. CASE ChangeAt(users)
    BY <2>1 DEF ChangeAt
  <2>2. ASSUME NEW d \in Desks, NEW next \in Desk, Change(users, d, next), ~DeskAt(d, "index"),
               next.at \notin {"index", "count"}, NEW e \in Desks
        PROVE  \/ desk'[e] = Outdated(users)[e]
               \/ ~DeskAt(e, "index") /\ desk'[e].at \notin {"index", "count"}
    BY <1>3, <2>2 DEF Change
  <2> QED BY <2>1, <2>2
<1>5. Beside(users) /\ \A e \in Desks : StillLoads(e, users)
  BY <1>3, <1>4 DEF Beside, StillLoads, DeskAt
<1> QED BY <1>1, <1>2, <1>5, CountsKeep

\* One handler goes on, and no row and no count changes.
LEMMA GoingKeeps ==
  ASSUME CountInv, NEW d \in Desks, ~DeskAt(d, "index"),
         desk'[d].at \notin {"index", "count"},
         \A e \in Desks : e # d => desk'[e] = desk[e],
         UNCHANGED mail, (unread' = NoCounts) \/ UNCHANGED <<unread, amiss>>
  PROVE  CountInv'
<1>1. Beside({}) /\ \A e \in Desks : StillLoads(e, {})
  BY UnseenSame DEF Beside, StillLoads, DeskAt
<1> QED BY <1>1, CountsKeep DEF NoCounts

LEMMA Left ==
  ASSUME MailboxTypeOK, NEW d \in Desks, Leave(d)
  PROVE  desk'[d].at = "idle" /\ \A e \in Desks : e # d => desk'[e] = desk[e]
BY NoDeskTyped DEF Leave, MailboxTypeOK

LEMMA StoreCounts ==
  ASSUME MailboxTypeOK, CountInv, NEW d \in Desks, CountStore(d)
  PROVE  CountInv'
<1> DEFINE u == desk[d].user
<1>1. /\ DeskAt(d, "count") /\ Leave(d) /\ mail' = mail
      /\ unread' = [unread EXCEPT ![u] = desk[d].count]
      /\ amiss' = IF desk[d].outdated THEN amiss \cup {u} ELSE amiss \ {u}
  BY DEF CountStore
<1>2. u \in Inboxes /\ desk[d].count \in Nat
  BY DEF MailboxTypeOK, Desk
<1>3. desk'[d].at = "idle" /\ \A e \in Desks : e # d => desk'[e] = desk[e]
  BY <1>1, Left
<1>4. Beside({}) /\ \A e \in Desks : StillLoads(e, {})
  BY <1>1, <1>3, UnseenSame DEF Beside, StillLoads, DeskAt
<1>5. \A e \in Desks : Loaded(e)'
  BY <1>4, BesideKeeps DEF CountInv
<1>6. ASSUME NEW v \in Inboxes, unread'[v] # NoCount, v \notin amiss'
      PROVE  unread'[v] + Arriving(v)' = Unread(v)'
  <2>1. Unread(v)' = Unread(v) /\ Arriving(v)' = Arriving(v)
    BY <1>4, BesideKeeps
  <2>2. CASE v = u
    <3>1. ~desk[d].outdated
      BY <1>1, <1>6, <2>2
    <3>2. desk[d].count = Unread(v) /\ Indexing(v) = {}
      BY <1>1, <2>2, <3>1 DEF CountInv, Loaded
    <3>3. Arriving(v) = 0
      BY <3>2, Sizes, FS_EmptySet
    <3>4. unread'[v] = desk[d].count
      BY <1>1, <1>2, <2>2 DEF MailboxTypeOK
    <3> QED BY <1>2, <2>1, <3>2, <3>3, <3>4
  <2>3. CASE v # u
    <3> HIDE DEF u
    <3>1. unread'[v] = unread[v] /\ v \notin amiss
      BY <1>1, <1>6, <2>3 DEF MailboxTypeOK
    <3> QED BY <1>6, <2>1, <3>1 DEF CountInv, CountsRight
  <2> QED BY <2>2, <2>3
<1> QED BY <1>5, <1>6 DEF CountInv, CountsRight

LEMMA LoadCounts ==
  ASSUME MailboxTypeOK, CountInv, NEW d \in Desks, NEW u \in Inboxes, CountLoad(d, u)
  PROVE  CountInv'
<1>1. /\ DeskAt(d, "idle") /\ UNCHANGED <<mail, unread, amiss>>
      /\ desk'[d].at = "count" /\ desk'[d].user = u /\ desk'[d].count = Unread(u)
      /\ ~desk'[d].outdated => Indexing(u) = {}
      /\ \A e \in Desks : e # d => desk'[e] = desk[e]
  BY LoadTyped DEF CountLoad
<1>2. Beside({}) /\ \A e \in Desks : e # d => StillLoads(e, {})
  BY <1>1, UnseenSame DEF Beside, StillLoads, DeskAt
<1>3. \A v : Unread(v)' = Unread(v) /\ Indexing(v)' = Indexing(v) /\ Arriving(v)' = Arriving(v)
  BY <1>2, BesideKeeps
<1>4. \A e \in Desks : e # d => Loaded(e)'
  BY <1>2, BesideKeeps DEF CountInv
<1>5. Loaded(d)'
  BY <1>1, <1>3 DEF Loaded
<1>6. CountsRight'
  BY <1>1, <1>3 DEF CountInv, CountsRight
<1> QED BY <1>4, <1>5, <1>6 DEF CountInv

\* A message that comes into the index leaves those on their way to it.
LEMMA IndexCounts ==
  ASSUME MailboxTypeOK, CountInv, NEW d \in Desks, IndexMail(d)
  PROVE  CountInv'
<1>0. PICK u \in Inboxes : u = Recipient[desk[d].mail]
  BY MailAssumption DEF MailboxTypeOK, Desk
<1>1. /\ DeskAt(d, "index") /\ mail' = mail
      /\ unread' = [unread EXCEPT ![u] = IF @ = NoCount THEN 1 ELSE @ + 1]
      /\ desk' = [Outdated({u}) EXCEPT ![d] = [desk[d] EXCEPT !.at = "sent"]]
      /\ amiss' = IF unread[u] = NoCount THEN amiss \cup {u} ELSE amiss
  BY <1>0 DEF IndexMail
<1>2. unread \in [Inboxes -> Nat \cup {NoCount}]
  BY DEF MailboxTypeOK
<1>3. d \in Indexing(u)
  BY <1>0, <1>1 DEF Indexing
<1>4. /\ desk'[d].at = "sent"
      /\ \A e \in Desks : e # d => desk'[e] = Outdated({u})[e]
  <2>1. [desk[d] EXCEPT !.at = "sent"].at = "sent"
    BY DEF MailboxTypeOK, Desk
  <2> QED BY <1>1, <2>1, OutdatedTyped
<1>5. \A e \in Desks : e # d =>
        /\ desk'[e].at = desk[e].at /\ desk'[e].mail = desk[e].mail
        /\ desk'[e].user = desk[e].user /\ desk'[e].count = desk[e].count
        /\ DeskAt(e, "count") /\ ~desk'[e].outdated =>
             ~desk[e].outdated /\ desk[e].user \notin {u}
  BY <1>4, OutdatedTyped
<1>6. Beside({u}) /\ \A e \in Desks : StillLoads(e, {u})
  BY <1>0, <1>1, <1>4, <1>5, UnseenSame DEF Beside, StillLoads, DeskAt
<1>7. ASSUME u \notin amiss'
      PROVE  unread'[u] + Arriving(u)' = Unread(u)'
  <2>1. unread[u] # NoCount /\ unread[u] \in Nat /\ u \notin amiss
    BY <1>1, <1>2, <1>7
  <2>2. unread'[u] = unread[u] + 1
    BY <1>1, <1>2, <2>1
  <2>3. unread[u] + Arriving(u) = Unread(u)
    BY <1>2, <2>1 DEF CountInv, CountsRight
  <2>4. Unread(u)' = Unread(u)
    BY <1>1 DEF Unread, Unseen, InTable
  <2>5. Indexing(u)' = Indexing(u) \ {d}
    BY <1>4, <1>5 DEF Indexing, DeskAt
  <2>6. Arriving(u)' = Cardinality(Indexing(u)')
    BY DEF Arriving, Indexing
  <2>7. Arriving(u)' = Arriving(u) - 1 /\ Arriving(u) \in Nat
    <3>1. IsFiniteSet(Indexing(u)) /\ Arriving(u) = Cardinality(Indexing(u)) /\ Arriving(u) \in Nat
      BY Sizes
    <3>2. Cardinality(Indexing(u) \ {d}) = Cardinality(Indexing(u)) - 1
      BY <1>3, <3>1, FS_RemoveElement
    <3> QED BY <2>5, <2>6, <3>1, <3>2
  <2> QED BY <2>1, <2>2, <2>3, <2>4, <2>7
<1>8. \A v \in Inboxes : v # u => unread'[v] = unread[v] /\ (v \in amiss => v \in amiss')
  BY <1>1, <1>2
<1> QED BY <1>6, <1>7, <1>8, CountsKeep

LEMMA InsertCounts ==
  ASSUME MailboxTypeOK, ThreadInv, CountInv, NEW d \in Desks, InsertMail(d)
  PROVE  CountInv'
<1> DEFINE new == [status |-> "Sent", read |-> FALSE, parent |-> desk[d].parent,
                   thread |-> desk[d].thread]
<1>0. desk[d] \in Desk /\ new \in MailRow
  BY DEF MailboxTypeOK, Desk, MailRow
<1>1. PICK m \in Mails, u \in Inboxes, row \in MailRow :
        /\ m = desk[d].mail /\ u = Recipient[m] /\ row = new
        /\ ~row.read /\ row.status # "Deleted"
  BY <1>0, MailAssumption DEF Desk
<1>6. m \notin InTable /\ DeskAt(d, "insert") /\ unread' = unread
  BY <1>1, InsertMoves DEF ThreadInv, OneEach, Storing
<1> HIDE DEF new
<1>2. CASE Leave(d) /\ UNCHANGED <<mail, amiss>>
  BY <1>2, <1>6, Left, GoingKeeps DEF DeskAt
<1>3. mail' = [mail EXCEPT ![m] = row] =>
        /\ mail'[m] = row /\ \A q \in Mails : q # m => mail'[q] = mail[q]
  BY <1>1 DEF MailboxTypeOK
<1>4. CASE mail' = [mail EXCEPT ![m] = row] /\ Change({u}, d, NoDesk)
  <2>1. \A q \in Mails : Recipient[q] \notin {u} => (Unseen(q)' <=> Unseen(q))
    BY <1>1, <1>3, <1>4, UnseenSame
  <2>2. ~DeskAt(d, "index") /\ NoDesk.at \notin {"index", "count"} /\ NoDesk \in Desk
    BY <1>6, NoDeskTyped DEF DeskAt
  <2> QED BY <1>4, <1>6, <2>1, <2>2, ChangesKeep
<1>5. CASE /\ mail' = [mail EXCEPT ![m] = row]
           /\ desk' = [Outdated({u}) EXCEPT ![d] = [desk[d] EXCEPT !.at = "index"]]
           /\ amiss' = amiss
  <2>1. /\ desk'[d].at = "index" /\ desk'[d].mail = m
        /\ \A e \in Desks : e # d => desk'[e] = Outdated({u})[e]
    <3>2. /\ [desk[d] EXCEPT !.at = "index"].at = "index"
          /\ [desk[d] EXCEPT !.at = "index"].mail = m
      BY <1>0, <1>1 DEF Desk
    <3>3. desk'[d] = [desk[d] EXCEPT !.at = "index"]
      BY <1>5, OutdatedTyped
    <3> QED BY <1>5, <3>2, <3>3, OutdatedTyped
  <2>2. mail'[m] = row /\ \A q \in Mails : q # m => mail'[q] = mail[q]
    BY <1>3, <1>5
  <2>3. row # NoMail /\ ~row.read /\ row.status # "Deleted"
    BY <1>1, MailFields
  <2>4. u = Recipient[m]
    BY <1>1
  <2>5. \A e \in Desks : e # d =>
          /\ desk'[e].at = desk[e].at /\ desk'[e].mail = desk[e].mail
          /\ desk'[e].user = desk[e].user /\ desk'[e].count = desk[e].count
          /\ DeskAt(e, "count") /\ ~desk'[e].outdated =>
               ~desk[e].outdated /\ desk[e].user \notin {u}
    BY <2>1, OutdatedTyped
  <2>6. Beside({u}) /\ \A e \in Desks : StillLoads(e, {u})
    BY <1>1, <1>6, <2>1, <2>2, <2>4, <2>5, UnseenSame DEF Beside, StillLoads, DeskAt
  <2>7. ASSUME unread[u] # NoCount, u \notin amiss
        PROVE  unread[u] + Arriving(u)' = Unread(u)'
    <3> DEFINE R == {q \in Mails : Recipient[q] = u /\ Unseen(q)}
    <3>1. R' = R \cup {m} /\ m \notin R
      <4>1. Unseen(m)' /\ ~Unseen(m)
        BY <1>6, <2>2, <2>3 DEF Unseen, InTable
      <4>2. \A q \in Mails : q # m => (Unseen(q)' <=> Unseen(q))
        BY <2>2, UnseenSame
      <4> QED BY <2>4, <4>1, <4>2
    <3>2. IsFiniteSet(R)
      <4>1. R \in SUBSET Mails
        OBVIOUS
      <4> QED BY <4>1, MailAssumption, FS_Subset
    <3>3. Unread(u) = Cardinality(R) /\ Unread(u)' = Cardinality(R')
      BY DEF Unread
    <3> HIDE DEF R
    <3>4. Unread(u)' = Unread(u) + 1
      BY <3>1, <3>2, <3>3, FS_AddElement
    <3>5. Indexing(u)' = Indexing(u) \cup {d} /\ d \notin Indexing(u)
      BY <1>6, <2>1, <2>4, <2>5 DEF Indexing, DeskAt
    <3>6. Arriving(u)' = Cardinality(Indexing(u)')
      BY DEF Arriving, Indexing
    <3>7. Arriving(u)' = Arriving(u) + 1
      <4>1. IsFiniteSet(Indexing(u)) /\ Arriving(u) = Cardinality(Indexing(u))
        BY Sizes
      <4>2. Cardinality(Indexing(u) \cup {d}) = Cardinality(Indexing(u)) + 1
        BY <3>5, <4>1, FS_AddElement
      <4> QED BY <3>5, <3>6, <4>1, <4>2
    <3>8. unread[u] + Arriving(u) = Unread(u)
      BY <1>1, <2>7 DEF CountInv, CountsRight
    <3>9. unread[u] \in Nat /\ Arriving(u) \in Nat /\ Unread(u) \in Nat
      BY <1>1, <2>7, Sizes DEF MailboxTypeOK
    <3> QED BY <3>4, <3>7, <3>8, <3>9
  <2> QED BY <1>5, <1>6, <2>6, <2>7, CountsKeep
<1>7. m = desk[d].mail /\ u = Recipient[m] /\ row = new
  BY <1>1
<1> QED BY <1>2, <1>4, <1>5, <1>7 DEF InsertMail, new

(***************************************************************************)
(* The steps of MailboxNext.                                               *)
(***************************************************************************)

LEMMA SendKeeps ==
  ASSUME MailInv, NEW d \in Desks, NEW m \in Mails, NEW p \in Mails \cup {NoMail},
         NEW via \in {"storage", "direct"}, SendMail(d, m, p, via)
  PROVE  MailInv'
<1>1. MailboxTypeOK' /\ ThreadInv'
  BY SendTyped, SendThreads DEF MailInv
<1>2. /\ DeskAt(d, "idle") /\ UNCHANGED <<mail, unread, amiss>>
      /\ desk'[d].at = "insert" /\ \A e \in Desks : e # d => desk'[e] = desk[e]
  BY SendTyped DEF MailInv, SendMail
<1>3. CountInv'
  BY <1>2, GoingKeeps DEF MailInv, DeskAt
<1> QED BY <1>1, <1>3 DEF MailInv

LEMMA ServeKeeps ==
  ASSUME MailInv, NEW d \in Desks,
         MailDbError(d) \/ CountStore(d) \/ IndexMail(d) \/ RebuildAfter(d)
  PROVE  MailInv'
<1>1. MailboxTypeOK'
  BY IndexTyped, ClearTyped DEF MailInv
<1>2. UNCHANGED <<mail, written>>
  BY DEF MailDbError, CountStore, IndexMail, RebuildAfter
<1>3. \A e \in Desks : Onward(e)
  <2>1. CASE Leave(d)
    BY <2>1, Left DEF MailInv, Onward, Storing, DeskAt
  <2>2. CASE IndexMail(d)
    <3>1. PICK users : desk' = [Outdated(users) EXCEPT ![d] = [desk[d] EXCEPT !.at = "sent"]]
      BY <2>2 DEF IndexMail
    <3>2. [desk[d] EXCEPT !.at = "sent"].at = "sent"
      BY DEF MailInv, MailboxTypeOK, Desk
    <3> QED BY <3>1, <3>2, OutdatedTyped DEF MailInv, Onward, Storing, DeskAt
  <2> QED BY <2>1, <2>2 DEF MailDbError, CountStore, RebuildAfter
<1>4. ThreadInv'
  BY <1>2, <1>3, RowsKept DEF MailInv, Marked, InTable
<1>5. CountInv'
  <2>1. CASE MailDbError(d) \/ RebuildAfter(d)
    <3>1. /\ Leave(d) /\ ~DeskAt(d, "index")
          /\ unread' = NoCounts \/ UNCHANGED <<unread, amiss>>
      BY <2>1 DEF MailDbError, RebuildAfter, ClearCounts, DeskAt
    <3> QED BY <1>2, <3>1, Left, GoingKeeps DEF MailInv
  <2> QED BY <2>1, StoreCounts, IndexCounts DEF MailInv
<1> QED BY <1>1, <1>4, <1>5 DEF MailInv

LEMMA MailInsertKeeps ==
  ASSUME MailInv, NEW d \in Desks, InsertMail(d)
  PROVE  MailInv'
BY MailInsertTyped, InsertThreads, InsertCounts DEF MailInv

LEMMA LoadKeeps ==
  ASSUME MailInv, NEW d \in Desks, NEW u \in Inboxes, CountLoad(d, u)
  PROVE  MailInv'
<1>1. /\ MailboxTypeOK' /\ desk'[d].at = "count"
      /\ \A e \in Desks : e # d => desk'[e] = desk[e]
      /\ UNCHANGED <<mail, written>>
  BY LoadTyped DEF MailInv, CountLoad
<1>2. \A e \in Desks : Onward(e)
  BY <1>1 DEF Onward, Storing, DeskAt
<1>3. ThreadInv'
  BY <1>1, <1>2, RowsKept DEF MailInv, Marked, InTable
<1> QED BY <1>1, <1>3, LoadCounts DEF MailInv

\* Handlers that load go on, outdated.
LEMMA OutdatedOnward ==
  ASSUME MailboxTypeOK, NEW users, ChangeAt(users)
  PROVE  \A e \in Desks : Onward(e)
BY OutdatedTyped DEF ChangeAt, Onward, Storing, DeskAt

\* The end of a compose makes a row Sent, and one that was deleted count.
LEMMA SentKeeps ==
  ASSUME MailInv, NEW d \in Desks, MarkSent(d)
  PROVE  MailInv'
<1>0. PICK m \in Mails : m = desk[d].mail
  BY DEF MailInv, MailboxTypeOK, Desk
<1>1. PICK of : m = desk[d].mail /\ of = Whose(Revived(m))
  BY <1>0
<1>2. /\ DeskAt(d, "sent") /\ Change(of, d, NoDesk) /\ UNCHANGED <<unread, written>>
      /\ mail' = IF m \in InTable THEN [mail EXCEPT ![m].status = "Sent"] ELSE mail
  BY <1>1 DEF MarkSent
<1>3. /\ \A q \in Mails : q # m => mail'[q] = mail[q]
      /\ m \notin InTable => mail'[m] = mail[m]
      /\ m \in InTable => /\ mail'[m] \in MailRow /\ mail'[m] # NoMail
                          /\ mail'[m].parent = mail[m].parent
                          /\ mail'[m].thread = mail[m].thread
                          /\ mail'[m].read = mail[m].read /\ mail'[m].status = "Sent"
  <2>1. CASE m \in InTable
    <3>1. mail' = [mail EXCEPT ![m] = [mail[m] EXCEPT !.status = "Sent"]]
      BY <1>2, <2>1
    <3>2. mail[m] \in MailRow
      BY <2>1, MailFields DEF MailInv
    <3>3. /\ mail'[m] = [mail[m] EXCEPT !.status = "Sent"]
          /\ \A q \in Mails : q # m => mail'[q] = mail[q]
      BY <3>1 DEF MailInv, MailboxTypeOK
    <3>4. MailboxTypeOK
      BY DEF MailInv
    <3>5. /\ mail'[m] \in MailRow /\ mail'[m] # NoMail
          /\ mail'[m].parent = mail[m].parent /\ mail'[m].thread = mail[m].thread
          /\ mail'[m].read = mail[m].read /\ mail'[m].status = "Sent"
      <4>1. PICK r \in MailRow : r = mail[m]
        BY <3>2
      <4>2. PICK z : z = [r EXCEPT !.status = "Sent"]
        OBVIOUS
      <4>3. /\ z \in MailRow /\ z.parent = r.parent /\ z.thread = r.thread
            /\ z.read = r.read /\ z.status = "Sent"
        BY <3>4, <4>2, MailFields, Zenon
      <4>4. z # NoMail
        BY <4>3, MailAssumption
      <4>5. mail'[m] = z
        BY <3>3, <4>1, <4>2
      <4> QED BY <4>1, <4>3, <4>4, <4>5
    <3> QED BY <2>1, <3>3, <3>5
  <2>2. CASE m \notin InTable
    BY <1>2, <2>2
  <2> QED BY <2>1, <2>2
<1>4. Marked
  BY <1>3 DEF Marked, InTable
<1>5. \A e \in Desks : Onward(e)
  <2>1. desk' = [Outdated(of) EXCEPT ![d] = NoDesk]
    BY <1>2 DEF Change
  <2> QED BY <2>1, OutdatedTyped, NoDeskTyped DEF MailInv, Onward, Storing, DeskAt
<1>6. ThreadInv'
  BY <1>2, <1>4, <1>5, RowsKept DEF MailInv
<1>7. CountInv'
  <2>1. \A q \in Mails : Recipient[q] \notin of => (Unseen(q)' <=> Unseen(q))
    <3>1. ASSUME Recipient[m] \notin of PROVE Unseen(m)' <=> Unseen(m)
      <4>1. m \notin Revived(m)
        BY <1>1, <3>1 DEF Whose
      <4>2. m \in InTable => mail[m].read \/ mail[m].status # "Deleted"
        BY <4>1 DEF Revived
      <4>3. CASE m \in InTable
        <5>1. m \in InTable'
          BY <1>3, <4>3 DEF InTable
        <5>2. mail'[m].read = mail[m].read /\ mail'[m].status = "Sent"
          BY <1>3, <4>3
        <5> QED BY <4>2, <4>3, <5>1, <5>2 DEF Unseen
      <4>4. CASE m \notin InTable
        <5>1. mail'[m] = mail[m]
          BY <1>3, <4>4
        <5> QED BY <5>1, UnseenSame
      <4> QED BY <4>3, <4>4
    <3> QED BY <1>3, <3>1, UnseenSame
  <2>2. ~DeskAt(d, "index") /\ NoDesk.at \notin {"index", "count"} /\ NoDesk \in Desk
    BY <1>2, NoDeskTyped DEF DeskAt
  <2> QED BY <1>2, <2>1, <2>2, ChangesKeep DEF MailInv
<1> QED BY <1>6, <1>7, SentTyped DEF MailInv

LEMMA ReadOneKeeps ==
  ASSUME MailInv, NEW m \in Mails, ReadOne(m) \/ DeleteMail(m)
  PROVE  MailInv'
<1>0. PICK of : of = Whose(Counting({m}))
  OBVIOUS
<1>1. /\ m \in InTable /\ ChangeAt(of) /\ UNCHANGED <<unread, written>>
  BY <1>0 DEF ReadOne, DeleteMail
<1>2. PICK row \in MailRow : /\ mail' = [mail EXCEPT ![m] = row]
                             /\ row.parent = mail[m].parent /\ row.thread = mail[m].thread
                             /\ row.read \/ row.status = "Deleted"
  <2>1. mail[m] \in MailRow
    BY <1>1, MailFields DEF MailInv
  <2>2. CASE ReadOne(m)
    <3>1. /\ ReadRow(mail[m]) \in MailRow
          /\ ReadRow(mail[m]).parent = mail[m].parent /\ ReadRow(mail[m]).thread = mail[m].thread
          /\ ReadRow(mail[m]).read
      BY <2>1, MailFields DEF MailInv
    <3> QED BY <2>2, <3>1 DEF ReadOne
  <2>3. CASE DeleteMail(m)
    <3> DEFINE row == [mail[m] EXCEPT !.status = "Deleted"]
    <3>1. /\ row \in MailRow /\ row.parent = mail[m].parent /\ row.thread = mail[m].thread
          /\ row.status = "Deleted"
      BY <2>1 DEF MailRow
    <3>2. mail' = [mail EXCEPT ![m] = row]
      BY <2>3 DEF DeleteMail
    <3> QED BY <3>1, <3>2
  <2> QED BY <2>2, <2>3
<1>3. /\ mail'[m] = row /\ row # NoMail
      /\ \A q \in Mails : q # m => mail'[q] = mail[q]
  BY <1>2, MailFields DEF MailInv, MailboxTypeOK
<1>4. Marked
  BY <1>1, <1>2, <1>3 DEF Marked, InTable
<1>5. ThreadInv'
  BY <1>1, <1>4, OutdatedOnward, RowsKept DEF MailInv
<1>6. CountInv'
  <2>1. \A q \in Mails : Recipient[q] \notin of => (Unseen(q)' <=> Unseen(q))
    <3>1. ~Unseen(m)'
      BY <1>2, <1>3 DEF Unseen
    <3>2. Unseen(m) => Recipient[m] \in of
      BY <1>0 DEF Whose, Counting
    <3> QED BY <1>3, <3>1, <3>2, UnseenSame
  <2> QED BY <1>1, <2>1, ChangesKeep DEF MailInv
<1> QED BY <1>5, <1>6, ReadTyped DEF MailInv

LEMMA ReadAllKeeps ==
  ASSUME MailInv, NEW u \in Inboxes, NEW from, ReadConversation(u, from)
  PROVE  MailInv'
<1> DEFINE new == {m \in InTable : Recipient[m] = u /\ Sender[m] = from /\ ~mail[m].read}
<1>0. PICK of : of = Whose(Counting(new))
  OBVIOUS
<1>1. /\ ChangeAt(of) /\ UNCHANGED <<unread, written>>
      /\ \A m \in Mails : mail'[m] = IF m \in new THEN ReadRow(mail[m]) ELSE mail[m]
  BY <1>0 DEF ReadConversation
<1>2. \A m \in new : m \in InTable /\ m \in Mails
  BY DEF InTable
<1> HIDE DEF new
<1>3. Marked
  <2>1. ASSUME NEW m \in new
        PROVE  /\ ReadRow(mail[m]) # NoMail /\ ReadRow(mail[m]).parent = mail[m].parent
               /\ ReadRow(mail[m]).thread = mail[m].thread
    <3>1. m \in Mails /\ mail[m] \in MailRow
      BY <1>2, MailFields DEF MailInv, InTable
    <3> QED BY <3>1, MailFields DEF MailInv
  <2>2. \A m \in InTable : mail[m] # NoMail
    BY DEF InTable
  <2> QED BY <1>1, <1>2, <2>1, <2>2 DEF Marked
<1>4. ThreadInv'
  BY <1>1, <1>3, OutdatedOnward, RowsKept DEF MailInv
<1>5. CountInv'
  <2>1. \A m \in Mails : Recipient[m] \notin of => (Unseen(m)' <=> Unseen(m))
    <3>1. ASSUME NEW m \in new PROVE ~Unseen(m)'
      <4>1. mail[m] \in MailRow /\ mail'[m] = ReadRow(mail[m])
        BY <1>1, <1>2, MailFields DEF MailInv
      <4> QED BY <4>1, MailFields, <1>2 DEF MailInv, Unseen
    <3>2. \A m \in new : Unseen(m) => Recipient[m] \in of
      BY <1>0 DEF Whose, Counting
    <3> QED BY <1>1, <3>1, <3>2, UnseenSame
  <2> QED BY <1>1, <2>1, ChangesKeep DEF MailInv
<1> QED BY <1>4, <1>5, ReadAllTyped DEF MailInv

LEMMA ArchiveKeeps ==
  ASSUME MailInv, NEW d \in Desks, NEW k, ArchiveMail(d, k)
  PROVE  MailInv'
<1> DEFINE next == [NoDesk EXCEPT !.at = "clear"]
<1>0. PICK of : of = Whose(Counting(Old(k)))
  OBVIOUS
<1>1. /\ DeskAt(d, "idle") /\ Purgeable(Old(k)) /\ Change(of, d, next)
      /\ UNCHANGED <<unread, written>>
      /\ \A m \in Mails : mail'[m] = IF m \in Old(k) THEN NoMail ELSE mail[m]
  BY <1>0 DEF ArchiveMail
<1>2. next \in Desk /\ next.at = "clear"
  BY NoDeskTyped DEF Desk
<1> HIDE DEF next
<1>3. PICK gone : gone = Old(k)
  OBVIOUS
<1>4. \A m \in Mails : m \in InTable' <=> m \in InTable \ gone
  BY <1>1, <1>3 DEF InTable
<1>5. \A m \in InTable \ gone : /\ mail'[m].parent = mail[m].parent
                                /\ mail'[m].thread = mail[m].thread
                                /\ mail[m].parent \notin gone
  BY <1>1, <1>3 DEF Purgeable, InTable
<1>6. \A e \in Desks : Onward(e)
  <2>1. desk' = [Outdated(of) EXCEPT ![d] = next]
    BY <1>1 DEF Change
  <2> QED BY <1>2, <2>1, OutdatedTyped DEF MailInv, Onward, Storing, DeskAt
<1>7. ThreadInv'
  BY <1>1, <1>4, <1>5, <1>6, ThreadsKeep DEF MailInv
<1>8. CountInv'
  <2>2. \A m \in Mails : Recipient[m] \notin of => (Unseen(m)' <=> Unseen(m))
    <3>1. \A m \in Old(k) : m \in Mails /\ mail'[m] = NoMail /\ ~Unseen(m)'
      BY <1>1 DEF Old, Unseen, InTable
    <3>2. \A m \in Old(k) : Unseen(m) => Recipient[m] \in of
      BY <1>0 DEF Whose, Counting
    <3> QED BY <1>1, <3>1, <3>2, UnseenSame
  <2>4. PICK then \in Desk : then = next
    BY <1>2
  <2>5. Change(of, d, then) /\ then.at \notin {"index", "count"} /\ ~DeskAt(d, "index")
    BY <1>1, <1>2, <2>4 DEF DeskAt
  <2> QED BY <1>1, <2>2, <2>5, ChangesKeep DEF MailInv
<1> QED BY <1>7, <1>8, ArchiveTyped DEF MailInv

LEMMA ClearsKeep ==
  ASSUME MailInv, RebuildMail \/ RestartMail
  PROVE  MailInv'
<1>1. UNCHANGED <<mail, written>> /\ unread' = NoCounts
  BY DEF RebuildMail, RestartMail, ClearCounts
<1>2. desk' = desk \/ \A d \in Desks : desk'[d].at = "idle"
  BY NoDeskTyped DEF RebuildMail, RestartMail
<1>3. \A d \in Desks : Onward(d)
  BY <1>2 DEF Onward, Storing, DeskAt
<1>4. ThreadInv'
  BY <1>1, <1>3, RowsKept DEF MailInv, Marked, InTable
<1>5. CountsRight'
  BY <1>1 DEF CountsRight, NoCounts
<1>6. \A d \in Desks : Loaded(d)'
  <2>1. CASE desk' = desk
    <3>1. Beside({}) /\ \A d \in Desks : StillLoads(d, {})
      BY <1>1, <2>1, UnseenSame DEF Beside, StillLoads, DeskAt
    <3> QED BY <3>1, BesideKeeps DEF MailInv, CountInv
  <2>2. CASE \A d \in Desks : desk'[d].at = "idle"
    BY <2>2 DEF Loaded, DeskAt
  <2> QED BY <1>2, <2>1, <2>2
<1> QED BY <1>4, <1>5, <1>6, ClearTyped DEF MailInv, CountInv

LEMMA MailKept == MailInv /\ [MailboxNext]_mailVars => MailInv'
<1> SUFFICES ASSUME MailInv, [MailboxNext]_mailVars PROVE MailInv'
  OBVIOUS
<1>1. CASE UNCHANGED mailVars
  <2>1. UNCHANGED <<mail, unread, desk, written, amiss>>
    BY <1>1 DEF mailVars
  <2>2. MailboxTypeOK'
    BY <2>1 DEF MailInv, MailboxTypeOK
  <2>3. ThreadInv'
    <3>1. \A d \in Desks : Onward(d)
      BY <2>1 DEF Onward, Storing, DeskAt
    <3> QED BY <2>1, <3>1, RowsKept DEF MailInv, Marked, InTable
  <2>4. CountInv'
    <3>1. Beside({}) /\ \A d \in Desks : StillLoads(d, {})
      BY <2>1, UnseenSame DEF Beside, StillLoads, DeskAt
    <3> QED BY <2>1, <3>1, CountsKeep DEF MailInv
  <2> QED BY <2>2, <2>3, <2>4 DEF MailInv
<1>2. CASE MailboxNext
  BY <1>2, SendKeeps, ServeKeeps, MailInsertKeeps, SentKeeps, LoadKeeps, ReadOneKeeps, ReadAllKeeps,
     ArchiveKeeps, ClearsKeep DEF MailboxNext
<1> QED BY <1>1, <1>2

LEMMA MailStarts == MailboxInit => MailInv
<1> SUFFICES ASSUME MailboxInit PROVE MailInv
  OBVIOUS
<1>1. /\ mail = [m \in Mails |-> NoMail] /\ unread = NoCounts /\ amiss = {}
      /\ desk = [d \in Desks |-> NoDesk] /\ written = [m \in Mails |-> NoCount]
  BY DEF MailboxInit
<1>2. MailboxTypeOK
  BY <1>1, NoDeskTyped DEF MailboxTypeOK, NoCounts
<1>3. InTable = {} /\ Written = {} /\ \A d \in Desks : desk[d].at = "idle"
  BY <1>1, NoDeskTyped DEF InTable, Written
<1>4. ThreadInv
  BY <1>3 DEF ThreadInv, Dated, OneEach, ThreadsHeld, Storing, DeskAt
<1>5. CountInv
  BY <1>1, <1>3 DEF CountInv, CountsRight, Loaded, DeskAt, NoCounts
<1> QED BY <1>2, <1>4, <1>5 DEF MailInv

LEMMA MailAlways == MailboxSpec => []MailInv
BY MailStarts, MailKept, PTL DEF MailboxSpec

\* What the two stores of messages keep has its type, whatever their handlers do.
THEOREM MailTyped == MailboxSpec => []MailboxTypeOK
<1>1. MailInv => MailboxTypeOK
  BY DEF MailInv
<1> QED BY <1>1, MailAlways, PTL

\* However many replies are on their way and however often old messages are archived
\* beside them, a reply in the table has its parent there, in one thread.
THEOREM ThreadsStand == MailboxSpec => []ThreadsHeld
<1>1. MailInv => ThreadsHeld
  BY DEF MailInv, ThreadInv
<1> QED BY <1>1, MailAlways, PTL

\* Whatever handlers overlap, a count in the index is right unless it went wrong in one of
\* the ways amiss records.
THEOREM CountsHold == MailboxSpec => []CountsRight
<1>1. MailInv => CountsRight
  BY DEF MailInv, CountInv
<1> QED BY <1>1, MailAlways, PTL
=============================================================================
