-------------------------------- MODULE Mailbox --------------------------------
(***************************************************************************)
(* The two ways a direct message reaches the messages table, MessageStorage*)
(* of messaging/storage.rs and DirectMessageHandler of messaging/direct.rs,*)
(* with what removes rows and what counts the unread ones: the count of    *)
(* the storage's index, which only arrivals and its loads write.           *)
(***************************************************************************)
EXTENDS Naturals, FiniteSets

CONSTANTS
  Mails,       \* messages, each sent once
  Inboxes,     \* users
  Sender, Recipient,   \* of each message
  Desks,       \* handlers at work at the same time
  NoMail,      \* no row; no parent
  NoCount      \* no entry of unread_counts

\* "Sent" stands for the statuses below 3.
MailRow  == [status: {"Sent", "Read", "Deleted"}, read: BOOLEAN,
             parent: Mails \cup {NoMail}, thread: Mails]

ASSUME MailAssumption == /\ Mails # {} /\ IsFiniteSet(Mails) /\ IsFiniteSet(Desks)
                         /\ Sender \in [Mails -> Inboxes]
                         /\ Recipient \in [Mails -> Inboxes]
                         /\ NoMail \notin Mails \cup MailRow
ASSUME CountAssumption == NoCount \notin Nat

VARIABLES
  mail,        \* the rows
  unread,      \* MessageIndex.unread_counts
  desk,        \* what each handler is doing
  written,     \* history: how many messages were written before each, NoCount if unsent
  amiss        \* history: users whose count went wrong, in one of the known ways

mailVars == <<mail, unread, desk, written, amiss>>

NoDesk   == [at |-> "idle", via |-> "storage", mail |-> CHOOSE m \in Mails : TRUE,
             parent |-> NoMail, thread |-> CHOOSE m \in Mails : TRUE,
             user |-> CHOOSE u \in Inboxes : TRUE, count |-> 0, outdated |-> FALSE]
Desk     == [at: {"idle", "insert", "index", "sent", "clear", "count"}, via: {"storage", "direct"},
             mail: Mails, parent: Mails \cup {NoMail}, thread: Mails, user: Inboxes,
             count: Nat, outdated: BOOLEAN]

MailboxTypeOK ==
  /\ mail \in [Mails -> MailRow \cup {NoMail}]
  /\ unread \in [Inboxes -> Nat \cup {NoCount}]
  /\ desk \in [Desks -> Desk]
  /\ written \in [Mails -> Nat \cup {NoCount}]
  /\ amiss \subseteq Inboxes

NoCounts == [u \in Inboxes |-> NoCount]

MailboxInit ==
  /\ mail = [m \in Mails |-> NoMail]
  /\ unread = NoCounts
  /\ desk = [d \in Desks |-> NoDesk]
  /\ written = [m \in Mails |-> NoCount]
  /\ amiss = {}

InTable  == {m \in Mails : mail[m] # NoMail}
Written  == {m \in Mails : written[m] # NoCount}
DeskAt(d, place) == desk[d].at = place
Leave(d) == desk' = [desk EXCEPT ![d] = NoDesk]

\* SELECT COUNT(*): rows of the recipient with no read_at and not deleted.
Unseen(m) == m \in InTable /\ ~mail[m].read /\ mail[m].status # "Deleted"
Unread(u) == Cardinality({m \in Mails : Recipient[m] = u /\ Unseen(m)})
CountUnread_All(u) == Cardinality({m \in InTable : Recipient[m] = u /\ ~mail[m].read})
CountUnread(u) == Unread(u)

\* Handlers that have loaded the count of one of users have an outdated one from now on.
Outdated(users) ==
  [d \in Desks |-> IF DeskAt(d, "count") /\ desk[d].user \in users
                   THEN [desk[d] EXCEPT !.outdated = TRUE] ELSE desk[d]]
\* So have they when rows begin or cease to count, and so have the counts that are there.
Whose(mails) == {Recipient[m] : m \in mails}
Change(users, d, next) ==
  /\ desk' = [Outdated(users) EXCEPT ![d] = next]
  /\ amiss' = amiss \cup {u \in users : unread[u] # NoCount}
ChangeAt(users) ==
  /\ desk' = Outdated(users)
  /\ amiss' = amiss \cup {u \in users : unread[u] # NoCount}

----------------------------------------------------------------------------
(* A message arrives.                                                      *)

\* The parent is looked up, and its thread taken, when the message is built: some awaits
\* before the row is stored.
SendMail(d, m, p, via) ==
  /\ DeskAt(d, "idle")
  /\ m \notin Written
  /\ p # NoMail => p \in InTable
  /\ desk' = [desk EXCEPT ![d] =
       [NoDesk EXCEPT !.at = "insert", !.via = via, !.mail = m, !.parent = p,
                      !.thread = IF p = NoMail THEN m ELSE mail[p].thread]]
  /\ written' = [written EXCEPT ![m] = Cardinality(Written)]
  /\ UNCHANGED <<mail, unread, amiss>>

\* FOREIGN KEY (parent_id) REFERENCES messages(id).
ParentThere_Unchecked(p) == TRUE
ParentThere(p) == p = NoMail \/ p \in InTable

\* DirectMessageHandler stores a message and tells no index.
InsertMail(d) ==
  /\ DeskAt(d, "insert")
  /\ LET m == desk[d].mail
         u == Recipient[m] IN
     IF ParentThere(desk[d].parent)
     THEN /\ mail' = [mail EXCEPT ![m] = [status |-> "Sent", read |-> FALSE,
                                          parent |-> desk[d].parent, thread |-> desk[d].thread]]
          /\ IF desk[d].via = "storage"
             THEN /\ desk' = [Outdated({u}) EXCEPT ![d] = [desk[d] EXCEPT !.at = "index"]]
                  /\ UNCHANGED amiss
             ELSE Change({u}, d, NoDesk)
     ELSE Leave(d) /\ UNCHANGED <<mail, amiss>>
  /\ UNCHANGED <<unread, written>>

\* The statement fails.
MailDbError(d) ==
  /\ DeskAt(d, "insert") \/ DeskAt(d, "sent")
  /\ Leave(d)
  /\ UNCHANGED <<mail, unread, written, amiss>>

\* update_indexes_for_message: an entry that was cleared, or was never loaded, begins
\* at 1, whatever else is unread.
IndexMail(d) ==
  /\ DeskAt(d, "index")
  /\ LET u == Recipient[desk[d].mail] IN
     /\ unread' = [unread EXCEPT ![u] = IF @ = NoCount THEN 1 ELSE @ + 1]
     /\ desk' = [Outdated({u}) EXCEPT ![d] = [desk[d] EXCEPT !.at = "sent"]]
     /\ amiss' = IF unread[u] = NoCount THEN amiss \cup {u} ELSE amiss
  /\ UNCHANGED <<mail, written>>

\* update_message_status(Sent), which ends a compose: of whatever the row is by then. One
\* that was deleted counts as unread again, and the index is not told.
Revived(m) == {n \in {m} : n \in InTable /\ ~mail[n].read /\ mail[n].status = "Deleted"}
MarkSent(d) ==
  /\ DeskAt(d, "sent")
  /\ LET m == desk[d].mail IN
     /\ mail' = IF m \in InTable THEN [mail EXCEPT ![m].status = "Sent"] ELSE mail
     /\ Change(Whose(Revived(m)), d, NoDesk)
  /\ UNCHANGED <<unread, written>>

----------------------------------------------------------------------------
(* get_unread_message_count: the index, or the table and then the index.   *)

CountLoad(d, u) ==
  /\ DeskAt(d, "idle")
  /\ unread[u] = NoCount
  /\ desk' = [desk EXCEPT ![d] =
       [NoDesk EXCEPT !.at = "count", !.user = u, !.count = CountUnread(u),
                      \* One stored and not indexed yet will be counted twice.
                      !.outdated = \E e \in Desks : /\ DeskAt(e, "index")
                                                    /\ Recipient[desk[e].mail] = u]]
  /\ UNCHANGED <<mail, unread, written, amiss>>

CountStore(d) ==
  /\ DeskAt(d, "count")
  /\ LET u == desk[d].user IN
     /\ unread' = [unread EXCEPT ![u] = desk[d].count]
     /\ amiss' = IF desk[d].outdated THEN amiss \cup {u} ELSE amiss \ {u}
  /\ Leave(d)
  /\ UNCHANGED <<mail, written>>

----------------------------------------------------------------------------
(* Rows are read, deleted and removed; the counts stay.                    *)

\* read_at, and CASE WHEN status < 3 THEN 3 ELSE status.
ReadRow(r) == [r EXCEPT !.read = TRUE, !.status = IF @ = "Sent" THEN "Read" ELSE @]

Counting(mails) == {m \in mails : Unseen(m)}

\* mark_message_read of the storage.
ReadOne(m) ==
  /\ m \in InTable /\ ReadRow(mail[m]) # mail[m]
  /\ mail' = [mail EXCEPT ![m] = ReadRow(@)]
  /\ ChangeAt(Whose(Counting({m})))
  /\ UNCHANGED <<unread, written>>

\* mark_conversation_messages_read.
ReadConversation(u, from) ==
  LET new == {m \in InTable : Recipient[m] = u /\ Sender[m] = from /\ ~mail[m].read} IN
  /\ new # {}
  /\ mail' = [m \in Mails |-> IF m \in new THEN ReadRow(mail[m]) ELSE mail[m]]
  /\ ChangeAt(Whose(Counting(new)))
  /\ UNCHANGED <<unread, written>>

\* update_message_status(Deleted).
DeleteMail(m) ==
  /\ m \in InTable /\ mail[m].status # "Deleted"
  /\ mail' = [mail EXCEPT ![m].status = "Deleted"]
  /\ ChangeAt(Whose(Counting({m})))
  /\ UNCHANGED <<unread, written>>

\* delete_old_messages keeps the messages that were read, and those above them in a
\* thread: a foreign key that would break fails the statement, and archiving with it.
Old(k)        == {m \in InTable : written[m] < k /\ mail[m].status # "Read"}
Purgeable_Unchecked(gone) == TRUE
Purgeable(gone) == \A m \in InTable \ gone : mail[m].parent \notin gone
ArchiveMail(d, k) ==
  /\ DeskAt(d, "idle")
  /\ Old(k) # {} /\ Purgeable(Old(k))
  /\ mail' = [m \in Mails |-> IF m \in Old(k) THEN NoMail ELSE mail[m]]
  /\ Change(Whose(Counting(Old(k))), d, [NoDesk EXCEPT !.at = "clear"])
  /\ UNCHANGED <<unread, written>>

\* rebuild_indexes clears: after archiving, and by the hourly maintenance.
ClearCounts == /\ unread' = NoCounts
               /\ amiss' = {}
RebuildAfter(d) ==
  /\ DeskAt(d, "clear")
  /\ ClearCounts
  /\ Leave(d)
  /\ UNCHANGED <<mail, written>>
RebuildMail ==
  /\ unread # NoCounts
  /\ ClearCounts
  /\ UNCHANGED <<mail, desk, written>>

RestartMail ==
  /\ ClearCounts
  /\ desk' = [d \in Desks |-> NoDesk]
  /\ UNCHANGED <<mail, written>>

----------------------------------------------------------------------------
MailboxNext ==
  \/ \E d \in Desks :
       \/ \E m \in Mails, p \in Mails \cup {NoMail}, via \in {"storage", "direct"} :
            SendMail(d, m, p, via)
       \/ InsertMail(d) \/ MailDbError(d) \/ IndexMail(d) \/ MarkSent(d)
       \/ \E u \in Inboxes : CountLoad(d, u)
       \/ CountStore(d)
       \/ \E k \in 1..Cardinality(Mails) : ArchiveMail(d, k)
       \/ RebuildAfter(d)
  \/ \E m \in Mails : ReadOne(m) \/ DeleteMail(m)
  \/ \E u, from \in Inboxes : ReadConversation(u, from)
  \/ RebuildMail \/ RestartMail

MailboxSpec == MailboxInit /\ [][MailboxNext]_mailVars

----------------------------------------------------------------------------
(* Properties.                                                             *)

\* A reply has its parent in the table, and the thread of it, up to the message that
\* names the thread, whatever archiving removes while the reply is on its way.
ThreadsHeld ==
  \A m \in InTable :
    LET p == mail[m].parent IN
    IF p = NoMail THEN mail[m].thread = m
    ELSE p \in InTable /\ mail[p].thread = mail[m].thread /\ written[p] < written[m]

\* The count that the index serves is the number of unread messages, but for those on
\* their way into the index, unless it began with an arrival, was loaded beside one, or
\* stayed as it was when an unread message was read, deleted, archived, sent past the
\* index, or made Sent again after it was deleted. It goes wrong in no other way; and after
\* the index has been cleared, a load that nothing disturbs is right.
Arriving(u) == Cardinality({d \in Desks : DeskAt(d, "index") /\ Recipient[desk[d].mail] = u})
CountsRight ==
  \A u \in Inboxes :
    unread[u] # NoCount /\ u \notin amiss => unread[u] + Arriving(u) = Unread(u)

\* What the tests say: reading a message that counts lowers the count that is served.
ReadingLowers ==
  [][\A m \in Mails :
       ReadOne(m) /\ Unseen(m) =>
         LET u == Recipient[m] IN
         unread[u] # NoCount => unread'[u] = NoCount \/ unread'[u] < unread[u]]_mailVars
=============================================================================
