---------------------------- MODULE MessageSystem ----------------------------
(***************************************************************************)
(* MessageSystem of messaging/mod.rs, over the messages table it writes    *)
(* through MessageStorage: composing, fetching, listing, reading and       *)
(* deleting messages, each handler cut at its awaits, next to the          *)
(* background loop, the storage maintenance and process restarts. What     *)
(* writes the same table past it (direct.rs, the retention) is in Mailbox. *)
(*                                                                         *)
(* A message id stands for one call of compose_message, which is given a   *)
(* fresh UUID and one of Requests.                                         *)
(***************************************************************************)
EXTENDS Naturals, FiniteSets

CONSTANTS
  Clients,     \* tasks that run handlers, one call at a time each
  Messages,    \* message ids
  Users,
  Admins,      \* users whose role is Administrator
  Members,     \* users that are members of the (one) group
  Moderators,  \* users that may moderate it
  Requests,    \* the requests clients may submit
  Calls,       \* the kinds of call clients make: all of AllCalls but for a bound
  MaxCache,    \* MessageCache.max_size
  None

\* MessageStatus, by the numbers the table stores. Delivered (2) and Failed (4)
\* are never written by this component.
Pending == 0
Sent    == 1
Read    == 3
Deleted == 5
Status  == {Pending, Sent, Read, Deleted}

\* hash stands for (sender, body, second); long: the body has 256 bytes or more;
\* compress: delivery_options.compress. A direct request that names only a
\* callsign has recipient None. Emergency and System messages, admitted by the
\* validator and the sender's role, are handled alike afterwards: "Broadcast".
RequestType ==
  [kind: {"Direct", "Group", "Broadcast"}, sender: Users,
   recipient: Users \cup {None}, hash: STRING, long: BOOLEAN, compress: BOOLEAN]

AllCalls == {"compose", "get", "list", "read", "delete"}

ASSUME RequestAssumption == Requests \subseteq RequestType /\ Requests # {}
ASSUME CallAssumption    == Calls \subseteq AllCalls
ASSUME CacheAssumption   == MaxCache \in Nat \ {0}
ASSUME NoneAssumption    == None \notin Messages \cup Status

VARIABLES
  row,       \* the messages table, with the fields a compose has fixed so far
  byHash,    \* MessageIndex.by_hash: the hashes it knows
  recent,    \* MessageCache.recent_messages
  tasks,     \* delivery_tasks: ids whose task is Pending and due
  call,      \* the call each client is in, and its locals
  outcome,   \* history: how the compose of an id went
  composer   \* history: the client that composed an id

vars == <<row, byHash, recent, tasks, call, outcome, composer>>

At ==
  {"idle", "check_hash", "store", "index", "cache_new", "queue", "mark_sent",
   "load", "fill", "fill_list", "mark_read", "mark_deleted", "invalidate"}

\* An entry's age: served while "fresh" (under 300 s), swept once "old" (an hour).
Age   == {"fresh", "stale", "old"}
Entry == [status: Status, age: Age]

Row  == [stored: BOOLEAN, req: Requests, status: Status, read: BOOLEAN,
         parent: Messages \cup {None}, thread: Messages]
Call == [at: At, msg: Messages \cup {None}, seen: [Messages -> Status \cup {None}]]

Nothing == [m \in Messages |-> None]
Idle    == [at |-> "idle", msg |-> None, seen |-> Nothing]

TypeOK ==
  /\ row \in [Messages -> Row]
  /\ byHash \subseteq STRING
  /\ recent \in [Messages -> Entry \cup {None}]
  /\ tasks \subseteq Messages
  /\ call \in [Clients -> Call]
  /\ outcome \in [Messages -> {"unsent", "composing", "accepted", "failed"}]
  /\ composer \in [Messages -> Clients \cup {None}]

Init ==
  /\ row = [m \in Messages |-> [stored |-> FALSE, req |-> CHOOSE q \in Requests : TRUE,
                                status |-> Pending, read |-> FALSE,
                                parent |-> None, thread |-> m]]
  /\ byHash = {}
  /\ recent = Nothing
  /\ tasks = {}
  /\ call = [c \in Clients |-> Idle]
  /\ outcome = [m \in Messages |-> "unsent"]
  /\ composer = [m \in Messages |-> None]

----------------------------------------------------------------------------
(* What the storage layer does with a row.                                 *)

\* compress_message_if_needed: only a long body is really encoded, but the flag
\* the request asked for is stored with it either way.
Encoded(m) == row[m].req.long
Flagged(m) == Encoded(m) \/ row[m].req.compress

\* decompress_message_if_needed fails on a flagged body that was never encoded.
Readable(m) == Flagged(m) => Encoded(m)

\* storage.get_message finds the row (deleted ones too) and can decode it.
Fetched_Undecoded(m) == row[m].stored
Fetched(m) == row[m].stored /\ Readable(m)

Stored == {m \in Messages : row[m].stored}

\* message_exists_by_hash: the index, then the table.
HashKnown_IndexOnly(h) == h \in byHash
HashKnown(h) == h \in byHash \/ \E m \in Stored : row[m].req.hash = h

\* UPDATE ... SET read_at, status = CASE WHEN status < 3 THEN 3 ELSE status.
MarkReadRow_Always(m) ==
  row' = [row EXCEPT ![m].read = TRUE, ![m].status = Read]
MarkReadRow(m) ==
  row' = [row EXCEPT ![m].read = TRUE,
                     ![m].status = IF @ < Read THEN Read ELSE @]

\* UPDATE ... SET status: whatever the status was.
SetStatusRow_Shifted(m, s) == row' = [row EXCEPT ![m].status = s + 1]
SetStatusRow(m, s) == row' = [row EXCEPT ![m].status = s]

----------------------------------------------------------------------------
(* What a user may do with a message.                                      *)

ValidRequest(q) == q.kind = "Group" => q.sender \in Members

CanAccess(u, m) ==
  row[m].req.kind = "Direct" => u \in {row[m].req.sender, row[m].req.recipient}

CanMarkRead(u, m) ==
  \/ row[m].req.kind = "Direct" /\ row[m].req.recipient = u
  \/ row[m].req.kind = "Group" /\ u \in Members

CanDelete(u, m) ==
  \/ u = row[m].req.sender
  \/ u \in Admins
  \/ row[m].req.kind = "Group" /\ u \in Moderators

----------------------------------------------------------------------------
(* The message cache.                                                      *)

Cached == {m \in Messages : recent[m] # None}

\* update_message_cache: insert, and above max_size drop the oldest entries. Which
\* of the others is oldest is left open; the one just inserted is the newest.
Insert(m, s) ==
  LET keep == {K \in SUBSET (Cached \cup {m}) :
                 /\ m \in K
                 /\ IF Cardinality(Cached \cup {m}) > MaxCache
                    THEN Cardinality(K) = MaxCache
                    ELSE K = Cached \cup {m}}
  IN \E K \in keep :
       recent' = [n \in Messages |->
                    IF n = m THEN [status |-> s, age |-> "fresh"]
                    ELSE IF n \in K THEN recent[n] ELSE None]

\* cache_messages: insert a whole listing, with no look at max_size.
InsertAll(seen) ==
  recent' = [n \in Messages |-> IF seen[n] # None
                                THEN [status |-> seen[n], age |-> "fresh"]
                                ELSE recent[n]]

Served_NoExpiry(m) == recent[m] # None
Served(m) == recent[m] # None /\ recent[m].age = "fresh"

----------------------------------------------------------------------------
(* Moving a client through its call.                                       *)

In(c, at)    == call[c].at = at
Msg(c)       == call[c].msg
Begin(c, at, m) == call' = [call EXCEPT ![c] = [Idle EXCEPT !.at = at, !.msg = m]]
Goto(c, at)  == call' = [call EXCEPT ![c].at = at]
Return(c)    == call' = [call EXCEPT ![c] = Idle]
Ends(c, how) == outcome' = [outcome EXCEPT ![Msg(c)] = how]

----------------------------------------------------------------------------
(* compose_message.                                                        *)

\* A reply joins its parent's thread.
ThreadFor_Parent(m, p) == IF p = None THEN m ELSE p
ThreadFor(m, p) == IF p = None THEN m ELSE row[p].thread

\* The message object, whose other fields are still the initial ones.
BuildRow(m, q, p) ==
  row' = [row EXCEPT ![m].req = q, ![m].parent = p, ![m].thread = ThreadFor(m, p)]

\* The validation, which has no effect when it refuses: a parent must be fetched.
ComposeStart(c, m, q, p) ==
  /\ In(c, "idle") /\ "compose" \in Calls
  /\ outcome[m] = "unsent"
  /\ ValidRequest(q)
  /\ p # None => Fetched(p)
  /\ BuildRow(m, q, p)
  /\ Begin(c, "check_hash", m)
  /\ outcome' = [outcome EXCEPT ![m] = "composing"]
  /\ composer' = [composer EXCEPT ![m] = c]
  /\ UNCHANGED <<byHash, recent, tasks>>

\* The index is read, then the table; every indexed hash is in the table, so the
\* answer is the one of the table at the second read.
CheckHash(c) ==
  /\ In(c, "check_hash")
  /\ IF HashKnown(row[Msg(c)].req.hash)
     THEN Return(c) /\ Ends(c, "failed")
     ELSE Goto(c, "store") /\ UNCHANGED outcome
  /\ UNCHANGED <<row, byHash, recent, tasks, composer>>

\* INSERT INTO messages, with no uniqueness on message_hash.
StoreRow(c) ==
  /\ In(c, "store")
  /\ row' = [row EXCEPT ![Msg(c)].stored = TRUE]
  /\ Goto(c, "index")
  /\ UNCHANGED <<byHash, recent, tasks, outcome, composer>>

IndexRow(c) ==
  /\ In(c, "index")
  /\ byHash' = byHash \cup {row[Msg(c)].req.hash}
  /\ Goto(c, "cache_new")
  /\ UNCHANGED <<row, recent, tasks, outcome, composer>>

\* The composed message is cached as it was built: Pending.
CacheNew(c) ==
  /\ In(c, "cache_new")
  /\ Insert(Msg(c), Pending)
  /\ Goto(c, "queue")
  /\ UNCHANGED <<row, byHash, tasks, outcome, composer>>

QueueDelivery(c) ==
  /\ In(c, "queue")
  /\ tasks' = tasks \cup {Msg(c)}
  /\ Goto(c, "mark_sent")
  /\ UNCHANGED <<row, byHash, recent, outcome, composer>>

\* The unconditional status update that ends initiate_delivery.
MarkSent_Skipped(c) ==
  /\ In(c, "mark_sent")
  /\ Return(c)
  /\ Ends(c, "accepted")
  /\ UNCHANGED <<row, byHash, recent, tasks, composer>>
MarkSent(c) ==
  /\ In(c, "mark_sent")
  /\ SetStatusRow(Msg(c), Sent)
  /\ Return(c)
  /\ Ends(c, "accepted")
  /\ UNCHANGED <<byHash, recent, tasks, composer>>

----------------------------------------------------------------------------
(* get_message and get_messages. A get_message that the cache serves, or    *)
(* that the access check refuses in the end, changes nothing.              *)

GetMiss(c, m, u) ==
  /\ In(c, "idle") /\ "get" \in Calls
  /\ row[m].stored
  /\ CanAccess(u, m) /\ ~Served(m)
  /\ Begin(c, "load", m)
  /\ UNCHANGED <<row, byHash, recent, tasks, outcome, composer>>

\* storage.get_message: a body that cannot be decoded ends the call.
GetLoad(c) ==
  /\ In(c, "load")
  /\ IF Fetched(Msg(c))
     THEN call' = [call EXCEPT ![c].at = "fill",
                               ![c].seen[Msg(c)] = row[Msg(c)].status]
     ELSE Return(c)
  /\ UNCHANGED <<row, byHash, recent, tasks, outcome, composer>>

GetFill(c) ==
  /\ In(c, "fill")
  /\ Insert(Msg(c), call[c].seen[Msg(c)])
  /\ Return(c)
  /\ UNCHANGED <<row, byHash, tasks, outcome, composer>>

\* The rows get_user_messages and get_group_messages select, deleted ones excluded.
Inbox(u)  == {m \in Stored : /\ u \in {row[m].req.sender, row[m].req.recipient}
                             /\ row[m].status # Deleted}
GroupRows == {m \in Stored : row[m].req.kind = "Group" /\ row[m].status # Deleted}

\* One page of such a listing (limit, offset and the query's filters left open), with
\* no access check. One undecodable row fails the whole call.
ListLoad(c, page) ==
  /\ In(c, "idle") /\ "list" \in Calls
  /\ page # {}
  /\ \A m \in page : Readable(m)
  /\ call' = [call EXCEPT ![c] =
       [Idle EXCEPT !.at = "fill_list",
                    !.seen = [m \in Messages |->
                                IF m \in page THEN row[m].status ELSE None]]]
  /\ UNCHANGED <<row, byHash, recent, tasks, outcome, composer>>

ListFill(c) ==
  /\ In(c, "fill_list")
  /\ InsertAll(call[c].seen)
  /\ Return(c)
  /\ UNCHANGED <<row, byHash, tasks, outcome, composer>>

----------------------------------------------------------------------------
(* mark_message_read and delete_message.                                   *)

ReadStart(c, m, u) ==
  /\ In(c, "idle") /\ "read" \in Calls
  /\ Fetched(m) /\ CanAccess(u, m) /\ CanMarkRead(u, m)
  /\ Begin(c, "mark_read", m)
  /\ UNCHANGED <<row, byHash, recent, tasks, outcome, composer>>

MarkRead(c) ==
  /\ In(c, "mark_read")
  /\ MarkReadRow(Msg(c))
  /\ Goto(c, "invalidate")
  /\ UNCHANGED <<byHash, recent, tasks, outcome, composer>>

DeleteStart(c, m, u) ==
  /\ In(c, "idle") /\ "delete" \in Calls
  /\ Fetched(m) /\ CanDelete(u, m)
  /\ Begin(c, "mark_deleted", m)
  /\ UNCHANGED <<row, byHash, recent, tasks, outcome, composer>>

MarkDeleted(c) ==
  /\ In(c, "mark_deleted")
  /\ SetStatusRow(Msg(c), Deleted)
  /\ Goto(c, "invalidate")
  /\ UNCHANGED <<byHash, recent, tasks, outcome, composer>>

\* invalidate_message_cache, which ends both handlers.
Invalidate(c) ==
  /\ In(c, "invalidate")
  /\ recent' = [recent EXCEPT ![Msg(c)] = None]
  /\ Return(c)
  /\ UNCHANGED <<row, byHash, tasks, outcome, composer>>

----------------------------------------------------------------------------
(* Failures, the background loop, maintenance, time and restarts.          *)

\* The steps that await the database; any of them may return an error.
DbSteps == {"check_hash", "store", "queue", "mark_sent", "load", "mark_read", "mark_deleted"}

\* `?` leaves the handler where it is, undoing nothing.
DbError(c) ==
  /\ call[c].at \in DbSteps
  /\ IF outcome[Msg(c)] = "composing" /\ composer[Msg(c)] = c
     THEN Ends(c, "failed")
     ELSE UNCHANGED outcome
  /\ Return(c)
  /\ UNCHANGED <<row, byHash, recent, tasks, composer>>

\* process_pending_deliveries: every task is Pending and due, is completed and removed.
ProcessDeliveries ==
  /\ tasks # {}
  /\ tasks' = {}
  /\ UNCHANGED <<row, byHash, recent, call, outcome, composer>>

CleanupCache ==
  /\ \E m \in Cached : recent[m].age = "old"
  /\ recent' = [m \in Messages |-> IF m \in Cached /\ recent[m].age = "old"
                                   THEN None ELSE recent[m]]
  /\ UNCHANGED <<row, byHash, tasks, call, outcome, composer>>

\* rebuild_indexes, run by every maintenance: clears the index and refills nothing.
RebuildIndexes ==
  /\ byHash # {}
  /\ byHash' = {}
  /\ UNCHANGED <<row, recent, tasks, call, outcome, composer>>

\* Time passes for a cache entry.
GrowOld(m) ==
  /\ m \in Cached /\ recent[m].age # "old"
  /\ recent' = [recent EXCEPT ![m].age = IF @ = "fresh" THEN "stale" ELSE "old"]
  /\ UNCHANGED <<row, byHash, tasks, call, outcome, composer>>

\* The process stops and starts again: the table alone survives.
Restart ==
  /\ byHash' = {}
  /\ recent' = Nothing
  /\ tasks' = {}
  /\ call' = [c \in Clients |-> Idle]
  /\ outcome' = [m \in Messages |-> IF outcome[m] = "composing" THEN "failed"
                                    ELSE outcome[m]]
  /\ UNCHANGED <<row, composer>>

----------------------------------------------------------------------------

\* A step of a call in progress: locks and queries are eventually served.
Progress(c) ==
  \/ CheckHash(c) \/ StoreRow(c) \/ IndexRow(c) \/ CacheNew(c)
  \/ QueueDelivery(c) \/ MarkSent(c)
  \/ GetLoad(c) \/ GetFill(c) \/ ListFill(c)
  \/ MarkRead(c) \/ MarkDeleted(c) \/ Invalidate(c)

Start(c) ==
  \/ \E m \in Messages, q \in Requests, p \in Messages \cup {None} :
       ComposeStart(c, m, q, p)
  \/ \E m \in Messages, u \in Users :
       GetMiss(c, m, u) \/ ReadStart(c, m, u) \/ DeleteStart(c, m, u)
  \/ \E u \in Users : \E page \in SUBSET Inbox(u) : ListLoad(c, page)
  \/ \E page \in SUBSET GroupRows : ListLoad(c, page)

Next ==
  \/ \E c \in Clients : Start(c) \/ Progress(c) \/ DbError(c)
  \/ ProcessDeliveries \/ CleanupCache \/ RebuildIndexes \/ Restart
  \/ \E m \in Messages : GrowOld(m)

Spec == Init /\ [][Next]_vars

Fairness ==
  /\ \A c \in Clients : WF_vars(Progress(c))
  /\ \A m \in Messages : WF_vars(GrowOld(m))

FairSpec == Spec /\ Fairness

----------------------------------------------------------------------------
(* Properties.                                                             *)

\* Once the compose of a message has ended, its status only moves forward
\* (Pending, Sent, Read, Deleted): no late writer of any call revives a deleted
\* message or makes a read one unread.
StatusForward ==
  [][\A m \in Messages :
       outcome[m] # "composing" => row'[m].status >= row[m].status]_vars

\* A compose that reported success left a stored row that was marked Sent, whatever
\* other calls, restarts and maintenance did meanwhile and since.
AcceptedIsSent ==
  \A m \in Messages :
    outcome[m] = "accepted" => row[m].stored /\ row[m].status >= Sent

\* Replies share the thread of their parent, and a thread is named by a message
\* that is stored (or is the one being composed) and starts it.
ThreadsRooted ==
  \A m \in Messages : outcome[m] # "unsent" =>
    LET p == row[m].parent  t == row[m].thread IN
    /\ IF p = None THEN t = m ELSE row[p].stored /\ row[p].thread = t
    /\ t # m => row[t].stored
    /\ row[t].parent = None /\ row[t].thread = t

\* The check for a duplicate and the insert are two steps, so two rows may carry one
\* hash; but only when two clients' composes overlapped: no client ever stores the
\* same hash twice, however often the index is cleared or the process restarted.
DuplicateNeedsOverlap ==
  \A m, n \in Stored :
    m # n /\ row[m].req.hash = row[n].req.hash => composer[m] # composer[n]

\* No handler of messaging/mod.rs marks read, deletes or takes as a parent a message whose
\* body cannot be decoded: each fetches it first. Others do not fetch: direct.rs marks a
\* whole conversation read (789), direct.rs and groups.rs look up a parent undecoded, and
\* archiving deletes any old row (Mailbox).
UnreadableUnhandled ==
  \A m \in Messages : ~Readable(m) =>
    /\ ~row[m].read
    /\ row[m].status \in {Pending, Sent}
    /\ \A n \in Messages : row[n].parent # m

\* What the rest of the system builds on (MessageBoard): whatever composes, reads, deletes,
\* fails and restarts overlap, the table shows a board on which messages are posted once,
\* in standing threads, and only move on, as far as the handlers of this module go.
Standing(m) == IF outcome[m] = "composing" THEN "open" ELSE outcome[m]
Body(m) == IF Readable(m) THEN "plain" ELSE "sealed"
Board == INSTANCE MessageBoard WITH
  post <- [m \in Messages |->
             IF row[m].stored
             THEN [status |-> row[m].status, thread |-> row[m].thread,
                   body |-> Body(m), standing |-> Standing(m)]
             ELSE [status |-> Pending, thread |-> m, body |-> "plain", standing |-> "none"]]
Promise == Board!BoardSpec

\* What the handlers' tests take for granted: a message that was accepted can be
\* fetched again.
AcceptedIsFetchable ==
  \A m \in Messages : outcome[m] = "accepted" => Fetched(m)

\* Serving a deleted message as if it were not is temporary: late cache fills and
\* the 300 s of an entry run out.
ServesDeleted(m) == Served(m) /\ recent[m].status # Deleted
DeletionSeen ==
  \A m \in Messages :
    (<>[](row[m].status = Deleted)) => <>[](~ServesDeleted(m))

=============================================================================
