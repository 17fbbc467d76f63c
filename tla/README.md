# OffGridComm in TLA+

TLA+ models of OffGridComm, a message server for radio and off-grid networks
written in Rust. The modules are translated from the code under `src/src/`; TLC
checks them on small instances and TLAPS proves the theorems of the `_proofs`
modules for all of them. `PROJECT.json` maps every definition to the lines it
stands for.

## The system

One process (`main.rs`) opens a SQLite database, migrates it, and starts the
services of its mode on a multi-threaded tokio runtime. Services call each other
directly; every handler is `async`, any number of them run at once, and each
`.await` is a point where the others may run. State is shared through
`Arc<RwLock<..>>` maps, one lock per map, and through the database, one statement
at a time. What is in a map is lost when the process stops.

| Component | State | Operations | Correct when |
|---|---|---|---|
| Message system `messaging/mod.rs` | message cache, delivery tasks; the rows of `messages` through the storage | compose, get, list, mark read, delete, background loop | a message accepted is stored and Sent; its status moves forward; replies share a root; a deletion shows |
| Message storage `messaging/storage.rs` | indexes (hashes, unread counts), statistics, clean-up tasks | store, get, mark read, status, exists-by-hash, unread counts, archive, maintenance | what it stores it can return; counts agree with the table; maintenance neither blocks itself nor loses what it indexes |
| Queries `database/queries.rs` | the tables | one SQL statement each | a statement changes the rows its caller means |
| Session manager `auth/session.rs` | map from token to session | create, validate, extend, invalidate, sweep | the per-user limit, the life of a session, no revival |
| Authentication `auth/mod.rs` | login attempts per callsign; users | login, register, change password, role and status, cleanup | lockout after the failures configured; an administrator remains; a changed password ends old sessions |
| Network manager `network/mod.rs` | peer table, statistics, two locks | connect, send, broadcast, disconnect, peer health, statistics loop | no circular wait; one connection per peer; counters agree |
| Migrations `database/migrations.rs` | schema, migration table, version | run, rollback, reset | the version says what the schema is, after a stop too |
| Database `database/mod.rs` | user, licence and node caches, pool | users, node identity, licences, backup | a cached user is a current one once its entry has expired; a node has one identity |
| Groups `messaging/groups.rs` | memberships, group and permission caches | create, join, leave, invite, roles | a group has an owner; one membership per member |
| Direct `messaging/direct.rs` | conversation cache, typing indicators | send, conversations, typing, read | a reply stays with its thread |
| Notifications `terminal/notifications.rs` | queue, preferences, subscriptions | notify, process pending, preferences | deliveries are bounded; preferences are those last set |
| Callsigns `auth/callsign.rs` | the table and the memory of licences | verify, clean up | the licence source is asked only for what is old |
| Processes `main.rs` | the command of each, the file they share | serve, setup, migrate, import | setup gives one identity, and starting does no harm |
| Passwords, configuration, models, utilities | | pure functions | (not about behaviour over time) |

Handlers meet in these places, which is where the hazards of `PROJECT.json` lie:
a check and the write it was for, with an await between them (duplicate texts,
session limit, last administrator, last owner); a value loaded before, and cached
after, somebody else's update; a sequence of writes without a transaction, of
which only the first happen; an unconditional write at the end of a long handler;
two locks taken in two orders; and clocks (expiry, lockout, cache ages) that pass
between two looks.

Files that are empty at this commit (the validator, the radio and protocol
modules, the web interface, the screens, the tests and the documents) are
components with nothing to model. The crate does not compile as it stands,
because it refers to types of such files; the models take each function as it is
written.

## Modules

### MessageSystem

| TLA+ | Code |
|---|---|
| `row` | the `messages` table: for each id the request it was built from, `status`, `read_at` set or not, parent and thread; `stored` says whether the row has been inserted |
| `byHash` | `MessageIndex.by_hash` |
| `recent` | `MessageCache.recent_messages`: the status of the cached copy and its age (`fresh` under the 300 s it is served for, `old` once the hourly sweep removes it) |
| `tasks` | `delivery_tasks` |
| `call` | what each client is executing: the point it is at, the message, the rows it has loaded (`seen`) |
| `outcome`, `composer` | history: how the compose of an id went, and who made it |

A message id is one call of `compose_message`, which draws a fresh UUID. Every
handler is cut at its awaits: `ComposeStart, CheckHash, StoreRow, IndexRow,
CacheNew, QueueDelivery, MarkSent`; `GetMiss, GetLoad, GetFill`; `ListLoad,
ListFill`; `ReadStart, MarkRead, Invalidate`; `DeleteStart, MarkDeleted,
Invalidate`. A refused call changes nothing and has no action. `DbError` is `?`:
any awaited statement may fail, and the handler stops where it is.
`ProcessDeliveries`, `CleanupCache` and `RebuildIndexes` are the background loop
and the maintenance; `Restart` empties everything but the table.

Abstractions: a text is its hash (sender, body and second together), whether it
is long enough to be encoded, and the options it was sent with; there is one
group; emergency, system and bulletin messages go the way of `Broadcast` or
`Group` once admitted; a page of a listing is any non-empty set of the rows the
query selects, which covers every limit, offset and filter. The unread counts,
the statistics and the event channel are not in this module.

### MessageBoard

The abstract specification of the handlers of `messaging/mod.rs`: `post` has of each message its
status, its thread, whether anybody can decode it (`sealed` if not), and the standing
of its post (`open` while the composer waits for an answer). A message is posted once,
in its own thread or one that a decodable posted message is in (`Publish`); it is
answered once, by success (`Accept`, which makes it Sent whatever it was, as
`initiate_delivery` does) or by an error or a stop (`Abandon`); otherwise it only moves
forward (`MoveOn`), and only if it can be decoded. `MessageSystem` instantiates it with
the stored rows and the outcomes of their composes for `post`; cache, index, tasks and
handlers under way are hidden. `Promise` says that every behaviour is one of the board.

This is a promise of these handlers, each of which fetches a message before it builds on
it, and not of the crate: `direct.rs` marks a whole conversation read without decoding it
(789), it and `groups.rs` look up a parent undecoded (direct.rs:528, groups.rs:845), and
archiving deletes any old row. Those are in Mailbox, which has no bodies. So
`UnreadableUnhandled` and `MoveOn` say nothing of a row that they touch.

### SessionManager

`session[t]` is the session of token `t`: nowhere (`free`), `built` and `checked`
by a `create_session_with_params` in progress, or in the map (`live`); `left` is
`expires_at - now`, so that `TickSessions` takes one from every session. `Build, Check,
InsertSession` are the three parts of a create, separated by two lock acquisitions; the
other handlers do everything under one write lock and are one action each. A
token that left the map may serve again, which stands for a fresh UUID. A
validation that changes neither `expires_at` nor the map is a stutter
(`last_activity` and metadata decide nothing). `Cleanup` may run and need not: its loop
(session.rs:541) and `AuthSystem::cleanup` are there for whoever embeds the crate, and
nothing in it starts them.

`session_timeout`, which becomes the default duration, is not checked against
the 30 days of `max_duration`: the instance has a longer default on purpose.

### NetworkManager, RwLocks

| TLA+ | Code |
|---|---|
| `peers` | the `peers` table: callsign, status, and whether `last_activity` is 300 s ago (nothing renews it) |
| `stats` | `connection_attempts`, `successful_connections`, `failed_connections`, `connected_peers` |
| `lock` | the two `RwLock`s: what each task wants of each, and who asked before it |
| `task` | where the statistics loop, the peer manager and each client are, and the peer or configured peer they are busy with (`on`) and have left (`todo`) |

`RwLocks` is tokio's lock as the code uses it: fair, so that a reader behind a
waiting writer waits too. Every handler is cut where it waits: an action that ends
in `Wants(t, released, l, ..)` drops the guards the code drops and asks for `l`,
and the next action of the task needs `Has(t, l)`. So `send_to_peer` is `Send`
(ask for the table), `Find` (look, keep the table, ask for the statistics) and
`CountSent`; `connect_to_peers` is `Look, Attempt, Dial, Add, CountOk` or
`CountFailed` for each configured peer; the statistics loop is `Tick, Uptime,
CountPeers`. `Dial` is the attempt to connect, which may fail at any time.

Abstractions: the manager is there only with a radio interface, as in `run`; the
order of the configured peers and of a broadcast is open; the counters of messages
and bytes, which nothing reads, are left out, and so is a broadcast's result. In
the code's order a guard is released at the end of its block, where nothing
awaits.

### AuthSystem, Permits

| TLA+ | Code |
|---|---|
| `row` | the `users` table by callsign: password, administrator or not, active or not; `None` for no row |
| `cached` | `DatabaseCache.users`: the copy, and whether it is `fresh` (under the 300 s for which it is read). Only `create_user` puts one there; writes renew it |
| `attempts` | `login_attempts`: the count, and the time left of the lock (`locked` says that there was one) |
| `call` | what each client is executing, for whom and with what |
| `holder` | the sessions, as `Permits` has them |
| `proof`, `guesses`, `raced` | history: the password a session was granted for; the passwords tried for a user under the lock; which races a user has been in |

A look at a user is one step if the cache has a fresh copy and two if not (`Miss`,
then the query), so that the answer may be another than the one the cache had.
`authenticate` is `Login` (the look at the lock), `Find, Verify,
ClearFailedAttempts, CreateSession, UpdateLastLogin`, or `RecordFailedAttempt`;
`register` is `Exists, InsertUser, KeepUser`; `change_password` is `CheckOld,
SetPassword, KeepPassword, EndSessions`; `update_user_status` is `SetStatus,
DropCopy`; `update_user_role` is `CountAdmins, RoleOf, SetRole, DropCopy`.
A call that is refused before it waits has no action.

`Permits` is what AuthSystem needs of the session manager, and the abstract
specification that SessionManager implements (`PermitPromise`): a token is one user's
from grant to withdrawal, and grants are bounded. AuthSystem extends it and takes
its steps (`Grant`, `Withdraw`), so that logins need not know about expiry.

Abstractions: a callsign is the user, and one nobody has is a user without a row;
hashing compares passwords; roles below administrator are one, and so are all
states but Active; the licence look-up of a registration has any answer; the count
of failures is kept up to `max_login_attempts`, beyond which it makes no
difference. An administrator's call needs the role at the time the caller was looked
up, which may be long ago, so that it is not asked of the table.

### Migrations, NodeStart

| TLA+ | Code |
|---|---|
| `objects`, `filled` | the tables and indexes there are, and which of those that matter have rows |
| `applied`, `version` | `schema_migrations`, and the version in `schema_metadata` |
| `job` | what each process that has the file open is doing: `ensure, version, up` in `run_migrations`, `down` in `rollback_to_version`, `drop` in `reset_database`, `serving` when it has migrated; `met` (history) says of a run that another one overlapped it |
| `nodes`, `copy` | the rows of `nodes`, and `node_cache` of each process |
| `command` | what each process was started for, and how far a setup has come |
| `undos`, `harm`, `forced`, `together` | history: rollbacks and resets, how they went wrong (stopped midway, or beside another job), setups with `--force` or at once |

`run_migrations` is one action for each transaction (`EnsureMigrationTable,
ReadVersion, ApplyMigration`), a rollback one for each migration and one for the
version, a reset one for each `DROP TABLE`, and a process may stop, or another one
come, between any two. The statements of a transaction succeed or fail by what is
there: a `CREATE` without `IF NOT EXISTS`, an index over a missing table, a
`DROP TABLE` whose rows others refer to. `NodeStart` extends `Migrations` with
commands: `Launch` migrates first, as every command does; `CheckNode` and
`InitializeNode` are the two halves of a setup; `GetNodeInfo` caches what a server
finds. Nothing in the crate calls `rollback_to_version` or `reset_database`;
`Undo` is a program of its own that does, and a process with another command does not.

### Groups

| TLA+ | Code |
|---|---|
| `groups`, `member`, `posts` | `groups`, `group_memberships` (role and status), and who has a message in a group |
| `listed`, `belongs` | `group_members` and `user_memberships` of the membership cache |
| `known`, `public` | `groups` and `public_groups` of the group cache |
| `task` | what each handler is doing, and what it has loaded |
| `created` | history: the creators of groups whose creation was reported a success |

`create_group` is `CreateGroup, AddOwner, EndCreate`; `join_group` and `invite_user`
are `JoinGroup` or `InviteUser`, `AddMember, Invalidate`; `leave_group` is
`LeaveGroup`, `CountOwners` for an owner, `SetLeft, Invalidate`;
`send_group_message` is `SendGroupMessage, StoreMessage`. A list is loaded by
`ListMembers` or `ListOwn` and cached by `FillMembers` or `FillOwn`; a page of the
public groups is loaded and cached by `ListGroups`, whose filter, limit and offset
leave any part of the rows. Only groups of type Public (`Public`) are listed; those of the
other types are joined like public ones (`Private` excepted) and left out of the list (940,
980). Entries past their duration are never served, so that
ageing removes them. Group names are left out: the check whether one is taken is a
stub that says no. So are activity and statistics, which are stubs, and the admission
of a creator by role.

### Notifications

| TLA+ | Code |
|---|---|
| `at` | where the sending of each notification is: `fill` about to cache default preferences, `hold` about to be queued, `deliver`, or at an end |
| `prefs`, `given` | the cached preferences, and (history) what the user chose |
| `held`, `again`, `seen` | `pending_notifications` with their attempts, deliveries spawned and not run, and (history) deliveries made |
| `heard`, `now` | subscriptions by age, and the hour and day that quiet hours look at |

Every function that makes a notification is a set of types and priorities (`NewDirectMessages`,
`Mentions`, ...); `SendNotification` is common to all, and a group message looks at the
preferences twice. The file is displaced from line 971 on: half of these functions stand behind
its test module, and the model takes them where they belong. Nothing in the crate calls any of
them, so that `Notes` may be anything they make; nor does anything spawn the processor of what
is held back (890), so that its passes (`ProcessPending`) may happen and nothing makes them.
Rate limits are left out, since the function that would count says no; so are preferences of
single groups, the channels a delivery chooses, history and statistics.

### Mailbox

`mail` is the direct messages in the `messages` table (status, read or not, parent,
thread), `unread` is `MessageIndex.unread_counts`, and `desk` what each handler is
doing. It is the half of the storage that MessageSystem leaves out: `SendMail,
InsertMail, IndexMail, MarkSent` store a message through the storage, or `SendMail,
InsertMail`, past its index, through `DirectMessageHandler`; `MarkSent` is the status that
`initiate_delivery` writes at the end (mod.rs:735), whatever became of the row: one deleted
meanwhile is Sent, and unread, again; `CountLoad, CountStore` are `get_unread_message_count`;
`ReadOne, ReadConversation, DeleteMail, ArchiveMail` change rows and leave the counts;
`RebuildAfter, RebuildMail, RestartMail` clear them. The statuses below Read are one.
`parent_id` is a foreign key, which SQLite enforces on insertion (`ParentThere`) and
on deletion (`Purgeable`).

### Licences

`saved` is `license_cache` and `kept` the memory of `Database`, each a stamp in place
of `verified_at`; `look` is where each `verify_license` is: `load` and `keep` what the
table has, `fetch` from a source, `store` in the table and `note` in memory. `old`
moves up to the present as time passes, past what is thirty days back. What a licence says is left
out: `validate` takes any answer for verified, Unknown too.

### MCTables, MCLives, MCNode

These instantiate the modules above for TLC, several in one run where they share no state:
a behaviour exercises one side (`Sides`, `Foci`), chosen at the start. `MCTables` has
AuthSystem, and MessageSystem with composing calls only: the handlers that look at a table
and write to it awaits later. `MCLives` has the whole of MessageSystem for one message,
SessionManager, and AuthSystem with logins only. `MCNode` extends the other five; its sides
restrict the parts to what a question needs and are named in the module. The configurations
of the violations use the same modules, with the one side that shows them.

### Proofs

`MessageSystem_proofs`, `SessionManager_proofs`, `NetworkManager_proofs`,
`AuthSystem_proofs`, `Groups_proofs`, `NodeStart_proofs` and `Mailbox_proofs` hold the
theorems about the modules they are named after; those about `RwLocks` are with those of
`NetworkManager`, those about `Migrations` with those of `NodeStart`. `Node_proofs` has
those about `Notifications`, `Licences` and the whole of `MCNode`.

## Runs

| Run | Question | Bounds and why they are enough |
|---|---|---|
| `tables` | accounts, passwords and composes that overlap | see below. Clients are symmetric |
| `lives` | a message, sessions and lockouts | see below. No symmetry, as liveness is checked |
| `fetchable` (violation) | an accepted message can be fetched | 1 client and 1 message suffice |
| `session_limit` (violation) | the limit as documented | 2 tokens and 1 user suffice |
| `last_admin` (violation) | the last administrator as documented | 2 administrators demoted at once |
| `network` | the peer table, the statistics and every way to wait | 2 clients, the loop and the manager: three tasks queue on a lock that a fourth holds. Two configured peers, one with a bad address, and two peer ids: a peer is connected, lost and connected again. Deadlock is not checked, since the system really stops (`stats_loop`) |
| `stats_loop` (violation) | the statistics are updated periodically | the loop, the manager and 1 peer suffice |
| `node` | Migrations, NodeStart, Groups, Notifications, Mailbox and Licences, side by side | see below. Deadlock is not checked, since a part ends when its bounds are used up |
| `rejoin` (violation) | joining again, or once invited, as documented | 1 group and 1 handler suffice |
| `force` (violation) | `setup --force` as documented | two setups, one after the other |
| `unread` (violation) | a message that is read lowers the count | 1 message, one user |
| `quiet` (violation) | quiet hours as documented | 1 notification held back at night |

The sides of `tables` and `lives`:

| Side | What happens | Bounds |
|---|---|---|
| `tables`: `roles` | the last administrator | 2 clients, 2 users of whom one is an administrator and one may register: promotion, two demotions, a suspension and a registration overlap in every way |
| `passwords` | copies and sessions against changes of password and status | 2 clients, 1 user who registers, 2 passwords, 1 token: two changes, a login and a change, or a login and a suspension overlap in every way |
| `composes` | duplicates and threads | 2 clients and 3 messages: a reply to a reply, a third compose while two overlap; only composing calls, as no other handler of MessageSystem writes a thread or a hash. The cache and the tasks, which no such call reads, are out of the fingerprint (`TablesView`) |
| `lives`: `message` | everything two clients and the background do to one message, also as steps of MessageBoard | 2 clients, 1 message, a direct, a group and an undecodable text, a reader, a moderator and a stranger; every pair of handlers overlaps |
| `session` | limit, life and revival | 3 tokens, 2 users, a limit of 1, 2 creates at a time: the limit is exceeded, and one user's sessions stand next to the other's. Time runs one unit past the expiry (`MaxLate`), the rest behaves alike |
| `login` | how many passwords are tried under a lock, and that it ends | 3 clients, 1 user, a right and a wrong password; a lock after 2 failures for 2 units, so that a late failure renews a lock that runs |

The sides of `node`:

| Side | What happens | Bounds |
|---|---|---|
| `schema` | two processes migrate, stop, roll back to 0 or 4, reset and insert rows | 2 undoings: one after another one, or two at once; runs that overlap, fail, stop and begin again. `Unharmed` ends a behaviour once an undoing was stopped or met another job, where `SchemaMatches` and `StartFails` say nothing more |
| `setup` | two processes with any command, setup forced or not, of two callsigns | overlapping setups, a forced one after a server has cached, restarts |
| `members` | one group, public, announcing (read-only, with approval), or private; a creator and another user who join, leave, post, invite as owner | 2 handlers overlap in every way |
| `listing` | two public groups, browsed, fetched and cached | a page that lacks one; entries of different ages |
| `lists` | one group that a user joins and leaves, its lists and his | 2 handlers: a fill between an update and its invalidation |
| `notes` | a group message and an emergency, two wishes with a night of quiet hours, day and night | 3 attempts each, spawned deliveries that wait |
| `counts` | two messages to one user, two handlers | a load beside an arrival, both ways of sending |
| `threads` | three messages and an archiving | a reply to a reply, whose root goes |
| `licences` | two lookups of one callsign | 3 fetches |

`roles`, `passwords` and `login` have a part of AuthSystem's calls each, which keeps them
small; together they have all.

Bounds in guards: `MaxCreates`, the number of creates at a time (a parameter of
`UserBound`); `MaxLate`, how long after its expiry a session still counts time;
`MaxAttempts`, after which the peer manager rests; `Peers`, as a connection
is made only while an id is left; `MaxUndos`, the rollbacks and resets; and
`MaxFetches`, the licences fetched.

Some of what is proved is not checked again by a run that would show no more: the type
of the session map, the bound on a user's sessions that `PermitPromise`
contains (`UserBound`), and what the code does where `rejoin` and `force` show that it does not do what it says (`OnlyLeaving`, `FirstIdentity`).

What they show: a text is stored twice only by two clients whose composes overlap; threads stay
rooted in stored messages whatever fails; success of a compose means a stored row marked Sent;
once a compose has ended, no late writer takes its status back; a stale cached copy of a deleted
message is served for a while and then never again; the handlers of the message system leave a
row that cannot be decoded as it was stored (others do not, see MessageBoard); a user exceeds
the session limit by at most one session per overlapping create; no mix of renewals and
extensions gives a session more than the maximum or the default; and an expired session returns
only through `extend_session`. Of the accounts: a lock lets through fewer passwords than there
are clients, and ends although late failures renew it; a cached user, which writes renew for
ever, is the table's but while a change goes on, after a registration that has yet to cache what
another change has overtaken, or between two changes of password; a session outlives a change of
the password it was granted for only through a login that was verified before and granted after,
or through such a copy; an administrator remains but for demotions that overlap or look at a
role being changed; and a suspension, which ends no sessions and stops no login that is past the
status check, holds once these are over and no copy says otherwise (`StaysOut`): registration,
the renewal of copies and changes of password and role let nobody in. Each of the exceptions is
needed: without it TLC finds a run that breaks the property. Of the network: no configured peer
is connected twice at a time, though the table is unlocked while the manager connects; a message
is counted while its peer is connected; the counters agree; and a call ends unless the
statistics loop and another task hold what the other waits for (`Embrace`), which is the only
circular wait there is (`NoOtherWait`: in every other state somebody who is under way has the
locks asked for): in particular queueing writers do no harm to a broadcast, because it drops the
table before it sends. `StatusForward` excuses the time during which the message is being
composed, since there the code does go back: a message read or deleted between its insert and
its `MarkSent` becomes Sent again.

Of the node: the schema is the one the version says however migrations are stopped
or overlap, and after a rollback or a reset that was let alone. Until an undoing was
stopped or overlapped another job, a start fails only if another one was under way
beside it: whatever has overlapped before, the next one that is alone succeeds. There are two
nodes rows only after `--force` or overlapping setups. The creator of a group stays its
owner. Who is no active member, as he never was, was only invited, waits, or has left, posts
nothing; only a message let through before its sender left may still be stored after. A
list with somebody who left is not served for ever, nor a list of the public groups that
lacks one, unless queries that name a user keep replacing it. A note is delivered once, or
up to three times if quiet hours held it back; a choice of preferences stays, unless made
while defaults were being cached. Replies keep their parents and threads over retention;
the unread count of the index goes wrong in no way but those that `amiss` records: it
began with an arrival, was loaded beside one or beside a change, or stayed as it was when an
unread message was read, deleted, archived, sent past the index, or, deleted while its
compose was not done, made Sent again; and the licence source is asked again only for
what is old, unless lookups of one callsign overlapped, failed or were cleaned up after.
Each exception is needed here too.

What the models show of this code that its comments would not lead a reader to expect,
besides the violations below: `leave_group` refuses every owner, as there never is a second
one to stay; two processes started at once on a new file make one of them fail; a rollback
stopped midway leaves a version above the schema, on which the next start builds or fails
for ever; lists that were filtered or paginated are cached for everybody (groups.rs:606, 1085,
where limit and offset are applied a second time); quiet hours over midnight look at the
current day only; and a read reply to an unread message stops the retention altogether.

Eight disagreements between code and its comments, help or tests have a run that exhibits
them: a short text sent with the default `compress: true` is stored with a flag that makes
it undecodable (`fetchable`); overlapping creates pass the session limit (`session_limit`);
overlapping demotions leave no administrator (`last_admin`); the statistics loop takes the
two locks of the network manager in the order opposite to everyone else, so that the two
sides can stop each other for ever (`stats_loop`); a member who left, or was invited, can
never become active, because `join_group` inserts where a row is (`rejoin`); `setup --force`
adds a row that is never read (`force`); reading a message lowers no count (`unread`); and
what quiet hours held back is delivered in them (`quiet`).

One has no run, as it is plain from a single statement: `delete_old_messages` says that it
keeps unread messages, and keeps those of status 3, which is Read (queries.rs:95). Mailbox has
what the statement does (`Old`), and `ThreadsHeld` is checked with it.

## Fairness

`lives`: a client in the middle of a call on the message goes on (`Progress`), as an
awaited lock or query is eventually served, and a cache entry ages. Nobody is
obliged to call, the background loop need not run, and restarts and errors
remain possible at any time. Of the lockouts, time passes (`Tick`); nothing else need happen
for a lock to end, as a call that never goes on never renews it. Of the sessions nothing is
assumed: the sweep that would remove abandoned ones is started by nothing in the crate.

`network`, `stats_loop`: the interval of the statistics loop ticks, a task that has
the lock it asked for goes on, and an attempt to connect ends. tokio serves a lock
in the order of asking, which is in `RwLocks` and needs no fairness. Clients need not
call, and the manager's rounds need not start.

`node`: a handler of groups goes on, and cache entries get past their durations. Of
notifications nothing is assumed, as nothing in the crate starts the processor's loop
(`notification_processor`). Nobody need call, choose, or start again. Each of these holds
while its side is the one exercised. `Unharmed` is a constraint on `harm` alone, which
no step of a side with a liveness property changes.

## Proofs

Assumptions: those named in the modules (`RequestAssumption`, `NoneAssumption`,
`TokenAssumption`, ...), each evaluated by the runs of its module. They ask that sets of
clients, tasks and processes are finite, that users, passwords and signs are not none at all
(`SomeAssumption`, `LicenceAssumption`), that the names for nothing are no values, and that an
instance fits together (`TableAssumption`: the tables that may have rows are tables;
`NodeAssumption`: the users and groups that the sides name are in their sets).

*MessageSystem.* `Invariance` proves an inductive invariant from which the safety
properties follow. They are not inductive by themselves, as they say nothing of
clients in the middle of a call or of rows not stored yet. The invariant adds:
what a client at each point knows of its message (`CallsOK`: who composes it,
whether it is stored, that a row about to be marked read or deleted can be
decoded); that a row not stored is as it was at the start (`Untouched`,
`UnsentNotStored`); that the parent of a reply is stored and decodable
(`ParentsFetched`), which ties `ThreadsRooted` and `UnreadableUnhandled` to the
moment the reply was built; and that a client about to store a text has stored no
row with that text (`NoOwnCopy`), from which `DuplicateNeedsOverlap` follows
whatever happens to the index. One lemma per group of actions says what the
action does to rows, calls and outcomes; each conjunct has a lemma over these.
`StatusForward` follows from `CallsOK`: only its own composer writes Sent, and only
while the message is composing.

`Implements` proves that it refines `MessageBoard`. What a step does to the table is
one of five things (`TableStep`). It writes no row, though composes may end as failed,
which the board sees as `Abandon` of those whose message is stored (`EndingAbandons`); it
builds a row that is not stored yet, of which the board sees nothing; it stores one, in a
thread that is open because of `ParentsFetched` (`StoringPublishes`); it marks a stored one
Sent, whose compose is `open` by `CallsOK` (`SendingAccepts`); or it marks one that can be
decoded Read or Deleted, never backwards (`TouchingMoves`).

*SessionManager.* A session that has passed the count is as good as in the map:
the invariant bounds the live and the checked sessions of a user by the limit
less one plus the creates in flight, which only the cardinality lemmas about
finite sets make provable, and bounds `left` for those in flight as well as
those in the map.

`Implements` proves that it refines `Permits`: only `InsertSession` grants, and the same
bound says that the user was below it.

*AuthSystem.* The invariant has a part for each client, user and token. A copy's
password and status are excused apart (`PasswordCopied`, `StatusCopied`), as
different writes disturb them; what a call will cache is what it wrote, unless
overtaken (`Keeping`); a verified password is the table's or a change of it has not
ended the sessions yet (`Verified`); a demotion let through leaves another
administrator (`Spared`); and passwords tried under a lock plus those about to be
are fewer than the clients (`GuessInv`), as the client whose failure set the lock is
none of them.

`SuspendedStayOut` needs of the invariant that every call past its first look knows its
user to be in the table (`Known`), so that no row goes. `Out` is then preserved part by
part: the row stays, since what is left is that `row'[u].active` is false; the copy is
made active only by `KeepUser`, of which there is none under way
(`CopyStaysOut`); no call reaches a place from which it lets in (`WayStaysShut`), because
`Find` sees a row or a copy that is not active, and `InsertUser` sees a row; and without
such a call nothing is granted (`NoSessionComes`).

*RwLocks.* Asking and releasing keep the tasks in order and take the lock from
nobody; from the order follows `Exclusion`. The order is transitive too, so that the
sets of tasks ahead grow along the queue, and the one with the fewest ahead holds the
lock: `SomebodyHolds`, for any finite number of tasks.

*NetworkManager.* The invariant says where every task is and that it wants and
holds exactly what that point of its code does (`InPlace`), that of two tasks
asking for a lock one is ahead (`LocksOK`), that nobody has connected to the
peer the manager is connecting (`LookStands`), and that connections made are
counted but for the one in progress (`Counted`). `SentToConnected` follows as
only a writer of the table disconnects, and a sender is reading it (`LoneWriter`);
`StatsConsistent` as the loop reads the table while it counts, so that the manager
is not between inserting and counting. `OnlyOneWait` proves that the system has no
deadlock but `Embrace`: if somebody asks for the statistics, a holder of them is ready or is
the loop waiting for the table; then a holder of the table is ready, unless it waits for
the statistics, which is `Embrace`; if nobody asks for the statistics, a holder
of the table is ready; and if nobody asks for anything, everybody is.

*Groups.* The invariant `GInv` says what each handler knows (that who is about to leave is no
owner), that only a creator is ever an active owner,
as every other row is inserted as a member or as Pending, and that a group whose creator's row
is still to come has none and no second such row under way. From one active owner at most
(`OneOwner`) it follows that `CountOwners` lets none go, which is why the gap between the count
and the update does no harm. `OnlyLeaving` follows from the primary key. `PostersBelong` follows step
by step from `Underway`: a post that is under way was so before, or its sender has just been
seen Active; and a message that is stored was under way.

*Notifications.* `NInv` counts for every place a note can be in (`Counted`): while it is held,
the deliveries made and those spawned are the attempts of the queue, and elsewhere nothing is
queued or spawned. Preferences that are cached are the choice, or the user is `raced`, or a note
of the user is at `fill` and the choice comes next.

*Licences.* Of a sign that nothing has spoilt `LicenceInv` says that at most one lookup is
under way, and, while what the source last said is not old (`LicenceGood`), that this lookup
is not at the source and carries what the source said, and that the table has it and the
memory has it or nothing, unless the lookup is still to write them. From this
`OnlyOne` follows: who asks the source finds the last answer old. Whatever overlaps,
fails or cleans up marks the sign as spoilt.

*NodeStart.* `IdInv`: a setup past its check is serving, alone and before an empty table while
neither history is set (`NoneBefore`); the table is there while it has rows, and is taken
away only by a process that undoes, of which there is none before the first
rollback or reset (`Undone`, `RowsThere`); and a server starts with an empty copy.
`Migrations` enters through one lemma, `Stepping`: only an undoing process takes a table
away.

*Migrations.* `SchemaInv` says what is known until a rollback or a reset is stopped or
overlapped (`Clean`). Whoever undoes is alone (`Apart`); a run that met no other is
alone (`Alone`) and has to apply exactly what comes after the version, and one that did has to
apply no less (`Upward`), from which `StartFails` follows; a
rollback is at a complete schema, that of the last version it has left (`Downward`), and a reset
has dropped a table with its rows of the tracking and its indexes (`Dropping`). With nobody
undoing, the schema is the version's (`Settled`): a run keeps it so as the statements do not say
`IF NOT EXISTS`, so that of two runs with one version the second fails and changes nothing.
`RolledBack` is the fact about the catalogue on which a rollback rests: what it drops takes
along just the indexes that later migrations made. `SchemaTyped` is about the types of the
catalogue in all states, harmed ones too: versions that are inserted are those of migrations,
whichever jobs overlap.

*MCNode.* A step of the composed node is a step of one part, on the side of it that is
under way, or of none (`NodeSteps`); hence `PartsStand`, and everything proved of Groups,
Notifications, Mailbox and Licences holds in the node. The processes differ, as a node
may start with the schema there, which `NodeStarts` shows to satisfy the invariants as
an empty file does; `NodeStartsSafely` and `NodeTyped` follow.

*Mailbox.* For threads: a message is in one handler's hands before it is stored (`OneEach`),
messages are dated in the order they were written (`Dated`), and the parent of a reply on its
way was in the table and, once gone, is stored by nobody (`Replying`), so that the foreign key,
which only sees whether it is there, is enough. For counts: what a handler has loaded and not
stored yet is right, with nobody on the way into the index, unless it is marked outdated
(`Loaded`); storing and indexing each add one element to a set whose size is counted, and
whatever makes a row begin or cease to be unread marks its recipient, `MarkSent` too
(`SentKeeps`).

Only model-checked: the liveness properties `DeletionSeen`, `LockEnds`, `CallsEnd` and
`ListsCatchUp` (fairness is beyond the prover).

## Not modelled

Password hashing and the policy for passwords, configuration, the utilities and most of the
database models are functions of their arguments, with no state that changes. Of modelled files:
rate limits, group names, message statistics and the conversation cache, whose functions are
stubs at this commit; `restore`, which copies a file under open connections and then leaves
`node_cache` as it was; the queries over `network_nodes`, which nothing calls outside tests; the
unread counts that the message system caches in front of those of the storage; typing
indicators, which are dropped by their age and touch nothing else.

Two tasks that could not wait for each other at this commit would, if clean-up tasks were
ever scheduled: `perform_maintenance` holds the scheduler's lock where such a task takes
it again (storage.rs:609, 1062).

## Plan

1. MessageSystem, SessionManager, NetworkManager, AuthSystem over Permits, and their
   proofs (done).
2. Migrations, NodeStart, Groups, Notifications, Mailbox and Licences (done), with
   proofs of Groups, Notifications and the identity of the node (done).
3. Proofs of `SchemaMatches`, `StartFails`, `ThreadsHeld` and `CountsRight` for any number of
   processes and handlers (done).
4. `MessageBoard`, of messages that are posted, answered and moved forward, which
   MessageSystem's table implements; freedom from deadlock of the network manager;
   what a suspension promises; proofs of Licences and of the composed node (done).
5. The unread counts that the message system caches in front of those of the storage,
   over `Mailbox`.
