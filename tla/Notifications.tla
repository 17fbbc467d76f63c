----------------------------- MODULE Notifications -----------------------------
(***************************************************************************)
(* NotificationManager of terminal/notifications.rs: sending, holding back *)
(* in quiet hours and delivering again, by tasks that load a user's        *)
(* preferences before another task stores them, next to the processor's    *)
(* passes. Nothing here outlives the process: the functions that would     *)
(* load and save preferences and history are empty.                        *)
(***************************************************************************)
EXTENDS Naturals, FiniteSets

CONSTANTS
  Users,
  Notes,         \* notifications, each made and sent once
  Addressee,     \* the user each one is for
  Kind,          \* the type and the priority of each one
  Wishes,        \* preferences users may choose
  Hours, Days,   \* the times of the week looked at
  Listeners,     \* subscriptions
  NoChoice,      \* no cached preferences
  NotHeld        \* no pending notification

NoteTypes == {"NewDirectMessage", "NewGroupMessage", "EmergencyMessage", "SystemAnnouncement",
              "UserMentioned", "DeliveryConfirmation", "UserTyping", "UserStatusChange",
              "GroupInvitation", "DeliveryFailed"}

\* NotificationPriority, in its order.
Low    == 1
Normal == 2
High   == 3
Emergency  == 4
Priorities == Low..Emergency

\* What each function that makes a notification makes. The text of the file is displaced
\* from line 971 on: half of them stand behind its tests.
Made(types, priorities) == [type: types, priority: priorities, broadcast: {FALSE}]
NewDirectMessages     == Made({"NewDirectMessage"}, {Normal, High})
UserStatusChanges     == Made({"UserStatusChange"}, {Low})
GroupInvitations      == Made({"GroupInvitation"}, {Normal})
DeliveryFailures      == Made({"DeliveryFailed"}, {High})
EmergencyMessages     == Made({"EmergencyMessage"}, {Emergency})
GroupMessages         == Made({"NewGroupMessage"}, {Normal, High})
Mentions              == Made({"UserMentioned"}, {High})
SystemAnnouncements   == Made({"SystemAnnouncement"}, Priorities)
DeliveryConfirmations == Made({"DeliveryConfirmation"}, {Low})
TypingIndicators      == Made({"UserTyping"}, {Low})
\* A broadcast makes one for each active user, each sent by a task of its own.
Broadcasts == [type: NoteTypes, priority: Priorities, broadcast: {TRUE}]

Singles == NewDirectMessages \cup UserStatusChanges \cup GroupInvitations
           \cup DeliveryFailures \cup EmergencyMessages \cup GroupMessages \cup Mentions
           \cup SystemAnnouncements \cup DeliveryConfirmations \cup TypingIndicators

\* off: the types disabled. No rate limit is ever exceeded, and the settings of single
\* groups are left out. days = {} stands for no quiet hours.
QuietHours  == [start: 0..23, end: 0..23, days: SUBSET Days, override: BOOLEAN]
Preferences == [off: SUBSET NoteTypes, threshold: Priorities, quiet: QuietHours]

ASSUME NoteAssumption   == /\ Addressee \in [Notes -> Users]
                           /\ Kind \in [Notes -> Singles \cup Broadcasts]
ASSUME ChoiceAssumption == Wishes \subseteq Preferences /\ NoChoice \notin Preferences
ASSUME TimeAssumption   == Hours \subseteq 0..23 /\ Hours # {} /\ Days # {}
ASSUME HeldAssumption   == NotHeld \notin [attempts: Nat, due: BOOLEAN]

VARIABLES
  prefs,     \* the cached preferences of each user
  now,       \* the hour and the day of the week
  at,        \* where the sending of each note is
  held,      \* history of the manager: the pending notifications
  again,     \* deliveries that passes have spawned and that have not run
  heard,     \* subscriptions: "none", "new", or "old", after an hour
  seen,      \* history: deliveries of each note
  given,     \* history: what each user chose last
  raced      \* history: users who chose while defaults were about to be cached

noteVars == <<prefs, now, at, held, again, heard, seen, given, raced>>

MaxRetries == 3
\* "send": a group message whose preferences were looked at before it is sent; "kept": held
\* back; "refused", "sent" and "lost" are other ends.
Places  == {"unsent", "fill", "send", "hold", "deliver", "kept", "refused", "sent", "lost"}
Waiting == [attempts: 0..MaxRetries, due: BOOLEAN]

NotificationsTypeOK ==
  /\ prefs \in [Users -> Preferences \cup {NoChoice}]
  /\ now \in [hour: Hours, day: Days]
  /\ at \in [Notes -> Places]
  /\ held \in [Notes -> Waiting \cup {NotHeld}]
  /\ again \in [Notes -> 0..MaxRetries]
  /\ heard \in [Listeners -> {"none", "new", "old"}]
  /\ seen \in [Notes -> 0..MaxRetries]
  /\ given \in [Users -> Preferences \cup {NoChoice}]
  /\ raced \subseteq Users

NoPrefs  == [u \in Users |-> NoChoice]
NoneHeld == [n \in Notes |-> NotHeld]

NotificationsInit ==
  /\ prefs = NoPrefs /\ given = NoPrefs /\ raced = {}
  /\ now \in [hour: Hours, day: Days]
  /\ at = [n \in Notes |-> "unsent"]
  /\ held = NoneHeld
  /\ again = [n \in Notes |-> 0] /\ seen = [n \in Notes |-> 0]
  /\ heard = [s \in Listeners |-> "none"]

----------------------------------------------------------------------------
(* Preferences.                                                            *)

DefaultPreferences ==
  [off |-> {"DeliveryConfirmation", "NewGroupMessage", "UserTyping", "UserStatusChange"},
   threshold |-> Low,
   quiet |-> [start |-> 0, end |-> 0, days |-> {}, override |-> TRUE]]

\* A range that ends before it starts lasts over midnight, and is looked at on the day
\* it is, whichever day it began on.
IsQuietHours(q, hour, day) ==
  /\ day \in q.days
  /\ IF q.start <= q.end THEN q.start <= hour /\ hour < q.end
                         ELSE q.start <= hour \/ hour < q.end

HoldsBack(p, n) == /\ IsQuietHours(p.quiet, now.hour, now.day)
                   /\ ~(Kind[n].priority >= Emergency /\ p.quiet.override)

UpdatePreferences(u, p) ==
  /\ p # prefs[u]
  /\ prefs' = [prefs EXCEPT ![u] = p]
  /\ given' = [given EXCEPT ![u] = p]
  /\ raced' = IF \E n \in Notes : Addressee[n] = u /\ at[n] = "fill"
               THEN raced \cup {u} ELSE raced \ {u}
  /\ UNCHANGED <<now, at, held, again, heard, seen>>

----------------------------------------------------------------------------
(* send_notification and the ways it ends.                                 *)

Dropped(p, n) == Kind[n].type \in p.off \/ Kind[n].priority < p.threshold
Outcome(p, n) == IF Dropped(p, n) THEN "refused"
                 ELSE IF HoldsBack(p, n) THEN "hold" ELSE "deliver"
GoTo(n, place) == at' = [at EXCEPT ![n] = place]

\* Preferences that are not cached are the defaults, cached under a later lock.
Cached_Never(u) == FALSE
Cached(u) == prefs[u] # NoChoice
SendNotification(n) ==
  /\ at[n] \in {"unsent", "send"}
  /\ GoTo(n, IF Cached(Addressee[n]) THEN Outcome(prefs[Addressee[n]], n) ELSE "fill")
  /\ UNCHANGED <<prefs, now, held, again, heard, seen, given, raced>>

\* A group message asks for the preferences first, and is then sent like any other.
CachePreferences(n) ==
  /\ at[n] = "fill"
  /\ prefs' = [prefs EXCEPT ![Addressee[n]] = DefaultPreferences]
  /\ GoTo(n, IF Kind[n] \in GroupMessages THEN "send" ELSE Outcome(DefaultPreferences, n))
  /\ UNCHANGED <<now, held, again, heard, seen, given, raced>>

QueueNotification(n) ==
  /\ at[n] = "hold"
  /\ held' = [held EXCEPT ![n] = [attempts |-> 0, due |-> FALSE]]
  /\ GoTo(n, "kept")
  /\ UNCHANGED <<prefs, now, again, heard, seen, given, raced>>

\* deliver_notification: to the channels that are left, and with no look at quiet hours.
DeliverNotification(n) ==
  /\ at[n] = "deliver"
  /\ seen' = [seen EXCEPT ![n] = @ + 1]
  /\ GoTo(n, "sent")
  /\ UNCHANGED <<prefs, now, held, again, heard, given, raced>>

----------------------------------------------------------------------------
(* The processor.                                                          *)

\* A pass delivers again what is due, and keeps it for the next attempt though it was
\* delivered, until the pass that finds the attempts made.
Retryable_OneMore(n) == held[n].due /\ held[n].attempts <= MaxRetries
Retryable(n) == held[n].due /\ held[n].attempts < MaxRetries
Spent(n) == held[n].attempts >= MaxRetries
Held         == {n \in Notes : held[n] # NotHeld}
ProcessPending ==
  /\ \E n \in Held : Retryable(n) \/ Spent(n)
  /\ held' = [n \in Notes |->
       IF n \notin Held THEN NotHeld
       ELSE IF Retryable(n) THEN [attempts |-> held[n].attempts + 1, due |-> FALSE]
       ELSE IF Spent(n) THEN NotHeld ELSE held[n]]
  /\ again' = [n \in Notes |-> IF n \in Held /\ Retryable(n) THEN again[n] + 1 ELSE again[n]]
  /\ UNCHANGED <<prefs, now, at, heard, seen, given, raced>>

\* A spawned delivery.
DeliverAgain(n) ==
  /\ again[n] > 0
  /\ again' = [again EXCEPT ![n] = @ - 1]
  /\ seen' = [seen EXCEPT ![n] = @ + 1]
  /\ UNCHANGED <<prefs, now, at, held, heard, given, raced>>

\* Its retry time comes, 300 s times the attempts after the last one.
ComeDue(n) ==
  /\ n \in Held /\ ~held[n].due
  /\ held' = [held EXCEPT ![n].due = TRUE]
  /\ UNCHANGED <<prefs, now, at, again, heard, seen, given, raced>>

\* A subscription has an id nobody is given to unsubscribe with, and an activity that
\* is never renewed.
Subscribe(s) ==
  /\ heard[s] = "none"
  /\ heard' = [heard EXCEPT ![s] = "new"]
  /\ UNCHANGED <<prefs, now, at, held, again, seen, given, raced>>

GrowOld(s) ==
  /\ heard[s] = "new"
  /\ heard' = [heard EXCEPT ![s] = "old"]
  /\ UNCHANGED <<prefs, now, at, held, again, seen, given, raced>>

CleanupSubscriptions ==
  /\ \E s \in Listeners : heard[s] = "old"
  /\ heard' = [s \in Listeners |-> IF heard[s] = "old" THEN "none" ELSE heard[s]]
  /\ UNCHANGED <<prefs, now, at, held, again, seen, given, raced>>

\* One after the other, once a minute where something runs it: nothing in the crate does.
NotificationProcessor == ProcessPending \/ CleanupSubscriptions

----------------------------------------------------------------------------
PassTime ==
  /\ now' \in [hour: Hours, day: Days] \ {now}
  /\ UNCHANGED <<prefs, at, held, again, heard, seen, given, raced>>

\* The process starts again: only what was delivered, or refused, was not lost.
RestartManager ==
  /\ prefs' = NoPrefs /\ given' = NoPrefs /\ raced' = {}
  /\ at' = [n \in Notes |->
       IF at[n] \in {"fill", "send", "hold", "deliver"} \/ n \in Held \/ again[n] > 0
       THEN "lost" ELSE at[n]]
  /\ held' = NoneHeld
  /\ again' = [n \in Notes |-> 0]
  /\ heard' = [s \in Listeners |-> "none"]
  /\ UNCHANGED <<now, seen>>

Sending(n) == \/ CachePreferences(n) \/ QueueNotification(n) \/ DeliverNotification(n)
              \/ DeliverAgain(n)

NotificationsNext ==
  \/ \E n \in Notes : SendNotification(n) \/ Sending(n) \/ ComeDue(n)
  \/ \E u \in Users, p \in Wishes : UpdatePreferences(u, p)
  \/ \E s \in Listeners : Subscribe(s) \/ GrowOld(s)
  \/ NotificationProcessor \/ PassTime \/ RestartManager

NotificationsSpec == NotificationsInit /\ [][NotificationsNext]_noteVars

----------------------------------------------------------------------------
(* Properties.                                                             *)

\* However passes, their deliveries and restarts fall, a note is delivered once, one that
\* was held back three times at most, and one that the preferences refused never.
MostDeliveries(n) == IF at[n] \in {"kept", "lost"} THEN MaxRetries
                     ELSE IF at[n] = "sent" THEN 1 ELSE 0
DeliveredAtMost == \A n \in Notes : seen[n] <= MostDeliveries(n)

\* What the preferences say of quiet hours: 'no notifications', and of what is held back
\* in them: 'queue for later delivery'. No pass delivers what would still be held back.
QuietKept ==
  [][\A n \in Notes : again'[n] > again[n] => ~HoldsBack(prefs[Addressee[n]], n)]_noteVars

\* What a user chose is in force until the process ends, but for one who chose while a
\* notification was about to cache the defaults.
ChoiceKept ==
  \A u \in Users : given[u] # NoChoice /\ u \notin raced => prefs[u] = given[u]
=============================================================================
