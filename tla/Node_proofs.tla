------------------------------ MODULE Node_proofs ------------------------------
(***************************************************************************)
(* Notifications and licences, for any notifications, users, times, signs  *)
(* and lookups, and the node of MCNode, of which they are parts: what the  *)
(* theorems say of each part alone is true of the node.                    *)
(***************************************************************************)
EXTENDS MCNode, Groups_proofs, Mailbox_proofs, NodeStart_proofs

USE DEF Places, MaxRetries

(***************************************************************************)
(* Notifications.                                                          *)
(***************************************************************************)

\* What a note in each place has been through. An attempt of the queue is a delivery that
\* was made or is still to run.
Counted(n) ==
  /\ at[n] \in {"unsent", "fill", "send", "hold", "deliver", "refused"} =>
       held[n] = NotHeld /\ again[n] = 0 /\ seen[n] = 0
  /\ at[n] = "sent" => held[n] = NotHeld /\ again[n] = 0 /\ seen[n] = 1
  /\ at[n] = "lost" => held[n] = NotHeld /\ again[n] = 0
  /\ at[n] = "kept" /\ held[n] # NotHeld => seen[n] + again[n] = held[n].attempts
  /\ at[n] = "kept" => seen[n] + again[n] <= MaxRetries

\* A user's defaults are about to be cached over a choice only if the choice raced them.
FillsRaced == \A n \in Notes :
  at[n] = "fill" /\ given[Addressee[n]] # NoChoice => Addressee[n] \in raced

NInv == /\ NotificationsTypeOK /\ (\A n \in Notes : Counted(n))
        /\ FillsRaced /\ ChoiceKept

(***************************************************************************)
(* Types.                                                                  *)
(***************************************************************************)

LEMMA DefaultTyped == DefaultPreferences \in Preferences
BY DEF DefaultPreferences, Preferences, QuietHours, NoteTypes, Priorities, Low, Emergency

LEMMA Addressed == \A n \in Notes : Addressee[n] \in Users
BY NoteAssumption

LEMMA WaitingTyped == NotHeld \notin Waiting
BY HeldAssumption DEF Waiting

LEMMA OutcomeTyped == \A p, n : Outcome(p, n) \in {"refused", "hold", "deliver"}
BY DEF Outcome

LEMMA NotificationsTypeStep ==
  ASSUME NotificationsTypeOK, \A n \in Notes : Counted(n), [NotificationsNext]_noteVars
  PROVE  NotificationsTypeOK'
<1>1. ASSUME NEW n \in Notes, SendNotification(n) PROVE NotificationsTypeOK'
  BY <1>1, OutcomeTyped DEF NotificationsTypeOK, SendNotification, GoTo
<1>2. ASSUME NEW n \in Notes, CachePreferences(n) PROVE NotificationsTypeOK'
  BY <1>2, OutcomeTyped, DefaultTyped, Addressed
     DEF NotificationsTypeOK, CachePreferences, GoTo
<1>3. ASSUME NEW n \in Notes, QueueNotification(n) PROVE NotificationsTypeOK'
  BY <1>3 DEF NotificationsTypeOK, QueueNotification, GoTo, Waiting
<1>4. ASSUME NEW n \in Notes, DeliverNotification(n) PROVE NotificationsTypeOK'
  <2>1. seen[n] = 0
    BY <1>4 DEF DeliverNotification, Counted
  <2> QED BY <1>4, <2>1 DEF NotificationsTypeOK, DeliverNotification, GoTo
<1>5. ASSUME NEW n \in Notes, DeliverAgain(n) PROVE NotificationsTypeOK'
  <2>1. at[n] \in Places /\ again[n] \in 0..3 /\ seen[n] \in 0..3 /\ again[n] > 0
    BY <1>5 DEF DeliverAgain, NotificationsTypeOK
  <2>2. seen[n] + again[n] <= 3
    BY <2>1 DEF Counted
  <2>3. again[n] - 1 \in 0..3 /\ seen[n] + 1 \in 0..3
    BY <2>1, <2>2
  <2> QED BY <1>5, <2>3 DEF NotificationsTypeOK, DeliverAgain
<1>6. ASSUME NEW n \in Notes, ComeDue(n) PROVE NotificationsTypeOK'
  <2>1. held[n] \in Waiting
    BY <1>6 DEF NotificationsTypeOK, ComeDue, Held
  <2>2. [held[n] EXCEPT !.due = TRUE] \in Waiting
    BY <2>1 DEF Waiting
  <2>3. held' = [held EXCEPT ![n] = [held[n] EXCEPT !.due = TRUE]]
    BY <1>6 DEF ComeDue
  <2> QED BY <1>6, <2>2, <2>3 DEF NotificationsTypeOK, ComeDue
<1>7. ASSUME NEW u \in Users, NEW p \in Wishes, UpdatePreferences(u, p)
      PROVE  NotificationsTypeOK'
  BY <1>7, ChoiceAssumption DEF NotificationsTypeOK, UpdatePreferences
<1>8. ASSUME NEW s \in Listeners, Subscribe(s) \/ GrowOld(s) PROVE NotificationsTypeOK'
  BY <1>8 DEF NotificationsTypeOK, Subscribe, GrowOld
<1>9. CASE CleanupSubscriptions
  BY <1>9 DEF NotificationsTypeOK, CleanupSubscriptions
<1>10. CASE ProcessPending
  <2>1. ASSUME NEW n \in Notes, n \in Held, Retryable(n)
        PROVE  /\ [attempts |-> held[n].attempts + 1, due |-> FALSE] \in Waiting
               /\ again[n] + 1 \in 0..3
    <3>1. held[n] \in Waiting /\ held[n] # NotHeld /\ held[n].attempts < 3
      BY <2>1 DEF NotificationsTypeOK, Held, Retryable
    <3>2. held[n].attempts \in 0..3 /\ again[n] \in 0..3 /\ seen[n] \in 0..3 /\ at[n] \in Places
      BY <3>1 DEF NotificationsTypeOK, Waiting
    <3>3. seen[n] + again[n] = held[n].attempts
      BY <3>1, <3>2 DEF Counted
    <3> QED BY <3>1, <3>2, <3>3 DEF Waiting
  <2>2. held' \in [Notes -> Waiting \cup {NotHeld}] /\ again' \in [Notes -> 0..3]
    BY <1>10, <2>1 DEF NotificationsTypeOK, ProcessPending
  <2> QED BY <1>10, <2>2 DEF NotificationsTypeOK, ProcessPending
<1>11. CASE PassTime
  BY <1>11 DEF NotificationsTypeOK, PassTime
<1>12. CASE RestartManager
  BY <1>12 DEF NotificationsTypeOK, RestartManager, NoPrefs, NoneHeld
<1>13. CASE UNCHANGED noteVars
  BY <1>13 DEF NotificationsTypeOK, noteVars
<1> QED BY <1>1, <1>2, <1>3, <1>4, <1>5, <1>6, <1>7, <1>8, <1>9, <1>10, <1>11, <1>12, <1>13
        DEF NotificationsNext, Sending, NotificationProcessor

(***************************************************************************)
(* Deliveries.                                                             *)
(***************************************************************************)

\* What a step leaves of a note is counted as before.
LEMMA CountedSame ==
  ASSUME NEW n \in Notes, Counted(n), at'[n] = at[n], held'[n] = held[n],
         again'[n] = again[n], seen'[n] = seen[n]
  PROVE  Counted(n)'
BY DEF Counted

LEMMA CountedSends ==
  ASSUME NotificationsTypeOK, NEW m \in Notes, NEW n \in Notes, Counted(n),
         \/ SendNotification(m) \/ CachePreferences(m) \/ QueueNotification(m)
         \/ DeliverNotification(m)
  PROVE  Counted(n)'
<1>1. CASE n # m
  BY <1>1, CountedSame DEF NotificationsTypeOK, SendNotification, CachePreferences,
     QueueNotification, DeliverNotification, GoTo
<1>2. CASE n = m /\ (SendNotification(m) \/ CachePreferences(m))
  <2>1. at[n] \in {"unsent", "send", "fill"}
    BY <1>2 DEF SendNotification, CachePreferences
  <2>2. at'[n] \in {"fill", "send", "refused", "hold", "deliver"}
    BY <1>2, OutcomeTyped DEF NotificationsTypeOK, SendNotification, CachePreferences, GoTo
  <2>3. UNCHANGED <<held, again, seen>>
    BY <1>2 DEF SendNotification, CachePreferences
  <2> QED BY <2>1, <2>2, <2>3 DEF Counted
<1>3. CASE n = m /\ QueueNotification(m)
  <2>1. at[n] = "hold" /\ at'[n] = "kept" /\ UNCHANGED <<again, seen>>
    BY <1>3 DEF NotificationsTypeOK, QueueNotification, GoTo
  <2>2. held'[n].attempts = 0
    BY <1>3 DEF NotificationsTypeOK, QueueNotification
  <2> QED BY <2>1, <2>2 DEF Counted
<1>4. CASE n = m /\ DeliverNotification(m)
  <2>1. at[n] = "deliver" /\ at'[n] = "sent" /\ UNCHANGED <<held, again>>
    BY <1>4 DEF NotificationsTypeOK, DeliverNotification, GoTo
  <2>2. seen'[n] = seen[n] + 1
    BY <1>4 DEF NotificationsTypeOK, DeliverNotification
  <2> QED BY <2>1, <2>2 DEF Counted
<1> QED BY <1>1, <1>2, <1>3, <1>4

LEMMA CountedAgain ==
  ASSUME NotificationsTypeOK, NEW m \in Notes, NEW n \in Notes, Counted(n), DeliverAgain(m)
  PROVE  Counted(n)'
<1>1. CASE n # m
  BY <1>1, CountedSame DEF NotificationsTypeOK, DeliverAgain
<1>2. CASE n = m
  <2>1. again[n] > 0 /\ again'[n] = again[n] - 1 /\ seen'[n] = seen[n] + 1
        /\ UNCHANGED <<at, held>>
    BY <1>2 DEF NotificationsTypeOK, DeliverAgain
  <2>2. at[n] \in Places /\ again[n] \in Nat /\ seen[n] \in Nat
    BY DEF NotificationsTypeOK
  <2>3. seen[n] + 1 + (again[n] - 1) = seen[n] + again[n]
    BY <2>2
  <2> QED BY <2>1, <2>2, <2>3 DEF Counted
<1> QED BY <1>1, <1>2

LEMMA CountedDue ==
  ASSUME NotificationsTypeOK, NEW m \in Notes, NEW n \in Notes, Counted(n), ComeDue(m)
  PROVE  Counted(n)'
<1>1. CASE n # m
  BY <1>1, CountedSame DEF NotificationsTypeOK, ComeDue
<1>2. CASE n = m
  <2>1. held[n] \in Waiting /\ held[n] # NotHeld
    BY <1>2 DEF NotificationsTypeOK, ComeDue, Held
  <2>2. held'[n] = [held[n] EXCEPT !.due = TRUE] /\ UNCHANGED <<at, again, seen>>
    BY <1>2 DEF NotificationsTypeOK, ComeDue
  <2>3. held'[n].attempts = held[n].attempts
    BY <2>1, <2>2 DEF Waiting
  <2> QED BY <2>1, <2>2, <2>3 DEF Counted
<1> QED BY <1>1, <1>2

\* A pass counts an attempt for each delivery it spawns, and lets a note go with all made.
LEMMA CountedPass ==
  ASSUME NotificationsTypeOK, NEW n \in Notes, Counted(n), ProcessPending
  PROVE  Counted(n)'
<1>0. UNCHANGED <<at, seen>>
  BY DEF ProcessPending
<1>1. CASE n \in Held /\ Retryable(n)
  <2>1. held'[n].attempts = held[n].attempts + 1 /\ again'[n] = again[n] + 1
    BY <1>1 DEF ProcessPending
  <2>2. held[n] \in Waiting /\ held[n] # NotHeld /\ held[n].attempts < 3 /\ at[n] \in Places
        /\ again[n] \in Nat /\ seen[n] \in Nat
    BY <1>1 DEF NotificationsTypeOK, Held, Retryable
  <2>3. at[n] = "kept" /\ seen[n] + again[n] = held[n].attempts
    BY <2>2 DEF Counted
  <2>4. held[n].attempts \in Nat
    BY <2>2 DEF Waiting
  <2> QED BY <1>0, <2>1, <2>2, <2>3, <2>4 DEF Counted
<1>2. CASE n \in Held /\ ~Retryable(n) /\ Spent(n)
  <2>1. held'[n] = NotHeld /\ again'[n] = again[n]
    BY <1>2 DEF ProcessPending
  <2> QED BY <1>0, <1>2, <2>1 DEF Counted, Held
<1>3. CASE n \notin Held
  BY <1>0, <1>3, CountedSame DEF ProcessPending, Held
<1>4. CASE n \in Held /\ ~Retryable(n) /\ ~Spent(n)
  BY <1>0, <1>4, CountedSame DEF ProcessPending
<1> QED BY <1>1, <1>2, <1>3, <1>4

LEMMA CountedRestart ==
  ASSUME NotificationsTypeOK, NEW n \in Notes, Counted(n), RestartManager
  PROVE  Counted(n)'
<1>1. held'[n] = NotHeld /\ again'[n] = 0 /\ seen'[n] = seen[n]
  BY DEF RestartManager, NoneHeld
<1>2. at'[n] = IF at[n] \in {"fill", "send", "hold", "deliver"} \/ n \in Held \/ again[n] > 0
               THEN "lost" ELSE at[n]
  BY DEF RestartManager
<1>3. at[n] \in Places /\ again[n] \in Nat /\ seen[n] \in Nat
  BY DEF NotificationsTypeOK
<1> QED BY <1>1, <1>2, <1>3 DEF Counted

LEMMA CountedStep ==
  ASSUME NInv, NEW n \in Notes, [NotificationsNext]_noteVars
  PROVE  Counted(n)'
<1>1. ASSUME NEW m \in Notes, SendNotification(m) \/ Sending(m) \/ ComeDue(m)
      PROVE  Counted(n)'
  BY <1>1, CountedSends, CountedAgain, CountedDue DEF NInv, Sending
<1>2. CASE \/ \E u \in Users, p \in Wishes : UpdatePreferences(u, p)
           \/ \E s \in Listeners : Subscribe(s) \/ GrowOld(s)
           \/ CleanupSubscriptions \/ PassTime \/ UNCHANGED noteVars
  <2>1. UNCHANGED <<at, held, again, seen>>
    BY <1>2 DEF UpdatePreferences, Subscribe, GrowOld, CleanupSubscriptions, PassTime, noteVars
  <2> QED BY <2>1, CountedSame DEF NInv
<1>3. CASE ProcessPending
  BY <1>3, CountedPass DEF NInv
<1>4. CASE RestartManager
  BY <1>4, CountedRestart DEF NInv
<1> QED BY <1>1, <1>2, <1>3, <1>4 DEF NotificationsNext, NotificationProcessor

(***************************************************************************)
(* Preferences.                                                            *)
(***************************************************************************)

LEMMA SendChoices ==
  ASSUME NInv, NEW n \in Notes, SendNotification(n)
  PROVE  FillsRaced' /\ ChoiceKept'
<1>1. ChoiceKept'
  BY DEF NInv, ChoiceKept, SendNotification
<1>2. FillsRaced'
  <2> SUFFICES ASSUME NEW m \in Notes, at'[m] = "fill", given[Addressee[m]] # NoChoice
               PROVE  Addressee[m] \in raced
    BY DEF FillsRaced, SendNotification
  <2>1. CASE m # n
    <3>1. at[m] = "fill"
      BY <2>1 DEF NInv, NotificationsTypeOK, SendNotification, GoTo
    <3> QED BY <3>1 DEF NInv, FillsRaced
  <2>2. CASE m = n
    <3>1. prefs[Addressee[n]] = NoChoice
      BY <2>2, OutcomeTyped DEF NInv, NotificationsTypeOK, SendNotification, GoTo, Cached
    <3> QED BY <2>2, <3>1, Addressed DEF NInv, ChoiceKept
  <2> QED BY <2>1, <2>2
<1> QED BY <1>1, <1>2

LEMMA CacheChoices ==
  ASSUME NInv, NEW n \in Notes, CachePreferences(n)
  PROVE  FillsRaced' /\ ChoiceKept'
<1>1. at[n] = "fill" /\ UNCHANGED <<given, raced>>
  BY DEF CachePreferences
<1>2. ASSUME NEW m \in Notes, at'[m] = "fill" PROVE at[m] = "fill"
  BY <1>1, <1>2 DEF NInv, NotificationsTypeOK, CachePreferences, GoTo
<1>3. FillsRaced'
  BY <1>1, <1>2 DEF NInv, FillsRaced
<1>4. ASSUME NEW u \in Users, given[u] # NoChoice, u \notin raced PROVE prefs'[u] = given[u]
  <2>1. u # Addressee[n]
    BY <1>1, <1>4 DEF NInv, FillsRaced
  <2>2. prefs'[u] = prefs[u]
    BY <2>1 DEF NInv, NotificationsTypeOK, CachePreferences
  <2> QED BY <1>4, <2>2 DEF NInv, ChoiceKept
<1> QED BY <1>1, <1>3, <1>4 DEF ChoiceKept

LEMMA UpdateChoices ==
  ASSUME NInv, NEW u \in Users, NEW p \in Wishes, UpdatePreferences(u, p)
  PROVE  FillsRaced' /\ ChoiceKept'
<1>1. /\ \A v \in Users : v # u => prefs'[v] = prefs[v] /\ given'[v] = given[v]
      /\ prefs'[u] = p /\ given'[u] = p /\ at' = at
  BY DEF NInv, NotificationsTypeOK, UpdatePreferences
<1>2. \A v \in Users : v # u => (v \in raced' <=> v \in raced)
  BY DEF UpdatePreferences
<1>3. \A m \in Notes : Addressee[m] = u /\ at[m] = "fill" => u \in raced'
  BY DEF UpdatePreferences
<1>4. FillsRaced'
  BY <1>1, <1>2, <1>3, Addressed DEF NInv, FillsRaced
<1>5. ChoiceKept'
  BY <1>1, <1>2 DEF NInv, ChoiceKept
<1> QED BY <1>4, <1>5

\* Steps that send nothing anew and change no preferences.
LEMMA OtherChoices ==
  ASSUME NInv, UNCHANGED <<prefs, given, raced>>,
         \A n \in Notes : at'[n] = "fill" => at[n] = "fill"
  PROVE  FillsRaced' /\ ChoiceKept'
BY DEF NInv, FillsRaced, ChoiceKept

LEMMA ChoicesStep ==
  ASSUME NInv, [NotificationsNext]_noteVars
  PROVE  FillsRaced' /\ ChoiceKept'
<1>1. ASSUME NEW n \in Notes, SendNotification(n) PROVE FillsRaced' /\ ChoiceKept'
  BY <1>1, SendChoices
<1>2. ASSUME NEW n \in Notes, CachePreferences(n) PROVE FillsRaced' /\ ChoiceKept'
  BY <1>2, CacheChoices
<1>3. ASSUME NEW n \in Notes, QueueNotification(n) \/ DeliverNotification(n)
      PROVE  FillsRaced' /\ ChoiceKept'
  <2>1. \A m \in Notes : at'[m] = "fill" => at[m] = "fill"
    BY <1>3 DEF NInv, NotificationsTypeOK, QueueNotification, DeliverNotification, GoTo
  <2> QED BY <1>3, <2>1, OtherChoices DEF QueueNotification, DeliverNotification
<1>4. ASSUME NEW n \in Notes, DeliverAgain(n) \/ ComeDue(n) PROVE FillsRaced' /\ ChoiceKept'
  BY <1>4, OtherChoices DEF DeliverAgain, ComeDue
<1>5. ASSUME NEW u \in Users, NEW p \in Wishes, UpdatePreferences(u, p)
      PROVE  FillsRaced' /\ ChoiceKept'
  BY <1>5, UpdateChoices
<1>6. CASE \/ \E s \in Listeners : Subscribe(s) \/ GrowOld(s)
           \/ CleanupSubscriptions \/ PassTime \/ ProcessPending \/ UNCHANGED noteVars
  BY <1>6, OtherChoices DEF Subscribe, GrowOld, CleanupSubscriptions, PassTime, ProcessPending,
     noteVars
<1>7. CASE RestartManager
  <2>1. \A u \in Users : given'[u] = NoChoice
    BY <1>7 DEF RestartManager, NoPrefs
  <2> QED BY <2>1, Addressed DEF FillsRaced, ChoiceKept
<1> QED BY <1>1, <1>2, <1>3, <1>4, <1>5, <1>6, <1>7
        DEF NotificationsNext, Sending, NotificationProcessor

(***************************************************************************)
(* Theorems of the notifications.                                          *)
(***************************************************************************)

LEMMA NInit == NotificationsInit => NInv
<1> SUFFICES ASSUME NotificationsInit PROVE NInv
  OBVIOUS
<1>1. NotificationsTypeOK
  BY DEF NotificationsInit, NotificationsTypeOK, NoPrefs, NoneHeld
<1>2. \A n \in Notes : Counted(n)
  BY DEF NotificationsInit, NoneHeld, Counted
<1>3. FillsRaced /\ ChoiceKept
  BY Addressed DEF NotificationsInit, NoPrefs, FillsRaced, ChoiceKept
<1> QED BY <1>1, <1>2, <1>3 DEF NInv

LEMMA NNext == NInv /\ [NotificationsNext]_noteVars => NInv'
<1> SUFFICES ASSUME NInv, [NotificationsNext]_noteVars PROVE NInv'
  OBVIOUS
<1>1. NotificationsTypeOK'
  BY NotificationsTypeStep DEF NInv
<1>2. \A n \in Notes : Counted(n)'
  BY CountedStep
<1> QED BY <1>1, <1>2, ChoicesStep DEF NInv

LEMMA NotificationsInvariant == NotificationsSpec => []NInv
BY NInit, NNext, PTL DEF NotificationsSpec

\* Preferences, the queue and the counts of deliveries are of their types.
THEOREM NotificationsTyped == NotificationsSpec => []NotificationsTypeOK
BY NotificationsInvariant, PTL DEF NInv

\* However passes of the processor and the deliveries they spawn overlap, a note is
\* delivered once, or three times at most if it was held back.
THEOREM DeliveriesBounded == NotificationsSpec => []DeliveredAtMost
<1>1. NInv => DeliveredAtMost
  <2> SUFFICES ASSUME NInv, NEW n \in Notes PROVE seen[n] <= MostDeliveries(n)
    BY DEF DeliveredAtMost
  <2>1. at[n] \in Places /\ seen[n] \in 0..3 /\ again[n] \in 0..3 /\ Counted(n)
    BY DEF NInv, NotificationsTypeOK
  <2> QED BY <2>1 DEF Counted, MostDeliveries
<1> QED BY <1>1, NotificationsInvariant, PTL

\* What a user chose stays in force, but for one who chose while a notification was about
\* to cache the defaults.
THEOREM ChoicesKept == NotificationsSpec => []ChoiceKept
BY NotificationsInvariant, PTL DEF NInv

(***************************************************************************)
(* Licences.                                                               *)
(***************************************************************************)

\* Where a lookup of a sign that nothing spoilt may be while its last licence is fresh:
\* never at the source, and a store of the licence that differs from it has a lookup on
\* its way there.
LicenceGood(c) ==
  /\ \A l \in Busy(c) : /\ look[l].at # "fetch"
                        /\ look[l].at \in {"keep", "store", "note"} => look[l].info = last[c]
  /\ (\A l \in Busy(c) : look[l].at # "store") => saved[c] = last[c]
  /\ (\A l \in Busy(c) : look[l].at \notin {"store", "note"}) => kept[c] \in {0, last[c]}

LicenceHolds(c) == /\ \A l, k \in Busy(c) : l = k
                   /\ last[c] > old => LicenceGood(c)

LicenceInv == LicencesTypeOK /\ \A c \in Signs \ spoilt : LicenceHolds(c)

(***************************************************************************)
(* Stamps.                                                                 *)
(***************************************************************************)

\* A set of numbers up to a bound has a greatest.
LEMMA GreatestIs ==
  ASSUME NEW n \in Nat, NEW S \in SUBSET (0..n), S # {}
  PROVE  Max(S) \in S /\ \A y \in S : y <= Max(S)
<1> DEFINE Above == {x..n : x \in S}
<1>1. IsFiniteSet(0..n)
  BY FS_Interval
<1>2. IsWellFoundedOn(StrictSubsetOrdering(0..n), SUBSET (0..n))
  BY <1>1, FS_StrictSubsetOrderingWellFounded, FS_FiniteSubsetsOfFinite
<1>3. Above \subseteq SUBSET (0..n) /\ Above # {}
  <2>1. \A x \in S : x..n \in SUBSET (0..n)
    OBVIOUS
  <2> QED BY <2>1
<1>4. PICK A \in Above : \A B \in Above : <<B, A>> \notin StrictSubsetOrdering(0..n)
  <2> HIDE DEF Above
  <2> QED BY <1>2, <1>3, WFMin
<1>5. PICK x \in S : A = x..n
  BY <1>4
<1>6. ASSUME NEW y \in S, y > x PROVE FALSE
  <2>1. (y..n) \subseteq (x..n) /\ y..n # x..n
    BY <1>6
  <2>2. <<y..n, x..n>> \in StrictSubsetOrdering(0..n)
    BY <2>1, <1>3, <1>5 DEF StrictSubsetOrdering
  <2> QED BY <2>2, <1>4, <1>5
<1>7. \A y \in S : x >= y
  BY <1>6
<1>8. Max(S) \in S /\ \A y \in S : Max(S) >= y
  BY <1>7 DEF Max
<1> QED BY <1>8

LEMMA LatestIs ==
  ASSUME LicencesTypeOK
  PROVE  Max(Fetched) \in Stamps /\ \A c \in Signs : last[c] <= Max(Fetched)
<1>1. Fetched \in SUBSET (0..MaxFetches) /\ Fetched # {} /\ MaxFetches \in Nat
  BY LicenceAssumption DEF LicencesTypeOK, Fetched, Stamps
<1>2. Max(Fetched) \in Fetched /\ \A y \in Fetched : y <= Max(Fetched)
  BY <1>1, GreatestIs
<1> QED BY <1>1, <1>2 DEF Fetched, Stamps

\* What a lookup that is not at rest holds.
LEMMA LookFields ==
  ASSUME LicencesTypeOK, NEW l \in Lookups, look[l].at # "rest"
  PROVE  look[l] \in Lookup /\ look[l] # AtRest /\ look[l].sign \in Signs /\ look[l].info \in Stamps
BY DEF LicencesTypeOK, AtRest, Lookup

LEMMA BusyIs ==
  ASSUME LicencesTypeOK, NEW c \in Signs, NEW l \in Busy(c)
  PROVE  l \in Lookups /\ look[l] \in Lookup /\ look[l].sign = c
BY DEF LicencesTypeOK, Busy

(***************************************************************************)
(* Lookups.                                                                *)
(***************************************************************************)

\* A sign nothing touches holds as before.
LEMMA HoldsSame ==
  ASSUME NEW c, LicenceHolds(c), Busy(c)' = Busy(c), \A l \in Busy(c) : look'[l] = look[l],
         saved'[c] = saved[c], kept'[c] = kept[c], last'[c] = last[c], old' = old
  PROVE  LicenceHolds(c)'
BY DEF LicenceHolds, LicenceGood

\* A step of one lookup concerns its sign alone, of which it is the only one if that is
\* not spoilt.
LEMMA OneMoves ==
  ASSUME LicenceInv, NEW l \in Lookups, NEW c \in Signs, NEW r \in Lookup \cup {AtRest},
         look[l] = AtRest \/ look[l].sign = c, r = AtRest \/ r.sign = c,
         look' = [look EXCEPT ![l] = r],
         saved' \in [Signs -> Stamps], kept' \in [Signs -> Stamps], last' \in [Signs -> Stamps],
         \A d \in Signs \ {c} :
            saved'[d] = saved[d] /\ kept'[d] = kept[d] /\ last'[d] = last[d],
         old' = old, spoilt' \subseteq Signs, spoilt \ {c} \subseteq spoilt',
         c \notin spoilt' =>
           Busy(c) \subseteq {l} /\ (last'[c] > old' => LicenceGood(c)')
  PROVE  LicenceInv'
<1>1. LicencesTypeOK'
  BY DEF LicenceInv, LicencesTypeOK
<1>2. look'[l] = r /\ \A k \in Lookups : k # l => look'[k] = look[k]
  BY DEF LicenceInv, LicencesTypeOK
<1>3. ASSUME NEW d \in Signs \ spoilt', d # c PROVE LicenceHolds(d)'
  <2>1. LicenceHolds(d)
    BY <1>3 DEF LicenceInv
  <2>2. l \notin Busy(d) /\ Busy(d)' = Busy(d)
    BY <1>2, <1>3 DEF Busy
  <2>3. \A k \in Busy(d) : look'[k] = look[k]
    BY <1>2, <2>2 DEF Busy
  <2> QED BY <1>3, <2>1, <2>2, <2>3, HoldsSame
<1>4. ASSUME c \notin spoilt' PROVE LicenceHolds(c)'
  <2>1. Busy(c)' \subseteq {l}
    BY <1>2, <1>4 DEF Busy
  <2> QED BY <1>4, <2>1 DEF LicenceHolds
<1> QED BY <1>1, <1>3, <1>4 DEF LicenceInv

\* What a lookup that is the only one of a fresh sign knows.
LEMMA OnlyOne ==
  ASSUME LicenceInv, NEW l \in Lookups, NEW c \in Signs, look[l].at # "rest", look[l].sign = c,
         c \notin spoilt
  PROVE  /\ Busy(c) = {l}
         /\ last[c] > old => /\ look[l].at # "fetch" /\ last[c] # 0
                             /\ look[l].at \in {"keep", "store", "note"} => look[l].info = last[c]
                             /\ look[l].at # "store" => saved[c] = last[c]
                             /\ look[l].at \notin {"store", "note"} => kept[c] \in {0, last[c]}
<1>1. l \in Busy(c) /\ LicenceHolds(c)
  BY LookFields DEF LicenceInv, Busy
<1>2. Busy(c) = {l}
  BY <1>1 DEF LicenceHolds
<1>3. ASSUME last[c] > old PROVE last[c] # 0
  BY <1>3, LicenceAssumption DEF LicenceInv, LicencesTypeOK, Stamps
<1> QED BY <1>1, <1>2, <1>3 DEF LicenceHolds, LicenceGood

\* What is to be shown of the sign of a lookup that moves on, or answers.
Going(c, r) == /\ r.at # "fetch"
               /\ r.at \in {"keep", "store", "note"} => r.info = last'[c]
               /\ r.at # "store" => saved'[c] = last'[c]
               /\ r.at \notin {"store", "note"} => kept'[c] \in {0, last'[c]}
               /\ r.at \in {"store", "note"} => r.sign = c

LEMMA GoodGoing ==
  ASSUME LicenceInv, NEW l \in Lookups, NEW c \in Signs, NEW r,
         look' = [look EXCEPT ![l] = r], Busy(c) \subseteq {l}, Going(c, r)
  PROVE  LicenceGood(c)'
<1>1. look'[l] = r /\ \A k \in Lookups : k # l => look'[k] = look[k]
  BY DEF LicenceInv, LicencesTypeOK
<1>2. Busy(c)' \subseteq {l}
  BY <1>1 DEF Busy
<1>3. r.at \in {"store", "note"} => Busy(c)' = {l}
  BY <1>1, <1>2 DEF Busy, AtRest, Going
<1> QED BY <1>1, <1>2, <1>3 DEF LicenceGood, Going

LEMMA VerifyKeeps ==
  ASSUME LicenceInv, NEW l \in Lookups, NEW c \in Signs, VerifyLicense(l, c)
  PROVE  LicenceInv'
<1>0. [at |-> IF kept[c] = 0 THEN "load" ELSE "fetch", sign |-> c, info |-> 0] \in Lookup
  BY LicenceAssumption DEF Lookup, Stamps
<1>1. PICK r \in Lookup : /\ r = [at |-> IF kept[c] = 0 THEN "load" ELSE "fetch",
                                  sign |-> c, info |-> 0]
                          /\ look' = [look EXCEPT ![l] = r]
  BY <1>0 DEF VerifyLicense, TakeUp
<1>2. /\ spoilt' = IF Busy(c) # {} THEN spoilt \cup {c} ELSE spoilt
      /\ look[l] = AtRest /\ UNCHANGED <<saved, kept, last, old>>
  BY DEF VerifyLicense
<1>3. ASSUME c \notin spoilt', last[c] > old PROVE LicenceGood(c)'
  <2>1. Busy(c) = {} /\ LicenceHolds(c)
    BY <1>2, <1>3 DEF LicenceInv
  <2>2. saved[c] = last[c] /\ kept[c] \in {0, last[c]}
    BY <1>3, <2>1 DEF LicenceHolds, LicenceGood
  <2>3. kept[c] = 0
    BY <1>3, <2>2 DEF VerifyLicense, Fresh
  <2>4. Going(c, r)
    BY <1>1, <1>2, <2>2, <2>3 DEF Going
  <2> QED BY <1>1, <2>1, <2>4, GoodGoing
<1> QED BY <1>1, <1>2, <1>3, OneMoves DEF LicenceInv, LicencesTypeOK

LEMMA LoadLicenseKeeps ==
  ASSUME LicenceInv, NEW l \in Lookups, NEW c \in Signs, look[l].sign = c, LoadLicense(l)
  PROVE  LicenceInv'
<1>0. [at |-> IF saved[c] = 0 THEN "fetch" ELSE "keep", sign |-> c, info |-> saved[c]] \in Lookup
  BY DEF LicenceInv, LicencesTypeOK, Lookup
<1>1. PICK r \in Lookup : /\ r = [at |-> IF saved[c] = 0 THEN "fetch" ELSE "keep",
                                  sign |-> c, info |-> saved[c]]
                          /\ look' = [look EXCEPT ![l] = r]
  BY <1>0 DEF LoadLicense, TakeUp
<1>2. look[l].at = "load" /\ UNCHANGED <<saved, kept, last, old, spoilt>>
  BY DEF LoadLicense
<1>3. ASSUME c \notin spoilt, last[c] > old PROVE LicenceGood(c)'
  <2>1. Busy(c) = {l} /\ last[c] # 0 /\ saved[c] = last[c] /\ kept[c] \in {0, last[c]}
    BY <1>2, <1>3, OnlyOne
  <2>2. Going(c, r)
    BY <1>1, <1>2, <2>1 DEF Going
  <2> QED BY <1>1, <2>1, <2>2, GoodGoing
<1>4. c \notin spoilt => Busy(c) \subseteq {l}
  BY <1>2, OnlyOne
<1>5. /\ r.sign = c /\ spoilt' \subseteq Signs
      /\ saved' \in [Signs -> Stamps] /\ kept' \in [Signs -> Stamps] /\ last' \in [Signs -> Stamps]
  BY <1>1, <1>2 DEF LicenceInv, LicencesTypeOK
<1> QED BY <1>1, <1>2, <1>3, <1>4, <1>5, OneMoves

LEMMA KeepKeeps ==
  ASSUME LicenceInv, NEW l \in Lookups, NEW c \in Signs, look[l].sign = c, KeepLicense(l)
  PROVE  LicenceInv'
<1>0. [at |-> "fetch", sign |-> c, info |-> 0] \in Lookup
  BY LicenceAssumption DEF Lookup, Stamps
<1>1. PICK r \in Lookup \cup {AtRest} :
        /\ r = IF Fresh(look[l].info) THEN AtRest ELSE [at |-> "fetch", sign |-> c, info |-> 0]
        /\ look' = [look EXCEPT ![l] = r]
  BY <1>0 DEF KeepLicense, TakeUp, Answer
<1>2. /\ look[l].at = "keep" /\ UNCHANGED <<saved, last, old, spoilt>>
      /\ kept' = [kept EXCEPT ![c] = look[l].info]
  BY DEF KeepLicense
<1>3. ASSUME c \notin spoilt, last[c] > old PROVE LicenceGood(c)'
  <2>1. Fresh(look[l].info) /\ Busy(c) = {l} /\ look[l].info = last[c] /\ saved[c] = last[c]
    BY <1>2, <1>3, OnlyOne DEF Fresh
  <2>2. r = AtRest /\ kept'[c] = last[c]
    BY <1>1, <1>2, <2>1 DEF LicenceInv, LicencesTypeOK
  <2>3. r.at = "rest"
    BY <2>2 DEF AtRest
  <2>4. Going(c, AtRest)
    BY <1>2, <2>1, <2>2, <2>3 DEF Going
  <2> QED BY <1>1, <2>1, <2>2, <2>4, GoodGoing
<1>4. c \notin spoilt => Busy(c) \subseteq {l}
  BY <1>2, OnlyOne
<1>5. kept' \in [Signs -> Stamps]
  BY <1>2, LookFields DEF LicenceInv, LicencesTypeOK
<1>6. \A d \in Signs \ {c} : kept'[d] = kept[d]
  BY <1>2 DEF LicenceInv, LicencesTypeOK
<1>7. r = AtRest \/ r.sign = c
  BY <1>1
<1> QED BY <1>1, <1>2, <1>3, <1>4, <1>5, <1>6, <1>7, OneMoves DEF LicenceInv, LicencesTypeOK

LEMMA FetchKeeps ==
  ASSUME LicenceInv, NEW l \in Lookups, NEW c \in Signs, look[l].sign = c, FetchLicense(l)
  PROVE  LicenceInv'
<1> DEFINE stamp == Max(Fetched) + 1
<1>1. stamp \in Stamps
  BY LicenceAssumption, LatestIs DEF LicenceInv, FetchLicense, Stamps
<1>2. PICK r \in Lookup : r = [at |-> "store", sign |-> c, info |-> stamp]
                          /\ look' = [look EXCEPT ![l] = r]
  BY <1>1 DEF FetchLicense, TakeUp, Lookup
<1>3. /\ look[l].at = "fetch" /\ UNCHANGED <<saved, kept, old, spoilt>>
      /\ last' = [last EXCEPT ![c] = stamp]
  BY DEF FetchLicense
<1> HIDE DEF stamp
<1>4. /\ last' \in [Signs -> Stamps] /\ last'[c] = stamp
      /\ \A d \in Signs \ {c} : last'[d] = last[d]
  BY <1>1, <1>3 DEF LicenceInv, LicencesTypeOK
<1>5. ASSUME c \notin spoilt PROVE Busy(c) \subseteq {l} /\ LicenceGood(c)'
  <2>1. Busy(c) = {l}
    BY <1>3, <1>5, OnlyOne
  <2>2. Going(c, r)
    BY <1>2, <1>4 DEF Going
  <2> QED BY <1>2, <2>1, <2>2, GoodGoing
<1> QED BY <1>2, <1>3, <1>4, <1>5, OneMoves DEF LicenceInv, LicencesTypeOK

LEMMA StoreKeeps ==
  ASSUME LicenceInv, NEW l \in Lookups, NEW c \in Signs, look[l].sign = c, StoreLicense(l)
  PROVE  LicenceInv'
<1>1. look[l].at = "store" /\ look[l].info \in Stamps
  BY LookFields DEF LicenceInv, StoreLicense
<1>2. PICK r \in Lookup : /\ r = [at |-> "note", sign |-> c, info |-> look[l].info]
                          /\ look' = [look EXCEPT ![l] = r]
  BY <1>1 DEF StoreLicense, TakeUp, Lookup
<1>3. saved' = [saved EXCEPT ![c] = look[l].info] /\ UNCHANGED <<kept, last, old, spoilt>>
  BY DEF StoreLicense, ReplacedRow
<1>4. /\ saved' \in [Signs -> Stamps] /\ saved'[c] = look[l].info
      /\ \A d \in Signs \ {c} : saved'[d] = saved[d]
  BY <1>1, <1>3 DEF LicenceInv, LicencesTypeOK
<1>5. ASSUME c \notin spoilt, last[c] > old PROVE LicenceGood(c)'
  <2>1. Busy(c) = {l} /\ look[l].info = last[c]
    BY <1>1, <1>5, OnlyOne
  <2>2. Going(c, r)
    BY <1>2, <1>3, <1>4, <2>1 DEF Going
  <2> QED BY <1>2, <2>1, <2>2, GoodGoing
<1>6. c \notin spoilt => Busy(c) \subseteq {l}
  BY <1>1, OnlyOne
<1> QED BY <1>2, <1>3, <1>4, <1>5, <1>6, OneMoves DEF LicenceInv, LicencesTypeOK

\* Only a licence that is in the table and in the memory makes a sign whole again.
LEMMA NoteKeeps ==
  ASSUME LicenceInv, NEW l \in Lookups, NEW c \in Signs, look[l].sign = c, NoteLicense(l)
  PROVE  LicenceInv'
<1> DEFINE Whole == Busy(c) = {l} /\ look[l].info = last[c] /\ saved[c] = last[c]
<1>1. look[l].at = "note" /\ look[l].info \in Stamps
  BY LookFields DEF LicenceInv, NoteLicense
<1>2. /\ look' = [look EXCEPT ![l] = AtRest] /\ UNCHANGED <<saved, last, old>>
      /\ kept' = [kept EXCEPT ![c] = look[l].info]
      /\ spoilt' = IF Whole THEN spoilt \ {c} ELSE spoilt
  BY DEF NoteLicense, Answer
<1>3. /\ kept' \in [Signs -> Stamps] /\ kept'[c] = look[l].info
      /\ \A d \in Signs \ {c} : kept'[d] = kept[d]
  BY <1>1, <1>2 DEF LicenceInv, LicencesTypeOK
<1>4. AtRest.at = "rest"
  BY DEF AtRest
<1>5. Whole => LicenceGood(c)'
  BY <1>2, <1>3, <1>4, GoodGoing DEF Going
<1>6. ASSUME c \notin spoilt PROVE Busy(c) = {l} /\ (last[c] > old => Whole)
  BY <1>1, <1>6, OnlyOne
<1> QED BY <1>2, <1>3, <1>5, <1>6, OneMoves DEF LicenceInv, LicencesTypeOK

LEMMA LookupFails ==
  ASSUME LicenceInv, NEW l \in Lookups, NEW c \in Signs, look[l].sign = c, LicenseDbError(l)
  PROVE  LicenceInv'
<1>1. /\ look[l].at \in {"load", "store"} /\ UNCHANGED <<saved, kept, last, old>>
      /\ look' = [look EXCEPT ![l] = AtRest]
      /\ spoilt' = IF look[l].at = "store" THEN spoilt \cup {c} ELSE spoilt
  BY DEF LicenseDbError, Answer
<1>2. AtRest.at = "rest"
  BY DEF AtRest
<1>3. ASSUME c \notin spoilt', last[c] > old PROVE LicenceGood(c)'
  <2>1. c \notin spoilt /\ look[l].at = "load"
    BY <1>1, <1>3
  <2>2. Busy(c) = {l} /\ Going(c, AtRest)
    BY <1>1, <1>2, <1>3, <2>1, OnlyOne DEF Going
  <2> QED BY <1>1, <2>2, GoodGoing
<1>4. c \notin spoilt' => Busy(c) \subseteq {l}
  BY <1>1, OnlyOne
<1> QED BY <1>1, <1>3, <1>4, OneMoves DEF LicenceInv, LicencesTypeOK

(***************************************************************************)
(* Steps of no lookup.                                                     *)
(***************************************************************************)

LEMMA CleanupKeeps ==
  ASSUME LicenceInv, NEW cutoff, CleanupLicenseCache(cutoff)
  PROVE  LicenceInv'
<1>1. /\ saved' = [c \in Signs |-> IF saved[c] <= cutoff THEN 0 ELSE saved[c]]
      /\ spoilt' = spoilt \cup {c \in Signs : Fresh(saved[c]) /\ saved[c] <= cutoff}
      /\ UNCHANGED <<kept, look, old, last>>
  BY DEF CleanupLicenseCache
<1>2. LicencesTypeOK'
  BY <1>1, LicenceAssumption DEF LicenceInv, LicencesTypeOK, Stamps
<1>3. ASSUME NEW c \in Signs \ spoilt' PROVE LicenceHolds(c)'
  <2>1. LicenceHolds(c) /\ ~(Fresh(saved[c]) /\ saved[c] <= cutoff)
    BY <1>1, <1>3 DEF LicenceInv
  <2>2. Busy(c)' = Busy(c)
    BY <1>1 DEF Busy
  <2>3. ASSUME last[c] > old PROVE LicenceGood(c)'
    <3>1. LicenceGood(c)
      BY <2>1, <2>3 DEF LicenceHolds
    <3>2. saved[c] = last[c] => saved'[c] = last[c]
      BY <1>1, <2>1, <2>3 DEF Fresh
    <3> QED BY <1>1, <2>2, <3>1, <3>2 DEF LicenceGood
  <2> QED BY <1>1, <2>1, <2>2, <2>3 DEF LicenceHolds
<1> QED BY <1>2, <1>3 DEF LicenceInv

LEMMA ClearKeeps ==
  ASSUME LicenceInv, ClearLicences
  PROVE  LicenceInv'
<1>1. kept' = [c \in Signs |-> 0] /\ UNCHANGED <<saved, look, old, last, spoilt>>
  BY DEF ClearLicences, NoLicences
<1>2. LicencesTypeOK'
  BY <1>1, LicenceAssumption DEF LicenceInv, LicencesTypeOK, Stamps
<1>3. ASSUME NEW c \in Signs \ spoilt PROVE LicenceHolds(c)'
  <2>1. LicenceHolds(c) /\ Busy(c)' = Busy(c) /\ kept'[c] = 0
    BY <1>1, <1>3 DEF LicenceInv, Busy
  <2> QED BY <1>1, <2>1 DEF LicenceHolds, LicenceGood
<1> QED BY <1>1, <1>2, <1>3 DEF LicenceInv

LEMMA AgeKeeps ==
  ASSUME LicenceInv, GrowOlder
  PROVE  LicenceInv'
<1>1. PICK t \in 1..Max(Fetched) : t > old /\ old' = t
  BY DEF GrowOlder
<1>2. UNCHANGED <<saved, kept, look, last, spoilt>>
  BY DEF GrowOlder
<1>3. t \in Stamps
  BY LatestIs, LicenceAssumption DEF LicenceInv, Stamps
<1>4. LicencesTypeOK'
  BY <1>1, <1>2, <1>3 DEF LicenceInv, LicencesTypeOK
<1>5. ASSUME NEW c \in Signs \ spoilt PROVE LicenceHolds(c)'
  <2>1. LicenceHolds(c) /\ Busy(c)' = Busy(c)
    BY <1>2, <1>5 DEF LicenceInv, Busy
  <2>2. last[c] > old' => last[c] > old
    BY <1>1, <1>3 DEF LicenceInv, LicencesTypeOK, Stamps
  <2> QED BY <1>2, <2>1, <2>2 DEF LicenceHolds, LicenceGood
<1> QED BY <1>2, <1>4, <1>5 DEF LicenceInv

LEMMA StartKeeps ==
  ASSUME LicenceInv, RestartLicences
  PROVE  LicenceInv'
<1>1. /\ kept' = [c \in Signs |-> 0] /\ look' = [l \in Lookups |-> AtRest]
      /\ spoilt' = spoilt \cup {c \in Signs : \E l \in Busy(c) : look[l].at = "store"}
      /\ UNCHANGED <<saved, old, last>>
  BY DEF RestartLicences, NoLicences
<1>2. LicencesTypeOK'
  BY <1>1, LicenceAssumption DEF LicenceInv, LicencesTypeOK, Stamps
<1>3. ASSUME NEW c \in Signs \ spoilt' PROVE LicenceHolds(c)'
  <2>1. LicenceHolds(c) /\ (\A l \in Busy(c) : look[l].at # "store") /\ Busy(c)' = {}
    BY <1>1, <1>3 DEF LicenceInv, Busy
  <2> QED BY <1>1, <2>1 DEF LicenceHolds, LicenceGood
<1> QED BY <1>2, <1>3 DEF LicenceInv

(***************************************************************************)
(* Theorems of the licences.                                               *)
(***************************************************************************)

LEMMA LicencesStart == LicencesInit => LicenceInv
<1> SUFFICES ASSUME LicencesInit PROVE LicenceInv
  OBVIOUS
<1>1. LicencesTypeOK
  BY LicenceAssumption DEF LicencesInit, LicencesTypeOK, NoLicences, Stamps
<1>2. \A c \in Signs : Busy(c) = {} /\ last[c] = 0 /\ old = 0
  BY DEF LicencesInit, NoLicences, Busy
<1> QED BY <1>1, <1>2 DEF LicenceInv, LicenceHolds

LEMMA LicencesKept == LicenceInv /\ [LicencesNext]_licenceVars => LicenceInv'
<1> SUFFICES ASSUME LicenceInv, [LicencesNext]_licenceVars PROVE LicenceInv'
  OBVIOUS
<1>1. ASSUME NEW l \in Lookups, Verifying(l) PROVE LicenceInv'
  <2>1. look[l].at # "rest"
    BY <1>1 DEF Verifying, LoadLicense, KeepLicense, FetchLicense, StoreLicense, NoteLicense,
       LicenseDbError
  <2>2. PICK c \in Signs : look[l].sign = c
    BY <2>1, LookFields DEF LicenceInv
  <2> QED BY <1>1, <2>2, LoadLicenseKeeps, KeepKeeps, FetchKeeps, StoreKeeps, NoteKeeps, LookupFails
          DEF Verifying
<1>2. CASE UNCHANGED licenceVars
  <2>1. UNCHANGED <<saved, kept, look, old, last, spoilt>>
    BY <1>2 DEF licenceVars
  <2>2. LicencesTypeOK'
    BY <2>1 DEF LicenceInv, LicencesTypeOK
  <2>3. \A c \in Signs \ spoilt : LicenceHolds(c)'
    BY <2>1 DEF LicenceInv, LicenceHolds, LicenceGood, Busy
  <2> QED BY <2>1, <2>2, <2>3 DEF LicenceInv
<1> QED BY <1>1, <1>2, VerifyKeeps, CleanupKeeps, ClearKeeps, AgeKeeps, StartKeeps
        DEF LicencesNext

LEMMA LicencesAlways == LicencesSpec => []LicenceInv
BY LicencesStart, LicencesKept, PTL DEF LicencesSpec

\* The table, the memory and the lookups of licences are of their types.
THEOREM LicencesTyped == LicencesSpec => []LicencesTypeOK
BY LicencesAlways, PTL DEF LicenceInv

LEMMA Spared ==
  ASSUME LicenceInv, [LicencesNext]_licenceVars, NEW c \in Signs, last'[c] # last[c]
  PROVE  last[c] <= old \/ c \in spoilt
<1>1. PICK l \in Lookups : FetchLicense(l)
  BY DEF LicencesNext, Verifying, VerifyLicense, LoadLicense, KeepLicense, StoreLicense,
     NoteLicense, LicenseDbError, CleanupLicenseCache, ClearLicences, GrowOlder,
     RestartLicences, licenceVars
<1>2. look[l].at = "fetch" /\ look[l].sign = c
  BY <1>1 DEF LicenceInv, LicencesTypeOK, FetchLicense
<1>3. CASE c \notin spoilt
  <2>1. ~(last[c] > old)
    BY <1>2, <1>3, OnlyOne
  <2> QED BY <2>1 DEF LicenceInv, LicencesTypeOK, Stamps
<1> QED BY <1>3

\* Whatever lookups overlap, clear, age or start again, the source is asked for a sign it
\* has answered only when that answer is old, but for the ways a licence is spoilt.
THEOREM SourcesSpared == LicencesSpec => SourceSpared
<1>1. LicenceInv /\ [LicencesNext]_licenceVars =>
        [\A c \in Signs : last'[c] # last[c] => last[c] <= old \/ c \in spoilt]_licenceVars
  BY Spared
<1> QED BY <1>1, LicencesAlways, PTL DEF LicencesSpec, SourceSpared

(***************************************************************************)
(* The node.                                                               *)
(***************************************************************************)

LEMMA StartSides ==
  ASSUME StartStep
  PROVE  NodeStartNext
<1>1. Plain("other") \in Given
  BY Commanding DEF Given
<1>2. CASE SchemaSide
  BY <1>1, <1>2 DEF SchemaSide, NodeStartNext, Starting
<1>3. CASE SetUpSide
  BY <1>3 DEF SetUpSide, NodeStartNext, Starting
<1> QED BY <1>2, <1>3 DEF StartStep

LEMMA GroupSides ==
  ASSUME GroupStep
  PROVE  GroupsNext
<1>1. CASE MembersSide
  BY <1>1, NodeAssumption DEF MembersSide, OneGroup, GroupsNext, Creating
<1>2. CASE ListingSide
  BY <1>2, NodeAssumption DEF ListingSide, GroupsNext, Creating, Joining
<1>3. CASE ListsSide
  BY <1>3, NodeAssumption DEF ListsSide, GroupsNext, Creating, Joining, Listing
<1> QED BY <1>1, <1>2, <1>3 DEF GroupStep

LEMMA MailSides ==
  ASSUME MailStep
  PROVE  MailboxNext
<1>1. CASE CountsSide
  BY <1>1 DEF CountsSide
<1>2. CASE ThreadsSide
  BY <1>2 DEF ThreadsSide, MailboxNext
<1> QED BY <1>1, <1>2 DEF MailStep

\* A step of the node is a step of one part, or of none.
LEMMA NodeSteps ==
  ASSUME [NodeNext]_nodeWideVars
  PROVE  /\ [NodeStartNext]_startVars
         /\ [GroupsNext]_groupVars
         /\ [NotificationsNext]_noteVars
         /\ [MailboxNext]_mailVars
         /\ [LicencesNext]_licenceVars
BY StartSides, GroupSides, MailSides DEF NodeNext, nodeWideVars, NoteStep, LicenceStep

\* Nothing in the node disturbs a part of it: each does what its own specification says.
THEOREM PartsStand ==
  NodeSpec => GroupsSpec /\ NotificationsSpec /\ MailboxSpec /\ LicencesSpec
<1>1. NodeInit => GroupsInit /\ NotificationsInit /\ MailboxInit /\ LicencesInit
  BY DEF NodeInit
<1> QED BY <1>1, NodeSteps, PTL
        DEF NodeSpec, GroupsSpec, NotificationsSpec, MailboxSpec, LicencesSpec

\* The processes start on no schema, or on the whole of it.
LEMMA NodeStarts == NodeInit => IdInv /\ SchemaInv /\ CatalogueInv
<1> SUFFICES ASSUME NodeInit PROVE IdInv /\ SchemaInv /\ CatalogueInv
  OBVIOUS
<1>1. CASE MigrationsInit
  BY <1>1, IdStarts, SchemaStarts, CatalogueStarts DEF NodeInit, NodeStartInit
<1>2. CASE Migrated
  <2>0. /\ objects = Objects /\ applied = Versions /\ version = 6 /\ filled = {}
        /\ job = [p \in Procs |-> Idle] /\ undos = 0 /\ harm = {}
        /\ nodes = <<>> /\ command = [p \in Procs |-> Plain("other")]
        /\ copy = [p \in Procs |-> NoCopy] /\ forced = FALSE /\ together = FALSE
    BY <1>2 DEF NodeInit, NodesInit, Migrated, Latest
  <2>1. \A p \in Procs : job[p] \in Job /\ job[p].at = "idle"
    BY <2>0, IdleTyped
  <2>2. IdInv
    <3>1. Creators = {} /\ Servers = {}
      BY <2>0, Commanding DEF Creators, Servers
    <3>2. JobsTyped
      BY <2>0, IdleTyped DEF JobsTyped
    <3>3. NodeStartTypeOK
      <4>1. nodes \in Seq(Callsigns)
        BY <2>0
      <4> QED BY <2>0, <4>1, Commanding DEF NodeStartTypeOK
    <3>4. CreateOnly /\ NoneBefore /\ OneNode /\ RowsThere
      BY <2>0, <3>1 DEF CreateOnly, NoneBefore, OneNode, RowsThere
    <3>5. Undone /\ FirstHeld
      BY <2>0, <2>1, <3>1 DEF Undone, Undoing, FirstHeld
    <3> QED BY <3>2, <3>3, <3>4, <3>5 DEF IdInv
  <2>3. SchemaInv
    <3>1. Apart /\ Alone /\ StartFails /\ Placed
      BY <2>1 DEF Apart, Alone, StartFails, Placed, Upward, Downward, Dropping, Running,
         Undoing, At
    <3>2. CurrentVersion = 6 /\ version # NoRow
      BY <2>0 DEF CurrentVersion, NoRow
    <3>3. applied = 1..6 /\ Tracking \subseteq objects
      BY <2>0, Created, Disjoint
    <3>4. objects \ Tracking = Schema(6)
      <4>1. Schema(6) = Creates(1) \cup Creates(2) \cup Creates(3) \cup Creates(4)
                        \cup Creates(5) \cup Creates(6)
        <5>1. 1..6 = {1, 2, 3, 4, 5, 6}
          OBVIOUS
        <5> QED BY <5>1 DEF Schema
      <4>2. \A v \in 1..6 : Creates(v) \cap Tracking = {}
        BY Disjoint
      <4> QED BY <2>0, <4>1, <4>2, AllTables, Disjoint DEF Indexes
    <3>5. Settled
      BY <3>2, <3>3, <3>4 DEF Settled, Stands
    <3> QED BY <2>0, <3>1, <3>5 DEF SchemaInv
  <2>4. CatalogueInv
    <3>1. MigrationsTypeOK
      BY <2>0, IdleTyped, TargetAssumption DEF MigrationsTypeOK
    <3> QED BY <2>1, <3>1 DEF CatalogueInv, Advancing, At
  <2> QED BY <2>2, <2>3, <2>4
<1> QED BY <1>1, <1>2 DEF NodeInit

LEMMA NodeStartAlways == NodeSpec => [](IdInv /\ SchemaInv /\ CatalogueInv)
<1>1. /\ IdInv /\ SchemaInv /\ CatalogueInv
      /\ [NodeNext]_nodeWideVars
      => (IdInv /\ SchemaInv /\ CatalogueInv)'
  <2> SUFFICES ASSUME IdInv, SchemaInv, CatalogueInv, [NodeNext]_nodeWideVars
               PROVE  IdInv' /\ SchemaInv' /\ CatalogueInv'
    OBVIOUS
  <2>1. [NodeStartNext]_startVars
    BY NodeSteps
  <2>2. IdInv' /\ JobsTyped
    BY <2>1, IdKept DEF IdInv
  <2> QED BY <2>1, <2>2, SchemaKept, CatalogueKept
<1> QED BY <1>1, NodeStarts, PTL DEF NodeSpec

\* Every part's state stays of its type, whichever part is under way.
THEOREM NodeTyped == NodeSpec => []NodeTypeOK
<1>1. /\ IdInv /\ SchemaInv /\ CatalogueInv /\ GroupsTypeOK /\ NotificationsTypeOK
      /\ MailboxTypeOK /\ LicencesTypeOK
      => NodeTypeOK
  BY DEF NodeTypeOK, IdInv, CatalogueInv
<1> QED BY <1>1, PartsStand, NodeStartAlways, GroupsTyped, NotificationsTyped, MailTyped,
           LicencesTyped, PTL

\* A node that starts with the schema there, as one does from its second start on, keeps
\* what is said of one that starts with none.
THEOREM NodeStartsSafely ==
  NodeSpec => [](SchemaMatches /\ StartFails /\ OneNode /\ FirstIdentity)
<1>1. IdInv /\ SchemaInv => SchemaMatches /\ StartFails /\ OneNode /\ FirstIdentity
  <2>1. IdInv => OneNode /\ FirstIdentity
    BY DEF IdInv, FirstHeld, FirstIdentity, Servers, Ready
  <2>2. SchemaInv => SchemaMatches /\ StartFails
    BY DEF SchemaInv, SchemaMatches, Settled, Settling, Clean, Stands, Consistent
  <2> QED BY <2>1, <2>2
<1> QED BY <1>1, NodeStartAlways, PTL
=============================================================================
