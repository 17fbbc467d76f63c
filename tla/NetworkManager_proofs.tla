------------------------ MODULE NetworkManager_proofs ------------------------
(***************************************************************************)
(* Safety of NetworkManager for any number of clients, peers and           *)
(* configured peers, with the bounds of the model left open.               *)
(***************************************************************************)
EXTENDS NetworkManager, FiniteSetTheorems, TLAPS

(***************************************************************************)
(* What asking for a lock and releasing it do to its other users, for any  *)
(* set of tasks.                                                           *)
(***************************************************************************)

LEMMA OpenOrder ==
  ASSUME NEW T
  PROVE  Open(T) \in Lock(T) /\ InOrder(Open(T))
BY DEF Open, Apart, Lock, Ask, InOrder, Asking

\* A task that asks comes after all that asked before, and takes the lock from nobody.
LEMMA AskedOrder ==
  ASSUME NEW T, NEW q \in Lock(T), InOrder(q), NEW t \in T, q[t].want = "none",
         NEW want \in {"read", "write"}
  PROVE  /\ Asked(q, t, want) \in Lock(T)
         /\ InOrder(Asked(q, t, want))
         /\ Asked(q, t, want)[t].want = want
         /\ \A r \in T \ {t} : /\ Asked(q, t, want)[r] = q[r]
                               /\ Holds(q, r) => Holds(Asked(q, t, want), r)
<1> DEFINE a == Asked(q, t, want)
<1>1. a \in Lock(T)
  BY DEF Asked, Lock, Ask, Asking
<1>2. DOMAIN a = T /\ DOMAIN q = T
  BY <1>1 DEF Lock
<1>3. a[t].want = want /\ a[t].ahead = Asking(q) /\ \A r \in T \ {t} : a[r] = q[r]
  BY DEF Asked, Lock
<1>4. Asking(a) = Asking(q) \cup {t}
  BY <1>2, <1>3 DEF Asking
<1>5. t \notin Asking(q) /\ \A r \in T : t \notin q[r].ahead
  BY <1>2 DEF InOrder, Asking
<1>6. InOrder(a)
  <2>1. Asking(q) \subseteq T
    BY <1>2 DEF Asking
  <2>2. ASSUME NEW r \in T, a[r].want = "none"
        PROVE  a[r].ahead = {}
    BY <1>2, <1>3, <2>2 DEF InOrder
  <2>3. ASSUME NEW r \in T
        PROVE  a[r].ahead \subseteq Asking(a) \ {r}
    BY <1>2, <1>3, <1>4, <1>5 DEF InOrder
  <2>4. ASSUME NEW r \in Asking(a), NEW s \in Asking(a), r # s
        PROVE  r \in a[s].ahead \/ s \in a[r].ahead
    <3>1. CASE r = t
      BY <1>3, <1>4, <2>4, <3>1
    <3>2. CASE s = t
      BY <1>3, <1>4, <2>4, <3>2
    <3>3. CASE r # t /\ s # t
      BY <1>3, <1>4, <2>1, <2>4, <3>3 DEF InOrder
    <3> QED BY <3>1, <3>2, <3>3
  <2>5. ASSUME NEW r \in T, NEW s \in a[r].ahead
        PROVE  a[s].ahead \subseteq a[r].ahead
    <3>1. s \in Asking(q) /\ s \in T \ {t} /\ a[s] = q[s]
      BY <1>2, <1>3, <1>5, <2>1, <2>5 DEF InOrder
    <3>2. CASE r = t
      BY <1>2, <1>3, <3>1, <3>2 DEF InOrder
    <3>3. CASE r # t
      BY <1>2, <1>3, <2>5, <3>1, <3>3 DEF InOrder
    <3> QED BY <3>2, <3>3
  <2> HIDE DEF a
  <2> QED BY <1>2, <2>2, <2>3, <2>4, <2>5 DEF InOrder
<1>7. ASSUME NEW r \in T \ {t}, Holds(q, r)
      PROVE  Holds(a, r)
  <2>1. \A s \in q[r].ahead : s \in T \ {t}
    BY <1>5 DEF Lock
  <2> QED BY <1>3, <1>7, <2>1 DEF Holds
<1> QED BY <1>1, <1>3, <1>6, <1>7

\* A release lets the others pass, and takes the lock from nobody.
LEMMA ReleasedOrder ==
  ASSUME NEW T, NEW q \in Lock(T), InOrder(q), NEW t \in T
  PROVE  /\ Released(q, t) \in Lock(T)
         /\ InOrder(Released(q, t))
         /\ Released(q, t)[t].want = "none"
         /\ \A r \in T \ {t} : /\ Released(q, t)[r].want = q[r].want
                               /\ Holds(q, r) => Holds(Released(q, t), r)
<1> DEFINE a == Released(q, t)
<1>1. a \in Lock(T)
  BY DEF Released, Lock, Ask, Apart
<1>2. DOMAIN a = T /\ DOMAIN q = T
  BY <1>1 DEF Lock
<1>3. a[t] = Apart /\ \A r \in T \ {t} : a[r].want = q[r].want /\ a[r].ahead = q[r].ahead \ {t}
  BY DEF Released, Lock
<1>4. Asking(a) = Asking(q) \ {t}
  BY <1>2, <1>3 DEF Asking, Apart
<1>5. InOrder(a)
  <2>1. Asking(q) \subseteq T
    BY <1>2 DEF Asking
  <2>2. ASSUME NEW r \in T, a[r].want = "none"
        PROVE  a[r].ahead = {}
    <3>1. CASE r = t
      BY <1>3, <3>1 DEF Apart
    <3>2. CASE r # t
      BY <1>2, <1>3, <2>2, <3>2 DEF InOrder
    <3> QED BY <3>1, <3>2
  <2>3. ASSUME NEW r \in T
        PROVE  a[r].ahead \subseteq Asking(a) \ {r}
    <3>1. CASE r = t
      BY <1>3, <3>1 DEF Apart
    <3>2. CASE r # t
      BY <1>2, <1>3, <1>4, <3>2 DEF InOrder
    <3> QED BY <3>1, <3>2
  <2>4. ASSUME NEW r \in Asking(a), NEW s \in Asking(a), r # s
        PROVE  r \in a[s].ahead \/ s \in a[r].ahead
    BY <1>3, <1>4, <2>1, <2>4 DEF InOrder
  <2>5. ASSUME NEW r \in T, NEW s \in a[r].ahead
        PROVE  a[s].ahead \subseteq a[r].ahead
    <3>1. r # t /\ s \in q[r].ahead /\ s # t
      BY <1>3, <2>5 DEF Apart
    <3>2. s \in T
      BY <1>2, <2>1, <3>1 DEF InOrder
    <3> QED BY <1>2, <1>3, <3>1, <3>2 DEF InOrder
  <2> HIDE DEF a
  <2> QED BY <1>2, <2>2, <2>3, <2>4, <2>5 DEF InOrder
<1>6. ASSUME NEW r \in T \ {t}, Holds(q, r)
      PROVE  Holds(a, r)
  <2>1. \A s \in a[r].ahead : s \in T \ {t} /\ s \in q[r].ahead
    BY <1>3 DEF Lock
  <2> QED BY <1>3, <1>6, <2>1 DEF Holds
<1> QED BY <1>1, <1>3, <1>5, <1>6 DEF Apart

\* tokio's promise: a writer holds the lock alone.
THEOREM Exclusion ==
  ASSUME NEW T, NEW q \in Lock(T), InOrder(q)
  PROVE  Exclusive(q)
<1> SUFFICES ASSUME NEW t \in T, NEW r \in T, Writes(q, t), Holds(q, r), r # t
             PROVE  FALSE
  BY DEF Exclusive, Lock
<1>1. t \in Asking(q) /\ r \in Asking(q)
  BY DEF Writes, Holds, Asking, Lock
<1>2. r \notin q[t].ahead
  BY DEF Writes, Holds
<1>3. t \in q[r].ahead
  BY <1>1, <1>2 DEF InOrder
<1> QED BY <1>3 DEF Writes, Holds

\* And somebody holds a lock that is asked for: of the sets of tasks ahead, which grow
\* along the queue, one is the smallest.
THEOREM SomebodyHolds ==
  ASSUME NEW T, IsFiniteSet(T), NEW q \in Lock(T), InOrder(q), Asking(q) # {}
  PROVE  \E t \in Asking(q) : Holds(q, t)
<1> DEFINE A == {q[t].ahead : t \in Asking(q)}
           R == StrictSubsetOrdering(T)
<1>1. Asking(q) \subseteq T /\ DOMAIN q = T
  BY DEF Asking, Lock
<1>2. A \subseteq FiniteSubsetsOf(T) /\ A # {}
  BY <1>1, FS_FiniteSubsetsOfFinite DEF Lock
<1>3. IsWellFoundedOn(R, FiniteSubsetsOf(T))
  BY FS_StrictSubsetOrderingWellFounded
<1>4. PICK x \in A : \A y \in A : <<y, x>> \notin R
  <2> HIDE DEF A, R
  <2> QED BY <1>2, <1>3, WFMin
<1>5. PICK t \in Asking(q) : q[t].ahead = x
  OBVIOUS
<1>6. ASSUME NEW r \in q[t].ahead PROVE FALSE
  <2>1. r \in Asking(q) /\ r \in T /\ r \notin q[r].ahead
    BY <1>1 DEF InOrder
  <2>2. q[r].ahead \subseteq q[t].ahead /\ q[r].ahead # q[t].ahead
    BY <1>1, <2>1 DEF InOrder
  <2>3. q[r].ahead \in SUBSET T /\ q[t].ahead \in SUBSET T
    BY <1>1, <2>1 DEF Lock
  <2>4. <<q[r].ahead, q[t].ahead>> \in R
    BY <2>2, <2>3 DEF StrictSubsetOrdering
  <2> QED BY <1>4, <1>5, <2>1, <2>4
<1> QED BY <1>5, <1>6 DEF Holds, Asking

----------------------------------------------------------------------------
(* Where the tasks are, and the locks they want there.                     *)

Locks == {"peers", "stats"}

\* What a task wants of each lock at each point of its code.
PeersWant(at) ==
  IF at \in {"health", "add", "count_ok", "disconnect"} THEN "write"
  ELSE IF at \in {"count", "look", "collect", "find", "sent", "read_peers"} THEN "read"
  ELSE "none"

StatsWant(at) ==
  IF at \in {"tick", "count", "attempt", "count_ok", "count_failed", "sent"} THEN "write"
  ELSE IF at = "read_stats" THEN "read"
  ELSE "none"

LoopAt    == {"idle", "tick", "count"}
ManagerAt == {"idle", "health", "look", "attempt", "dial", "add", "count_ok", "count_failed"}
ClientAt  == {"idle", "collect", "find", "sent", "disconnect", "read_stats", "read_peers"}

\* A task in order: it is at a point of its own code, wants what that point wants, and
\* holds what it kept from the point before.
InPlace(t) ==
  /\ task[t].at \in IF t = Loop THEN LoopAt ELSE IF t = Manager THEN ManagerAt ELSE ClientAt
  /\ lock["peers"][t].want = PeersWant(task[t].at)
  /\ lock["stats"][t].want = StatsWant(task[t].at)
  /\ task[t].at = "count" => Holds(lock["stats"], t)
  /\ task[t].at \in {"count_ok", "sent"} => Holds(lock["peers"], t)
  /\ t = Manager /\ task[t].at \notin {"idle", "health"} =>
       task[t].on \in Callsigns /\ task[t].todo \subseteq Callsigns
  /\ t \in Clients =>
       /\ task[t].at \in {"find", "sent", "disconnect"} => task[t].on \in Peers
       /\ task[t].todo \subseteq Peers

LocksOK == \A l \in Locks : InOrder(lock[l])

\* From the look-up to the insertion nobody else connects.
LookStands == task[Manager].at \in {"attempt", "dial", "add"} => ~ConnectedTo(task[Manager].on)

\* Connections and attempts that are made and not counted yet.
Uncounted  == IF task[Manager].at = "count_ok" THEN 1 ELSE 0
Undecided  == IF task[Manager].at \in {"dial", "add", "count_ok", "count_failed"} THEN 1 ELSE 0

Counted ==
  /\ Cardinality(Known) = stats.successful + Uncounted
  /\ stats.successful + stats.failed + Undecided <= stats.attempts
  /\ stats.connected <= stats.successful

IInv ==
  /\ TypeOK
  /\ LocksOK
  /\ \A t \in Tasks : InPlace(t)
  /\ OneConnection
  /\ LookStands
  /\ SentToConnected
  /\ Counted

(***************************************************************************)
(* What moving a task does to the locks.                                   *)
(***************************************************************************)

\* The others want what they wanted, and hold what they held.
OthersKeep(t) ==
  \A r \in Tasks \ {t}, l \in Locks :
    /\ lock'[l][r].want = lock[l][r].want
    /\ Holds(lock[l], r) => Holds(lock'[l], r)

LEMMA FreesMoves ==
  ASSUME lock \in [Locks -> Lock(Tasks)], LocksOK, NEW t \in Tasks, NEW S, Frees(t, S)
  PROVE  /\ lock' \in [Locks -> Lock(Tasks)]
         /\ LocksOK'
         /\ OthersKeep(t)
         /\ \A l \in Locks : l \in S => lock'[l][t].want = "none"
         /\ \A l \in Locks : l \notin S => lock'[l] = lock[l]
<1>1. \A l \in Locks : lock'[l] = After(t, S, l)
  BY DEF Frees
<1>2. lock' = [l \in Locks |-> After(t, S, l)]
  BY DEF Frees
<1>3. ASSUME NEW l \in Locks
      PROVE  /\ lock'[l] \in Lock(Tasks) /\ InOrder(lock'[l])
             /\ l \in S => lock'[l][t].want = "none"
             /\ l \notin S => lock'[l] = lock[l]
             /\ \A r \in Tasks \ {t} : /\ lock'[l][r].want = lock[l][r].want
                                       /\ Holds(lock[l], r) => Holds(lock'[l], r)
  <2>1. lock[l] \in Lock(Tasks) /\ InOrder(lock[l])
    BY DEF LocksOK
  <2>2. CASE l \in S
    BY <1>1, <2>1, <2>2, ReleasedOrder DEF After
  <2>3. CASE l \notin S
    BY <1>1, <2>1, <2>3 DEF After
  <2> QED BY <2>2, <2>3
<1>4. lock' \in [Locks -> Lock(Tasks)]
  BY <1>2, <1>3, <1>1
<1> QED BY <1>3, <1>4 DEF LocksOK, OthersKeep

LEMMA WantsMoves ==
  ASSUME lock \in [Locks -> Lock(Tasks)], LocksOK, NEW t \in Tasks, NEW S,
         NEW k \in Locks, NEW want \in {"read", "write"}, Wants(t, S, k, want),
         k \in S \/ lock[k][t].want = "none"
  PROVE  /\ lock' \in [Locks -> Lock(Tasks)]
         /\ LocksOK'
         /\ OthersKeep(t)
         /\ lock'[k][t].want = want
         /\ \A l \in Locks \ {k} : l \in S => lock'[l][t].want = "none"
         /\ \A l \in Locks \ {k} : l \notin S => lock'[l] = lock[l]
<1>2. lock' = [l \in Locks |-> IF l = k THEN Asked(After(t, S, l), t, want) ELSE After(t, S, l)]
  BY DEF Wants
<1>1. \A l \in Locks : lock'[l] = IF l = k THEN Asked(After(t, S, l), t, want)
                                  ELSE After(t, S, l)
  BY <1>2
<1>3. ASSUME NEW l \in Locks
      PROVE  /\ After(t, S, l) \in Lock(Tasks) /\ InOrder(After(t, S, l))
             /\ l \in S => After(t, S, l)[t].want = "none"
             /\ l \notin S => After(t, S, l) = lock[l]
             /\ \A r \in Tasks \ {t} : /\ After(t, S, l)[r].want = lock[l][r].want
                                       /\ Holds(lock[l], r) => Holds(After(t, S, l), r)
  <2>1. lock[l] \in Lock(Tasks) /\ InOrder(lock[l])
    BY DEF LocksOK
  <2>2. CASE l \in S
    BY <2>1, <2>2, ReleasedOrder DEF After
  <2>3. CASE l \notin S
    BY <2>1, <2>3 DEF After
  <2> QED BY <2>2, <2>3
<1>4. /\ lock'[k] \in Lock(Tasks) /\ InOrder(lock'[k]) /\ lock'[k][t].want = want
      /\ \A r \in Tasks \ {t} : /\ lock'[k][r].want = lock[k][r].want
                                /\ Holds(lock[k], r) => Holds(lock'[k], r)
  <2>1. After(t, S, k)[t].want = "none"
    BY <1>3
  <2>2. lock'[k] = Asked(After(t, S, k), t, want)
    BY <1>1
  <2> DEFINE b == After(t, S, k)
  <2>3. b \in Lock(Tasks) /\ InOrder(b) /\ b[t].want = "none"
    BY <1>3, <2>1
  <2>4. \A r \in Tasks \ {t} : b[r].want = lock[k][r].want /\ (Holds(lock[k], r) => Holds(b, r))
    BY <1>3
  <2>5. lock'[k] = Asked(b, t, want)
    BY <2>2
  <2> HIDE DEF b
  <2> QED BY <2>3, <2>4, <2>5, AskedOrder
<1>5. lock' \in [Locks -> Lock(Tasks)]
  BY <1>1, <1>2, <1>3, <1>4
<1> QED BY <1>1, <1>3, <1>4, <1>5 DEF LocksOK, OthersKeep

(***************************************************************************)
(* Every step leaves every task in place.                                  *)
(***************************************************************************)

\* What a step of task t does to the locks and the tasks.
Moved(t) ==
  /\ lock' \in [Locks -> Lock(Tasks)]
  /\ task' \in [Tasks -> Task]
  /\ LocksOK'
  /\ OthersKeep(t)
  /\ \A r \in Tasks \ {t} : task'[r] = task[r]
  /\ InPlace(t)'

LEMMA AllInPlace ==
  ASSUME \A r \in Tasks : InPlace(r), NEW t \in Tasks, Moved(t)
  PROVE  \A r \in Tasks : InPlace(r)'
<1> SUFFICES ASSUME NEW r \in Tasks \ {t} PROVE InPlace(r)'
  BY DEF Moved
<1>1. /\ task'[r] = task[r]
      /\ lock'["peers"][r].want = lock["peers"][r].want
      /\ lock'["stats"][r].want = lock["stats"][r].want
      /\ Holds(lock["peers"], r) => Holds(lock'["peers"], r)
      /\ Holds(lock["stats"], r) => Holds(lock'["stats"], r)
  BY DEF Moved, OthersKeep, Locks
<1> HIDE DEF Holds
<1> QED BY <1>1 DEF InPlace

\* The manager's way to the next configured peer.
LEMMA NextLookMoves ==
  ASSUME TypeOK, LocksOK, NEW todo \in SUBSET Callsigns, NEW S \in SUBSET Locks,
         NextLook(todo, S), \A l \in Locks \ S : lock[l][Manager].want = "none"
  PROVE  Moved(Manager) /\ task'[Manager].at \in {"idle", "look"}
<1>0. Manager \in Tasks /\ Manager # Loop /\ Manager \notin Clients
  BY TaskAssumption DEF Tasks
<1>t. lock \in [Locks -> Lock(Tasks)] /\ task \in [Tasks -> Task]
  BY DEF TypeOK, Locks
<1>1. CASE todo = {}
  <2>1. Frees(Manager, S) /\ task' = [task EXCEPT ![Manager] = Idle]
    BY <1>1 DEF NextLook, Ends
  <2>2. /\ lock' \in [Locks -> Lock(Tasks)] /\ LocksOK' /\ OthersKeep(Manager)
        /\ \A l \in Locks : lock'[l][Manager].want = "none"
    BY <1>0, <1>t, <2>1, FreesMoves
  <2>3. /\ task' \in [Tasks -> Task] /\ task'[Manager] = Idle
        /\ \A r \in Tasks \ {Manager} : task'[r] = task[r]
    BY <1>0, <1>t, <2>1 DEF Task, Idle, At
  <2>4. InPlace(Manager)'
    BY <1>0, <2>2, <2>3 DEF InPlace, Idle, ManagerAt, PeersWant, StatsWant, Locks
  <2> QED BY <2>2, <2>3, <2>4 DEF Moved, Idle
<1>2. CASE todo # {}
  <2>1. PICK c \in todo : task' = [task EXCEPT ![Manager] =
                                     [at |-> "look", on |-> c, todo |-> todo \ {c}]]
    BY <1>2 DEF NextLook
  <2>2. Wants(Manager, S, "peers", "read")
    BY <1>2 DEF NextLook
  <2>3. /\ lock' \in [Locks -> Lock(Tasks)] /\ LocksOK' /\ OthersKeep(Manager)
        /\ lock'["peers"][Manager].want = "read" /\ lock'["stats"][Manager].want = "none"
    BY <1>0, <1>t, <2>2, WantsMoves DEF Locks
  <2>4. /\ task' \in [Tasks -> Task]
        /\ task'[Manager] = [at |-> "look", on |-> c, todo |-> todo \ {c}]
        /\ \A r \in Tasks \ {Manager} : task'[r] = task[r]
    BY <1>0, <1>t, <2>1 DEF Task, At
  <2>5. InPlace(Manager)'
    BY <1>0, <2>3, <2>4 DEF InPlace, ManagerAt, PeersWant, StatsWant
  <2> QED BY <2>3, <2>4, <2>5 DEF Moved
<1> QED BY <1>1, <1>2

\* A client's way to the next peer to send to.
LEMMA NextSendMoves ==
  ASSUME TypeOK, LocksOK, NEW c \in Clients, NEW todo \in SUBSET Peers, NEW S \in SUBSET Locks,
         NextSend(c, todo, S), \A l \in Locks \ S : lock[l][c].want = "none"
  PROVE  Moved(c) /\ task'[c].at \in {"idle", "find"}
<1>0. c \in Tasks /\ c # Loop /\ c # Manager
  BY TaskAssumption DEF Tasks
<1>t. lock \in [Locks -> Lock(Tasks)] /\ task \in [Tasks -> Task]
  BY DEF TypeOK, Locks
<1>1. CASE todo = {}
  <2>1. Frees(c, S) /\ task' = [task EXCEPT ![c] = Idle]
    BY <1>1 DEF NextSend, Ends
  <2>2. /\ lock' \in [Locks -> Lock(Tasks)] /\ LocksOK' /\ OthersKeep(c)
        /\ \A l \in Locks : lock'[l][c].want = "none"
    BY <1>0, <1>t, <2>1, FreesMoves
  <2>3. /\ task' \in [Tasks -> Task] /\ task'[c] = Idle
        /\ \A r \in Tasks \ {c} : task'[r] = task[r]
    BY <1>0, <1>t, <2>1 DEF Task, Idle, At
  <2>4. InPlace(c)'
    BY <1>0, <2>2, <2>3 DEF InPlace, Idle, ClientAt, PeersWant, StatsWant, Locks
  <2> QED BY <2>2, <2>3, <2>4 DEF Moved, Idle
<1>2. CASE todo # {}
  <2>1. PICK i \in todo : task' = [task EXCEPT ![c] =
                                     [at |-> "find", on |-> i, todo |-> todo \ {i}]]
    BY <1>2 DEF NextSend
  <2>2. Wants(c, S, "peers", "read")
    BY <1>2 DEF NextSend
  <2>3. /\ lock' \in [Locks -> Lock(Tasks)] /\ LocksOK' /\ OthersKeep(c)
        /\ lock'["peers"][c].want = "read" /\ lock'["stats"][c].want = "none"
    BY <1>0, <1>t, <2>2, WantsMoves DEF Locks
  <2>4. /\ task' \in [Tasks -> Task]
        /\ task'[c] = [at |-> "find", on |-> i, todo |-> todo \ {i}]
        /\ \A r \in Tasks \ {c} : task'[r] = task[r]
    BY <1>0, <1>t, <2>1 DEF Task, At
  <2>5. InPlace(c)'
    BY <1>0, <2>3, <2>4 DEF InPlace, ClientAt, PeersWant, StatsWant
  <2> QED BY <2>3, <2>4, <2>5 DEF Moved
<1> QED BY <1>1, <1>2

LEMMA GotoMoves ==
  ASSUME TypeOK, NEW t \in Tasks, NEW at \in At, Goto(t, at)
  PROVE  /\ task' \in [Tasks -> Task]
         /\ task'[t].at = at /\ task'[t].on = task[t].on /\ task'[t].todo = task[t].todo
         /\ \A r \in Tasks \ {t} : task'[r] = task[r]
BY DEF TypeOK, Goto, Task

LEMMA EndsMoves ==
  ASSUME TypeOK, NEW t \in Tasks, Ends(t)
  PROVE  /\ task' \in [Tasks -> Task]
         /\ task'[t] = Idle
         /\ \A r \in Tasks \ {t} : task'[r] = task[r]
BY DEF TypeOK, Ends, Task, Idle, At

LEMMA LoopMoves ==
  ASSUME IInv, Tick \/ Uptime \/ CountPeers
  PROVE  Moved(Loop)
<1>0. Loop \in Tasks /\ Loop # Manager /\ Loop \notin Clients
  BY TaskAssumption DEF Tasks
<1>t. TypeOK /\ LocksOK /\ InPlace(Loop) /\ lock \in [Locks -> Lock(Tasks)]
  BY <1>0 DEF IInv, TypeOK, Locks
<1>1. CASE Tick
  <2>1. /\ lock' \in [Locks -> Lock(Tasks)] /\ LocksOK' /\ OthersKeep(Loop)
        /\ lock'["stats"][Loop].want = "write" /\ lock'["peers"][Loop].want = "none"
    <3>1. lock["stats"][Loop].want = "none" /\ lock["peers"][Loop].want = "none"
      BY <1>t, <1>1 DEF Tick, In, InPlace, PeersWant, StatsWant
    <3>2. Wants(Loop, {}, "stats", "write")
      BY <1>1 DEF Tick
    <3> QED BY <1>0, <1>t, <3>1, <3>2, WantsMoves DEF Locks
  <2>2. /\ task' \in [Tasks -> Task] /\ task'[Loop].at = "tick"
        /\ \A r \in Tasks \ {Loop} : task'[r] = task[r]
    BY <1>0, <1>t, <1>1, GotoMoves DEF Tick, At
  <2> QED BY <1>0, <2>1, <2>2 DEF Moved, InPlace, LoopAt, PeersWant, StatsWant
<1>2. CASE Uptime
  <2>0. lock["stats"][Loop].want = "write" /\ lock["peers"][Loop].want = "none"
        /\ Holds(lock["stats"], Loop)
    BY <1>t, <1>2 DEF Uptime, In, Has, InPlace, PeersWant, StatsWant
  <2>1. /\ lock' \in [Locks -> Lock(Tasks)] /\ LocksOK' /\ OthersKeep(Loop)
        /\ lock'["peers"][Loop].want = "read" /\ lock'["stats"] = lock["stats"]
    <3>2. Wants(Loop, {}, "peers", "read")
      BY <1>2 DEF Uptime
    <3> QED BY <1>0, <1>t, <2>0, <3>2, WantsMoves DEF Locks
  <2>2. /\ task' \in [Tasks -> Task] /\ task'[Loop].at = "count"
        /\ \A r \in Tasks \ {Loop} : task'[r] = task[r]
    BY <1>0, <1>t, <1>2, GotoMoves DEF Uptime, At
  <2> HIDE DEF Holds
  <2> QED BY <1>0, <2>0, <2>1, <2>2 DEF Moved, InPlace, LoopAt, PeersWant, StatsWant
<1>3. CASE CountPeers
  <2>1. /\ lock' \in [Locks -> Lock(Tasks)] /\ LocksOK' /\ OthersKeep(Loop)
        /\ lock'["peers"][Loop].want = "none" /\ lock'["stats"][Loop].want = "none"
    BY <1>0, <1>t, <1>3, FreesMoves DEF CountPeers, Locks
  <2>2. /\ task' \in [Tasks -> Task] /\ task'[Loop] = Idle
        /\ \A r \in Tasks \ {Loop} : task'[r] = task[r]
    BY <1>0, <1>t, <1>3, EndsMoves DEF CountPeers
  <2> QED BY <1>0, <2>1, <2>2 DEF Moved, InPlace, LoopAt, PeersWant, StatsWant, Idle
<1> QED BY <1>1, <1>2, <1>3

\* A step of the manager or of a client that asks for one lock and goes on.
LEMMA ManagerWants ==
  ASSUME IInv, NEW S \in SUBSET Locks, NEW k \in Locks, NEW at \in ManagerAt,
         Wants(Manager, S, k, "write"), Goto(Manager, at),
         k \in S \/ lock[k][Manager].want = "none",
         \A l \in Locks \ {k} :
           \/ l \in S
           \/ lock[l][Manager].want = "none"
           \/ at = "count_ok" /\ lock[l][Manager].want = "write" /\ Holds(lock[l], Manager),
         \/ at \in {"health", "add"} /\ k = "peers"
         \/ at \in {"attempt", "count_failed"} /\ k = "stats"
         \/ at = "count_ok" /\ k = "stats" /\ "peers" \notin S
                            /\ lock["peers"][Manager].want = "write",
         at # "health" => task[Manager].at \notin {"idle", "health"}
  PROVE  Moved(Manager)
<1>0. Manager \in Tasks /\ Loop # Manager /\ Manager \notin Clients
  BY TaskAssumption DEF Tasks
<1>t. TypeOK /\ LocksOK /\ InPlace(Manager) /\ lock \in [Locks -> Lock(Tasks)]
  BY <1>0 DEF IInv, TypeOK, Locks
<1>1. /\ lock' \in [Locks -> Lock(Tasks)] /\ LocksOK' /\ OthersKeep(Manager)
      /\ lock'[k][Manager].want = "write"
      /\ \A l \in Locks \ {k} : l \in S => lock'[l][Manager].want = "none"
      /\ \A l \in Locks \ {k} : l \notin S => lock'[l] = lock[l]
  BY <1>0, <1>t, WantsMoves
<1>2. at \in At
  BY DEF ManagerAt, At
<1>3. /\ task' \in [Tasks -> Task] /\ task'[Manager].at = at
      /\ task'[Manager].on = task[Manager].on /\ task'[Manager].todo = task[Manager].todo
      /\ \A r \in Tasks \ {Manager} : task'[r] = task[r]
  BY <1>0, <1>t, <1>2, GotoMoves
<1> HIDE DEF Holds
<1>4. at # "health" => task[Manager].on \in Callsigns /\ task[Manager].todo \subseteq Callsigns
  BY <1>t DEF InPlace
<1>5. at = "count_ok" => Holds(lock["peers"], Manager)
  BY <1>t DEF InPlace, PeersWant, Locks
<1>6. CASE at \in {"health", "add"}
  <2>1. lock'["peers"][Manager].want = "write" /\ lock'["stats"][Manager].want = "none"
    BY <1>1, <1>6 DEF Locks
  <2> QED BY <1>0, <1>1, <1>3, <1>4, <1>6, <2>1 DEF Moved, InPlace, PeersWant, StatsWant
<1>7. CASE at \in {"attempt", "count_failed"}
  <2>1. lock'["stats"][Manager].want = "write" /\ lock'["peers"][Manager].want = "none"
    BY <1>1, <1>7 DEF Locks
  <2> QED BY <1>0, <1>1, <1>3, <1>4, <1>7, <2>1 DEF Moved, InPlace, PeersWant, StatsWant
<1>8. CASE at = "count_ok"
  <2>1. /\ lock'["stats"][Manager].want = "write" /\ lock'["peers"] = lock["peers"]
        /\ lock["peers"][Manager].want = "write"
    BY <1>1, <1>8 DEF Locks
  <2> QED BY <1>0, <1>1, <1>3, <1>4, <1>5, <1>8, <2>1 DEF Moved, InPlace, PeersWant, StatsWant
<1> QED BY <1>6, <1>7, <1>8

LEMMA ManagerMoves ==
  ASSUME IInv, StartHealth \/ ManagerStep
  PROVE  Moved(Manager)
<1>0. Manager \in Tasks
  BY DEF Tasks
<1>t. TypeOK /\ LocksOK /\ InPlace(Manager)
  BY <1>0 DEF IInv
<1>w. /\ lock["peers"][Manager].want = PeersWant(task[Manager].at)
      /\ lock["stats"][Manager].want = StatsWant(task[Manager].at)
      /\ task[Manager].at = "count_ok" => Holds(lock["peers"], Manager)
      /\ task[Manager].at \notin {"idle", "health"} => task[Manager].todo \in SUBSET Callsigns
  BY <1>t DEF InPlace
<1> HIDE DEF Holds
<1>1. CASE StartHealth
  <2>1. Wants(Manager, {}, "peers", "write") /\ Goto(Manager, "health")
        /\ task[Manager].at = "idle"
    BY <1>1 DEF StartHealth, In
  <2> QED BY <1>w, <2>1, ManagerWants DEF PeersWant, StatsWant, Locks, ManagerAt
<1>2. CASE CheckHealth
  <2>1. NextLook(Callsigns, {"peers"}) /\ task[Manager].at = "health"
    BY <1>2 DEF CheckHealth, In
  <2> QED BY <1>t, <1>w, <2>1, NextLookMoves DEF StatsWant, Locks
<1>3. CASE Look
  <2>1. task[Manager].at = "look"
    BY <1>3 DEF Look, In
  <2>2. CASE MustConnect(On(Manager))
    <3>1. Wants(Manager, {"peers"}, "stats", "write") /\ Goto(Manager, "attempt")
      BY <1>3, <2>2 DEF Look
    <3> QED BY <1>w, <2>1, <3>1, ManagerWants DEF PeersWant, StatsWant, Locks, ManagerAt
  <2>3. CASE ~MustConnect(On(Manager))
    <3>1. NextLook(task[Manager].todo, {"peers"})
      BY <1>3, <2>3 DEF Look
    <3> QED BY <1>t, <1>w, <2>1, <3>1, NextLookMoves DEF StatsWant, Locks
  <2> QED BY <2>2, <2>3
<1>4. CASE Attempt
  <2>1. task[Manager].at = "attempt"
    BY <1>4 DEF Attempt, In
  <2>2. CASE On(Manager) \in BadAddress
    <3>1. NextLook(task[Manager].todo, {"stats"})
      BY <1>4, <2>2 DEF Attempt
    <3> QED BY <1>t, <1>w, <2>1, <3>1, NextLookMoves DEF PeersWant, Locks
  <2>3. CASE On(Manager) \notin BadAddress
    <3>1. Frees(Manager, {"stats"}) /\ Goto(Manager, "dial")
      BY <1>4, <2>3 DEF Attempt
    <3>2. lock \in [Locks -> Lock(Tasks)]
      BY <1>t DEF TypeOK, Locks
    <3>3. /\ lock' \in [Locks -> Lock(Tasks)] /\ LocksOK' /\ OthersKeep(Manager)
          /\ lock'["stats"][Manager].want = "none" /\ lock'["peers"] = lock["peers"]
      BY <1>0, <1>t, <3>1, <3>2, FreesMoves DEF Locks
    <3>4. /\ task' \in [Tasks -> Task] /\ task'[Manager].at = "dial"
          /\ task'[Manager].on = task[Manager].on /\ task'[Manager].todo = task[Manager].todo
          /\ \A r \in Tasks \ {Manager} : task'[r] = task[r]
      BY <1>0, <1>t, <3>1, GotoMoves DEF At
    <3>5. lock["peers"][Manager].want = "none"
      BY <1>w, <2>1 DEF PeersWant
    <3>6. task[Manager].on \in Callsigns /\ task[Manager].todo \subseteq Callsigns
      BY <1>t, <2>1 DEF InPlace
    <3> QED BY <3>3, <3>4, <3>5, <3>6, TaskAssumption
            DEF Moved, InPlace, ManagerAt, PeersWant, StatsWant
  <2> QED BY <2>2, <2>3
<1>5. CASE Dial
  <2>1. task[Manager].at = "dial"
    BY <1>5 DEF Dial, In
  <2>2. CASE Wants(Manager, {}, "peers", "write") /\ Goto(Manager, "add")
    BY <1>w, <2>1, <2>2, ManagerWants DEF PeersWant, StatsWant, Locks, ManagerAt
  <2>3. CASE Wants(Manager, {}, "stats", "write") /\ Goto(Manager, "count_failed")
    BY <1>w, <2>1, <2>3, ManagerWants DEF PeersWant, StatsWant, Locks, ManagerAt
  <2> QED BY <1>5, <2>2, <2>3 DEF Dial
<1>6. CASE \E i \in Peers : Add(i)
  <2>1. /\ task[Manager].at = "add" /\ Holds(lock["peers"], Manager)
        /\ Wants(Manager, {}, "stats", "write") /\ Goto(Manager, "count_ok")
    BY <1>6 DEF Add, In, Has
  <2> QED BY <1>w, <2>1, ManagerWants DEF PeersWant, StatsWant, Locks, ManagerAt
<1>7. CASE CountOk
  <2>1. NextLook(task[Manager].todo, Locks) /\ task[Manager].at = "count_ok"
    BY <1>7 DEF CountOk, In, Locks
  <2> QED BY <1>t, <1>w, <2>1, NextLookMoves
<1>8. CASE CountFailed
  <2>1. NextLook(task[Manager].todo, {"stats"}) /\ task[Manager].at = "count_failed"
    BY <1>8 DEF CountFailed, In
  <2> QED BY <1>t, <1>w, <2>1, NextLookMoves DEF PeersWant, Locks
<1> QED BY <1>1, <1>2, <1>3, <1>4, <1>5, <1>6, <1>7, <1>8 DEF ManagerStep

\* A client that waits for nothing asks for a lock.
LEMMA ClientAsks ==
  ASSUME TypeOK, LocksOK, NEW c \in Clients, InPlace(c), task[c].at = "idle",
         NEW k \in Locks, NEW want \in {"read", "write"}, Wants(c, {}, k, want)
  PROVE  /\ lock' \in [Locks -> Lock(Tasks)] /\ LocksOK' /\ OthersKeep(c)
         /\ lock'[k][c].want = want
         /\ \A l \in Locks \ {k} : lock'[l][c].want = "none"
<1>1. c \in Tasks /\ lock \in [Locks -> Lock(Tasks)]
  BY DEF TypeOK, Tasks, Locks
<1>2. \A l \in Locks : lock[l][c].want = "none"
  BY DEF InPlace, PeersWant, StatsWant, Locks
<1> QED BY <1>1, <1>2, WantsMoves

LEMMA ClientStarts ==
  ASSUME IInv, NEW c \in Clients, Send(c) \/ Broadcast(c) \/ DisconnectStart(c) \/ ReadStart(c)
  PROVE  Moved(c)
<1>0. c \in Tasks /\ c # Loop /\ c # Manager
  BY TaskAssumption DEF Tasks
<1>t. TypeOK /\ LocksOK /\ InPlace(c) /\ task[c].todo \subseteq Peers
  BY <1>0 DEF IInv, InPlace
<1>1. task[c].at = "idle"
  BY DEF Send, Broadcast, DisconnectStart, ReadStart, In
<1>2. CASE Send(c)
  <2>1. PICK i \in Peers : NextSend(c, {i}, {})
    BY <1>2 DEF Send
  <2>2. \A l \in Locks : lock[l][c].want = "none"
    BY <1>t, <1>1 DEF InPlace, PeersWant, StatsWant, Locks
  <2> QED BY <1>t, <2>1, <2>2, NextSendMoves
<1>3. CASE Broadcast(c)
  <2>1. /\ lock' \in [Locks -> Lock(Tasks)] /\ LocksOK' /\ OthersKeep(c)
        /\ lock'["peers"][c].want = "read" /\ lock'["stats"][c].want = "none"
    BY <1>t, <1>1, <1>3, ClientAsks DEF Broadcast, Locks
  <2>2. /\ task' \in [Tasks -> Task] /\ task'[c].at = "collect"
        /\ task'[c].todo = task[c].todo /\ \A r \in Tasks \ {c} : task'[r] = task[r]
    BY <1>0, <1>t, <1>3, GotoMoves DEF Broadcast, At
  <2> QED BY <1>0, <1>t, <2>1, <2>2 DEF Moved, InPlace, ClientAt, PeersWant, StatsWant
<1>4. CASE DisconnectStart(c)
  <2>1. /\ lock' \in [Locks -> Lock(Tasks)] /\ LocksOK' /\ OthersKeep(c)
        /\ lock'["peers"][c].want = "write" /\ lock'["stats"][c].want = "none"
    BY <1>t, <1>1, <1>4, ClientAsks DEF DisconnectStart, Locks
  <2>2. PICK i \in Peers : task' = [task EXCEPT ![c].at = "disconnect", ![c].on = i]
    BY <1>4 DEF DisconnectStart
  <2>3. /\ task' \in [Tasks -> Task] /\ task'[c].at = "disconnect" /\ task'[c].on = i
        /\ task'[c].todo = task[c].todo /\ \A r \in Tasks \ {c} : task'[r] = task[r]
    BY <1>0, <1>t, <2>2 DEF TypeOK, Task, At
  <2> QED BY <1>0, <1>t, <2>1, <2>3 DEF Moved, InPlace, ClientAt, PeersWant, StatsWant
<1>5. CASE ReadStart(c)
  <2>1. CASE Wants(c, {}, "stats", "read") /\ Goto(c, "read_stats")
    <3>1. /\ lock' \in [Locks -> Lock(Tasks)] /\ LocksOK' /\ OthersKeep(c)
          /\ lock'["stats"][c].want = "read" /\ lock'["peers"][c].want = "none"
      BY <1>t, <1>1, <2>1, ClientAsks DEF Locks
    <3>2. /\ task' \in [Tasks -> Task] /\ task'[c].at = "read_stats"
          /\ task'[c].todo = task[c].todo /\ \A r \in Tasks \ {c} : task'[r] = task[r]
      BY <1>0, <1>t, <2>1, GotoMoves DEF At
    <3> QED BY <1>0, <1>t, <3>1, <3>2 DEF Moved, InPlace, ClientAt, PeersWant, StatsWant
  <2>2. CASE Wants(c, {}, "peers", "read") /\ Goto(c, "read_peers")
    <3>1. /\ lock' \in [Locks -> Lock(Tasks)] /\ LocksOK' /\ OthersKeep(c)
          /\ lock'["peers"][c].want = "read" /\ lock'["stats"][c].want = "none"
      BY <1>t, <1>1, <2>2, ClientAsks DEF Locks
    <3>2. /\ task' \in [Tasks -> Task] /\ task'[c].at = "read_peers"
          /\ task'[c].todo = task[c].todo /\ \A r \in Tasks \ {c} : task'[r] = task[r]
      BY <1>0, <1>t, <2>2, GotoMoves DEF At
    <3> QED BY <1>0, <1>t, <3>1, <3>2 DEF Moved, InPlace, ClientAt, PeersWant, StatsWant
  <2> QED BY <1>5, <2>1, <2>2 DEF ReadStart
<1> QED BY <1>2, <1>3, <1>4, <1>5

LEMMA ClientMoves ==
  ASSUME IInv, NEW c \in Clients, ClientStep(c)
  PROVE  Moved(c)
<1>0. c \in Tasks /\ c # Loop /\ c # Manager
  BY TaskAssumption DEF Tasks
<1>t. TypeOK /\ LocksOK /\ InPlace(c) /\ lock \in [Locks -> Lock(Tasks)]
  BY <1>0 DEF IInv, TypeOK, Locks
<1>w. /\ lock["peers"][c].want = PeersWant(task[c].at)
      /\ lock["stats"][c].want = StatsWant(task[c].at)
      /\ task[c].todo \in SUBSET Peers
      /\ task[c].at = "find" => task[c].on \in Peers
  BY <1>t DEF InPlace
<1> HIDE DEF Holds
<1>1. CASE Collect(c)
  <2>1. NextSend(c, {i \in Peers : Connected(i)}, {"peers"}) /\ task[c].at = "collect"
    BY <1>1 DEF Collect, In
  <2> QED BY <1>t, <1>w, <2>1, NextSendMoves DEF StatsWant, Locks
<1>2. CASE Find(c)
  <2>1. task[c].at = "find" /\ Holds(lock["peers"], c)
    BY <1>2 DEF Find, In, Has
  <2>2. CASE Wants(c, {}, "stats", "write") /\ Goto(c, "sent")
    <3>2. lock["stats"][c].want = "none" /\ lock["peers"][c].want = "read"
      BY <1>w, <2>1 DEF PeersWant, StatsWant
    <3>3. /\ lock' \in [Locks -> Lock(Tasks)] /\ LocksOK' /\ OthersKeep(c)
          /\ lock'["stats"][c].want = "write" /\ lock'["peers"] = lock["peers"]
      BY <1>0, <1>t, <2>2, <3>2, WantsMoves DEF Locks
    <3>4. /\ task' \in [Tasks -> Task] /\ task'[c].at = "sent" /\ task'[c].on = task[c].on
          /\ task'[c].todo = task[c].todo /\ \A r \in Tasks \ {c} : task'[r] = task[r]
      BY <1>0, <1>t, <2>2, GotoMoves DEF At
    <3> QED BY <1>0, <1>w, <2>1, <3>2, <3>3, <3>4 DEF Moved, InPlace, ClientAt, PeersWant, StatsWant
  <2>3. CASE NextSend(c, task[c].todo, {"peers"})
    BY <1>t, <1>w, <2>1, <2>3, NextSendMoves DEF StatsWant, Locks
  <2> QED BY <1>2, <2>2, <2>3 DEF Find
<1>3. CASE CountSent(c)
  <2>1. NextSend(c, task[c].todo, Locks)
    BY <1>3 DEF CountSent, Locks
  <2> QED BY <1>t, <1>w, <2>1, NextSendMoves
<1>4. ASSUME NEW S \in SUBSET Locks, Frees(c, S), Ends(c),
             \A l \in Locks \ S : lock[l][c].want = "none"
      PROVE  Moved(c)
  <2>1. /\ lock' \in [Locks -> Lock(Tasks)] /\ LocksOK' /\ OthersKeep(c)
        /\ lock'["peers"][c].want = "none" /\ lock'["stats"][c].want = "none"
    BY <1>0, <1>t, <1>4, FreesMoves DEF Locks
  <2>2. /\ task' \in [Tasks -> Task] /\ task'[c] = Idle
        /\ \A r \in Tasks \ {c} : task'[r] = task[r]
    BY <1>0, <1>t, <1>4, EndsMoves
  <2> QED BY <1>0, <2>1, <2>2 DEF Moved, InPlace, ClientAt, PeersWant, StatsWant, Idle
<1>5. CASE Disconnect(c)
  <2>1. Frees(c, {"peers"}) /\ Ends(c) /\ task[c].at = "disconnect"
    BY <1>5 DEF Disconnect, In
  <2> QED BY <1>w, <1>4, <2>1 DEF StatsWant, Locks
<1>6. CASE ReadDone(c)
  <2>1. CASE task[c].at = "read_stats" /\ Frees(c, {"stats"})
    BY <1>w, <1>4, <1>6, <2>1 DEF ReadDone, PeersWant, Locks
  <2>2. CASE task[c].at = "read_peers" /\ Frees(c, {"peers"})
    BY <1>w, <1>4, <1>6, <2>2 DEF ReadDone, StatsWant, Locks
  <2> QED BY <1>6, <2>1, <2>2 DEF ReadDone, In
<1> QED BY <1>1, <1>2, <1>3, <1>5, <1>6 DEF ClientStep

(***************************************************************************)
(* What every step does to the peers and the statistics.                   *)
(***************************************************************************)

\* Nobody else is in the table while a writer is.
LEMMA LoneWriter ==
  ASSUME IInv, NEW t \in Tasks, lock["peers"][t].want = "write", Holds(lock["peers"], t),
         NEW r \in Tasks, r # t
  PROVE  ~Holds(lock["peers"], r)
<1>1. lock["peers"] \in Lock(Tasks) /\ InOrder(lock["peers"])
  BY DEF IInv, TypeOK, LocksOK, Locks
<1>2. Exclusive(lock["peers"]) /\ DOMAIN lock["peers"] = Tasks
  BY <1>1, Exclusion DEF Lock
<1> QED BY <1>2 DEF Exclusive, Writes

\* Nobody is between looking at a peer and counting a message to it while a writer is.
LEMMA NoSender ==
  ASSUME IInv, NEW t \in Tasks, lock["peers"][t].want = "write", Holds(lock["peers"], t),
         NEW c \in Clients, c # t
  PROVE  ~In(c, "sent")
<1>1. c \in Tasks
  BY DEF Tasks
<1>2. In(c, "sent") => Holds(lock["peers"], c)
  BY <1>1 DEF IInv, InPlace, In
<1> QED BY <1>1, <1>2, LoneWriter

LEMMA KnownFinite ==
  IsFiniteSet(Known) /\ Cardinality(Known) \in Nat
BY PeerAssumption, FS_Subset, FS_CardinalityType DEF Known

\* A step of another task leaves the manager's part of the invariant alone.
LEMMA ManagerRests ==
  ASSUME NEW t \in Tasks \ {Manager}, Moved(t)
  PROVE  task'[Manager] = task[Manager] /\ Uncounted' = Uncounted /\ Undecided' = Undecided
<1>1. task'[Manager] = task[Manager]
  BY DEF Moved, Tasks
<1> QED BY <1>1 DEF Uncounted, Undecided

LEMMA LoopKeeps ==
  ASSUME IInv, Tick \/ Uptime \/ CountPeers
  PROVE  IInv'
<1>0. Loop \in Tasks \ {Manager} /\ Loop \notin Clients /\ Manager \in Tasks /\ Clients \subseteq Tasks
  BY TaskAssumption DEF Tasks
<1>1. Moved(Loop) /\ UNCHANGED peers
  BY LoopMoves DEF Tick, Uptime, CountPeers
<1>2. LocksOK' /\ \A r \in Tasks : InPlace(r)'
  BY <1>0, <1>1, AllInPlace DEF IInv, Moved
<1>3. task'[Manager] = task[Manager] /\ Uncounted' = Uncounted /\ Undecided' = Undecided
  BY <1>0, <1>1, ManagerRests
<1>4. OneConnection' /\ LookStands'
  BY <1>1, <1>3 DEF IInv, OneConnection, LookStands, ConnectedTo, Connected
<1>5. SentToConnected'
  <2>1. \A c \in Clients : task'[c] = task[c]
    BY <1>0, <1>1 DEF Moved
  <2> QED BY <1>1, <2>1 DEF IInv, SentToConnected, In, On, Connected
<1>6. stats' \in Stats /\ Counted'
  <2>1. CASE Tick \/ Uptime
    <3>1. UNCHANGED stats
      BY <2>1 DEF Tick, Uptime
    <3> QED BY <1>1, <1>3, <3>1 DEF IInv, TypeOK, Counted, Known
  <2>2. CASE CountPeers
    <3> DEFINE n == Cardinality({i \in Peers : Connected(i)})
    <3>1. n \in Nat /\ n <= Cardinality(Known)
      <4>1. {i \in Peers : Connected(i)} \subseteq Known
        BY DEF Known, Connected
      <4> QED BY <4>1, KnownFinite, FS_Subset, FS_CardinalityType
    <3>2. Uncounted = 0
      <4>1. Holds(lock["peers"], Loop)
        BY <2>2 DEF CountPeers, Has
      <4>2. task[Manager].at = "count_ok" => /\ lock["peers"][Manager].want = "write"
                                             /\ Holds(lock["peers"], Manager)
        BY <1>0 DEF IInv, InPlace, PeersWant
      <4>3. task[Manager].at # "count_ok"
        BY <1>0, <4>1, <4>2, LoneWriter
      <4> QED BY <4>3 DEF Uncounted
    <3>3. stats' = [stats EXCEPT !.connected = n]
      BY <2>2 DEF CountPeers
    <3> HIDE DEF n
    <3>4. /\ stats' \in Stats /\ stats'.connected = n /\ stats'.attempts = stats.attempts
          /\ stats'.successful = stats.successful /\ stats'.failed = stats.failed
      BY <3>1, <3>3 DEF IInv, TypeOK, Stats
    <3>5. Known' = Known
      BY <1>1 DEF Known
    <3> QED BY <1>3, <3>1, <3>2, <3>4, <3>5 DEF IInv, TypeOK, Stats, Counted
  <2> QED BY <2>1, <2>2
<1>7. TypeOK'
  BY <1>1, <1>6 DEF IInv, TypeOK, Moved, Locks
<1> QED BY <1>2, <1>4, <1>5, <1>6, <1>7 DEF IInv

\* A step of the manager that leaves the table alone.
LEMMA ManagerLeavesPeers ==
  ASSUME IInv, Moved(Manager), UNCHANGED peers, stats' \in Stats, LookStands', Counted'
  PROVE  IInv'
<1>0. Manager \in Tasks /\ Manager \notin Clients /\ Clients \subseteq Tasks
  BY TaskAssumption DEF Tasks
<1>1. LocksOK' /\ \A r \in Tasks : InPlace(r)'
  BY <1>0, AllInPlace DEF IInv, Moved
<1>2. \A c \in Clients : task'[c] = task[c]
  BY <1>0 DEF Moved
<1>3. OneConnection' /\ SentToConnected'
  BY <1>2 DEF IInv, OneConnection, SentToConnected, Connected, In, On
<1>4. TypeOK'
  BY DEF IInv, TypeOK, Moved, Locks
<1> QED BY <1>1, <1>3, <1>4 DEF IInv

\* A step of the manager that writes the table, which it has locked.
LEMMA ManagerWritesPeers ==
  ASSUME IInv, Moved(Manager), Holds(lock["peers"], Manager),
         lock["peers"][Manager].want = "write",
         peers' \in [Peers -> Peer \cup {None}], UNCHANGED stats,
         OneConnection', LookStands', Counted'
  PROVE  IInv'
<1>0. Manager \in Tasks /\ Manager \notin Clients /\ Clients \subseteq Tasks
  BY TaskAssumption DEF Tasks
<1>1. LocksOK' /\ \A r \in Tasks : InPlace(r)'
  BY <1>0, AllInPlace DEF IInv, Moved
<1>2. \A c \in Clients : task'[c] = task[c]
  BY <1>0 DEF Moved
<1>3. \A c \in Clients : ~In(c, "sent")
  BY <1>0, NoSender
<1>4. SentToConnected'
  BY <1>2, <1>3 DEF SentToConnected, In
<1>5. TypeOK'
  BY DEF IInv, TypeOK, Moved, Locks
<1> QED BY <1>1, <1>4, <1>5 DEF IInv

LEMMA ManagerKeeps ==
  ASSUME IInv, StartHealth \/ ManagerStep
  PROVE  IInv'
<1>0. Manager \in Tasks
  BY DEF Tasks
<1>m. Moved(Manager)
  BY ManagerMoves
<1>t. /\ TypeOK /\ LocksOK /\ InPlace(Manager) /\ Counted /\ LookStands /\ OneConnection
      /\ peers \in [Peers -> Peer \cup {None}] /\ Cardinality(Known) \in Nat
      /\ stats \in Stats /\ stats.attempts \in Nat /\ stats.successful \in Nat
      /\ stats.failed \in Nat /\ stats.connected \in Nat
  BY <1>0, KnownFinite DEF IInv, TypeOK, Stats
<1>n. ASSUME NEW todo, NEW S, NextLook(todo, S)
      PROVE  task'[Manager].at \in {"idle", "look"}
  BY <1>0, <1>t, <1>n DEF NextLook, Ends, Idle, TypeOK
<1>g. ASSUME NEW at \in At, Goto(Manager, at)
      PROVE  task'[Manager].at = at /\ task'[Manager].on = task[Manager].on
  BY <1>0, <1>t, <1>g, GotoMoves
<1>p. peers' = peers => Known' = Known /\ \A c : ConnectedTo(c)' = ConnectedTo(c)
  BY DEF Known, ConnectedTo, Connected
<1>1. CASE StartHealth
  <2>1. UNCHANGED <<peers, stats>> /\ task[Manager].at = "idle" /\ task'[Manager].at = "health"
    BY <1>1, <1>g DEF StartHealth, In, At
  <2>2. Counted' /\ LookStands'
    BY <1>t, <1>p, <2>1 DEF Counted, LookStands, Uncounted, Undecided
  <2> QED BY <1>m, <1>t, <2>1, <2>2, ManagerLeavesPeers
<1>2. CASE CheckHealth
  <2>1. /\ UNCHANGED stats /\ task[Manager].at = "health" /\ task'[Manager].at \in {"idle", "look"}
        /\ Holds(lock["peers"], Manager) /\ lock["peers"][Manager].want = "write"
    BY <1>2, <1>t, <1>n DEF CheckHealth, In, Has, InPlace, PeersWant
  <2>2. peers' = [i \in Peers |-> IF Connected(i) /\ peers[i].inactive
                                 THEN [peers[i] EXCEPT !.status = "Reconnecting"]
                                 ELSE peers[i]]
    BY <1>2 DEF CheckHealth
  <2>3. peers' \in [Peers -> Peer \cup {None}]
    BY <1>t, <2>2 DEF Connected, Peer
  <2>4. \A i \in Peers : /\ Connected(i)' => peers'[i] = peers[i]
                         /\ peers'[i] = None <=> peers[i] = None
    <3> SUFFICES ASSUME NEW i \in Peers
                 PROVE  /\ Connected(i)' => peers'[i] = peers[i]
                        /\ peers'[i] = None <=> peers[i] = None
      OBVIOUS
    <3>1. CASE Connected(i) /\ peers[i].inactive
      <4>1. peers[i] \in Peer /\ peers'[i] = [peers[i] EXCEPT !.status = "Reconnecting"]
        BY <1>t, <2>2, <3>1 DEF Connected
      <4>2. peers'[i].status = "Reconnecting" /\ peers[i] # None
        BY <3>1, <4>1 DEF Peer, Connected
      <4>3. peers'[i] # None
        BY <4>1, NoneAssumption DEF Peer
      <4> QED BY <3>1, <4>2, <4>3 DEF Connected
    <3>2. CASE ~(Connected(i) /\ peers[i].inactive)
      BY <2>2, <3>2
    <3> QED BY <3>1, <3>2
  <2>5. Known' = Known /\ OneConnection'
    BY <1>t, <2>4 DEF Known, OneConnection, Connected
  <2>6. Counted' /\ LookStands'
    BY <1>t, <2>1, <2>5 DEF Counted, LookStands, Uncounted, Undecided
  <2> QED BY <1>m, <2>1, <2>3, <2>5, <2>6, ManagerWritesPeers
<1>3. CASE Look
  <2>1. UNCHANGED <<peers, stats>> /\ task[Manager].at = "look"
    BY <1>3 DEF Look, In
  <2>2. Counted' /\ LookStands'
    <3>1. CASE MustConnect(On(Manager))
      <4>1. /\ task'[Manager].at = "attempt" /\ task'[Manager].on = task[Manager].on
            /\ ~ConnectedTo(task[Manager].on)
        BY <1>3, <1>g, <3>1 DEF Look, MustConnect, On, At
      <4> QED BY <1>t, <1>p, <2>1, <4>1 DEF Counted, LookStands, Uncounted, Undecided
    <3>2. CASE ~MustConnect(On(Manager))
      <4>1. task'[Manager].at \in {"idle", "look"}
        BY <1>3, <1>n, <3>2 DEF Look
      <4> QED BY <1>t, <1>p, <2>1, <4>1 DEF Counted, LookStands, Uncounted, Undecided
    <3> QED BY <3>1, <3>2
  <2> QED BY <1>m, <1>t, <2>1, <2>2, ManagerLeavesPeers
<1>4. CASE Attempt
  <2>1. /\ UNCHANGED peers /\ task[Manager].at = "attempt" /\ stats' \in Stats
        /\ stats'.attempts = stats.attempts + 1 /\ stats'.successful = stats.successful
        /\ stats'.failed = stats.failed /\ stats'.connected = stats.connected
    BY <1>4, <1>t DEF Attempt, In, Stats
  <2>2. \/ task'[Manager].at \in {"idle", "look"}
        \/ task'[Manager].at = "dial" /\ task'[Manager].on = task[Manager].on
    BY <1>4, <1>n, <1>g DEF Attempt, At
  <2>3. Counted' /\ LookStands'
    BY <1>t, <1>p, <2>1, <2>2 DEF Counted, LookStands, Uncounted, Undecided
  <2> QED BY <1>m, <2>1, <2>3, ManagerLeavesPeers
<1>5. CASE Dial
  <2>1. UNCHANGED <<peers, stats>> /\ task[Manager].at = "dial"
    BY <1>5 DEF Dial, In
  <2>2. task'[Manager].at \in {"add", "count_failed"} /\ task'[Manager].on = task[Manager].on
    BY <1>5, <1>g DEF Dial, At
  <2>3. Counted' /\ LookStands'
    BY <1>t, <1>p, <2>1, <2>2 DEF Counted, LookStands, Uncounted, Undecided
  <2> QED BY <1>m, <1>t, <2>1, <2>3, ManagerLeavesPeers
<1>6. ASSUME NEW i \in Peers, Add(i)
      PROVE  IInv'
  <2>1. /\ UNCHANGED stats /\ task[Manager].at = "add" /\ i \notin Known
        /\ Holds(lock["peers"], Manager) /\ lock["peers"][Manager].want = "write"
    BY <1>6, <1>t DEF Add, In, Has, InPlace, PeersWant
  <2>2. task'[Manager].at = "count_ok"
    BY <1>6, <1>g DEF Add, At
  <2> DEFINE p == [callsign |-> task[Manager].on, status |-> "Connected", inactive |-> FALSE]
  <2>3. peers' = [peers EXCEPT ![i] = p] /\ p \in Peer /\ p.callsign = task[Manager].on
    BY <1>6, <1>t, <2>1 DEF Add, On, InPlace, Peer
  <2>4. peers' \in [Peers -> Peer \cup {None}] /\ peers'[i] = p
        /\ \A j \in Peers \ {i} : peers'[j] = peers[j]
    BY <1>t, <2>3
  <2>5. Known' = Known \cup {i}
    <3>1. p # None
      BY <2>3, NoneAssumption
    <3> QED BY <2>4, <3>1 DEF Known
  <2>6. Cardinality(Known') = Cardinality(Known) + 1
    BY <2>1, <2>5, KnownFinite, FS_AddElement
  <2>7. OneConnection'
    <3>1. ~ConnectedTo(task[Manager].on)
      BY <1>t, <2>1 DEF LookStands
    <3>2. ASSUME NEW j \in Peers \ {i}
          PROVE  Connected(j)' => Connected(j) /\ peers'[j].callsign # task[Manager].on
      BY <2>4, <3>1 DEF Connected, ConnectedTo
    <3> HIDE DEF p
    <3> QED BY <1>t, <2>3, <2>4, <3>2 DEF OneConnection, Connected
  <2>8. Counted' /\ LookStands'
    BY <1>t, <2>1, <2>2, <2>6 DEF Counted, LookStands, Uncounted, Undecided
  <2> QED BY <1>m, <2>1, <2>4, <2>7, <2>8, ManagerWritesPeers
<1>7. CASE CountOk
  <2>1. /\ UNCHANGED peers /\ task[Manager].at = "count_ok" /\ stats' \in Stats
        /\ stats'.attempts = stats.attempts /\ stats'.successful = stats.successful + 1
        /\ stats'.failed = stats.failed /\ stats'.connected = stats.connected
        /\ task'[Manager].at \in {"idle", "look"}
    BY <1>7, <1>t, <1>n DEF CountOk, In, Stats
  <2>2. Counted' /\ LookStands'
    BY <1>t, <1>p, <2>1 DEF Counted, LookStands, Uncounted, Undecided
  <2> QED BY <1>m, <2>1, <2>2, ManagerLeavesPeers
<1>8. CASE CountFailed
  <2>1. /\ UNCHANGED peers /\ task[Manager].at = "count_failed" /\ stats' \in Stats
        /\ stats'.attempts = stats.attempts /\ stats'.successful = stats.successful
        /\ stats'.failed = stats.failed + 1 /\ stats'.connected = stats.connected
        /\ task'[Manager].at \in {"idle", "look"}
    BY <1>8, <1>t, <1>n DEF CountFailed, In, Stats
  <2>2. Counted' /\ LookStands'
    BY <1>t, <1>p, <2>1 DEF Counted, LookStands, Uncounted, Undecided
  <2> QED BY <1>m, <2>1, <2>2, ManagerLeavesPeers
<1> QED BY <1>1, <1>2, <1>3, <1>4, <1>5, <1>6, <1>7, <1>8 DEF ManagerStep

\* A step of a client that may mark a peer disconnected and leaves the rest alone.
LEMMA ClientLeaves ==
  ASSUME IInv, NEW c \in Clients, Moved(c), UNCHANGED stats,
         peers' \in [Peers -> Peer \cup {None}],
         \A i \in Peers : /\ Connected(i)' => peers'[i] = peers[i]
                          /\ peers'[i] = None <=> peers[i] = None,
         SentToConnected'
  PROVE  IInv'
<1>0. c \in Tasks \ {Manager}
  BY TaskAssumption DEF Tasks
<1>1. LocksOK' /\ \A r \in Tasks : InPlace(r)'
  BY <1>0, AllInPlace DEF IInv, Moved
<1>2. task'[Manager] = task[Manager] /\ Uncounted' = Uncounted /\ Undecided' = Undecided
  BY <1>0, ManagerRests
<1>3. Known' = Known
  BY DEF Known
<1>4. OneConnection' /\ LookStands' /\ Counted'
  BY <1>2, <1>3 DEF IInv, OneConnection, LookStands, ConnectedTo, Connected, Counted
<1>5. TypeOK'
  BY DEF IInv, TypeOK, Moved, Locks
<1> QED BY <1>1, <1>4, <1>5 DEF IInv

\* A client that leaves the table alone, and is about to count a message only for a peer
\* it has seen connected.
LEMMA ClientQuiet ==
  ASSUME IInv, NEW c \in Clients, Moved(c), UNCHANGED <<peers, stats>>,
         task'[c].at = "sent" => Connected(task'[c].on)
  PROVE  IInv'
<1>1. SentToConnected'
  <2> SUFFICES ASSUME NEW d \in Clients, task'[d].at = "sent"
               PROVE  Connected(task'[d].on)
    BY DEF SentToConnected, In, On, Connected
  <2>1. CASE d = c
    BY <2>1
  <2>2. CASE d # c
    <3>1. task'[d] = task[d]
      BY <2>2 DEF Moved, Tasks
    <3> QED BY <3>1 DEF IInv, SentToConnected, In, On
  <2> QED BY <2>1, <2>2
<1> QED BY <1>1, ClientLeaves DEF IInv, TypeOK

LEMMA ClientKeeps ==
  ASSUME IInv, NEW c \in Clients,
         Send(c) \/ Broadcast(c) \/ DisconnectStart(c) \/ ReadStart(c) \/ ClientStep(c)
  PROVE  IInv'
<1>0. c \in Tasks
  BY DEF Tasks
<1>m. Moved(c)
  BY ClientStarts, ClientMoves
<1>t. TypeOK /\ InPlace(c) /\ peers \in [Peers -> Peer \cup {None}] /\ task \in [Tasks -> Task]
  BY <1>0 DEF IInv, TypeOK
<1>n. ASSUME NEW todo, NEW S, NextSend(c, todo, S)
      PROVE  task'[c].at # "sent"
  BY <1>0, <1>t, <1>n DEF NextSend, Ends, Idle
<1>g. ASSUME NEW at \in At, Goto(c, at)
      PROVE  task'[c].at = at /\ task'[c].on = task[c].on
  BY <1>0, <1>t, <1>g, GotoMoves
<1>1. CASE Send(c) \/ Collect(c) \/ CountSent(c)
  BY <1>m, <1>n, <1>1, ClientQuiet DEF Send, Collect, CountSent
<1>2. CASE Broadcast(c) \/ ReadStart(c)
  BY <1>m, <1>g, <1>2, ClientQuiet DEF Broadcast, ReadStart, At
<1>3. CASE DisconnectStart(c)
  <2>1. PICK i \in Peers : task' = [task EXCEPT ![c].at = "disconnect", ![c].on = i]
    BY <1>3 DEF DisconnectStart
  <2>2. task'[c].at = "disconnect" /\ UNCHANGED <<peers, stats>>
    BY <1>0, <1>t, <1>3, <2>1 DEF DisconnectStart, Task
  <2> QED BY <1>m, <2>2, ClientQuiet
<1>4. CASE Find(c)
  <2>1. task'[c].at = "sent" => Connected(task'[c].on)
    <3>1. CASE Connected(On(c)) /\ Goto(c, "sent")
      BY <1>g, <3>1 DEF On, At
    <3>2. CASE NextSend(c, task[c].todo, {"peers"})
      BY <1>n, <3>2
    <3> QED BY <1>4, <3>1, <3>2 DEF Find
  <2> QED BY <1>m, <1>4, <2>1, ClientQuiet DEF Find
<1>5. CASE ReadDone(c)
  <2>1. task'[c] = Idle /\ UNCHANGED <<peers, stats>>
    BY <1>0, <1>t, <1>5, EndsMoves DEF ReadDone
  <2> QED BY <1>m, <2>1, ClientQuiet DEF Idle
<1>6. CASE Disconnect(c)
  <2>1. /\ UNCHANGED stats /\ Ends(c) /\ Holds(lock["peers"], c)
        /\ task[c].at = "disconnect" /\ lock["peers"][c].want = "write"
        /\ task[c].on \in Peers
    BY <1>6, <1>t DEF Disconnect, In, Has, InPlace, PeersWant
  <2>2. peers' = IF task[c].on \in Known
                 THEN [peers EXCEPT ![task[c].on].status = "Disconnected"] ELSE peers
    BY <1>6 DEF Disconnect, On
  <2>3. task'[c] = Idle /\ \A r \in Tasks \ {c} : task'[r] = task[r]
    BY <1>0, <1>t, <2>1, EndsMoves
  <2>4. SentToConnected'
    <3>1. \A d \in Clients : ~In(d, "sent")'
      BY <1>0, <2>1, <2>3, NoSender DEF In, Idle, Tasks
    <3> QED BY <3>1 DEF SentToConnected
  <2>5. CASE task[c].on \notin Known
    BY <1>m, <1>t, <2>1, <2>2, <2>4, <2>5, ClientLeaves
  <2>6. CASE task[c].on \in Known
    <3> DEFINE i == task[c].on
               p == [peers[i] EXCEPT !.status = "Disconnected"]
    <3>1. peers' = [peers EXCEPT ![i] = p] /\ p \in Peer /\ p.status = "Disconnected"
          /\ peers[i] # None /\ i \in Peers
      BY <1>t, <2>2, <2>6 DEF Known, Peer
    <3> HIDE DEF p, i
    <3>2. /\ peers' \in [Peers -> Peer \cup {None}] /\ peers'[i] = p
          /\ \A j \in Peers \ {i} : peers'[j] = peers[j]
      BY <1>t, <3>1
    <3>3. peers'[i] # None
      BY <3>1, <3>2, NoneAssumption
    <3>4. \A j \in Peers : /\ Connected(j)' => peers'[j] = peers[j]
                           /\ peers'[j] = None <=> peers[j] = None
      BY <3>1, <3>2, <3>3 DEF Connected
    <3> QED BY <1>m, <2>1, <2>4, <3>2, <3>4, ClientLeaves
  <2> QED BY <2>5, <2>6
<1> QED BY <1>1, <1>2, <1>3, <1>4, <1>5, <1>6 DEF ClientStep

LEMMA PeerKeeps ==
  ASSUME IInv, NEW i \in Peers, GrowInactive(i)
  PROVE  IInv'
<1> DEFINE p == [peers[i] EXCEPT !.inactive = TRUE]
<1>t. peers \in [Peers -> Peer \cup {None}] /\ UNCHANGED <<stats, lock, task>>
  BY DEF IInv, TypeOK, GrowInactive
<1>1. /\ peers' = [peers EXCEPT ![i] = p] /\ p \in Peer /\ peers[i] # None
      /\ p.status = peers[i].status /\ p.callsign = peers[i].callsign
  BY <1>t DEF GrowInactive, Known, Peer
<1> HIDE DEF p
<1>2. /\ peers' \in [Peers -> Peer \cup {None}] /\ peers'[i] = p /\ p # None
      /\ \A j \in Peers \ {i} : peers'[j] = peers[j]
  BY <1>t, <1>1, NoneAssumption
<1>3. \A j \in Peers : /\ Connected(j)' <=> Connected(j)
                       /\ Connected(j) => peers'[j].callsign = peers[j].callsign
                       /\ peers'[j] = None <=> peers[j] = None
  BY <1>1, <1>2 DEF Connected
<1>4. Known' = Known
  BY <1>3 DEF Known
<1>5. OneConnection' /\ LookStands'
  BY <1>t, <1>3 DEF IInv, OneConnection, LookStands, ConnectedTo
<1>6. SentToConnected'
  <2>1. \A c \in Clients : In(c, "sent") => On(c) \in Peers
    BY DEF IInv, InPlace, Tasks, In, On
  <2> QED BY <1>t, <1>3, <2>1 DEF IInv, SentToConnected, In, On
<1>7. TypeOK' /\ LocksOK' /\ Counted' /\ \A t \in Tasks : InPlace(t)'
  BY <1>t, <1>2, <1>4 DEF IInv, TypeOK, LocksOK, Counted, Uncounted, Undecided, InPlace
<1> QED BY <1>5, <1>6, <1>7 DEF IInv

(***************************************************************************)
(* The theorems.                                                           *)
(***************************************************************************)

LEMMA Initially ==
  ASSUME Init
  PROVE  IInv
<1>1. /\ \A t \in Tasks : task[t] = Idle
      /\ \A l \in Locks : lock[l] = Open(Tasks)
      /\ \A i \in Peers : peers[i] = None
  BY DEF Init, Locks
<1>2. \A l \in Locks : lock[l] \in Lock(Tasks) /\ InOrder(lock[l])
  BY <1>1, OpenOrder
<1>3. TypeOK
  <2>1. lock \in [Locks -> Lock(Tasks)]
    BY <1>2 DEF Init, Locks
  <2> QED BY <2>1 DEF Init, TypeOK, Locks, Stats, Task, Idle, At
<1>4. \A t \in Tasks : InPlace(t)
  BY <1>1, TaskAssumption
  DEF InPlace, Idle, Open, Apart, PeersWant, StatsWant, LoopAt, ManagerAt, ClientAt, Locks
<1>5. Known = {} /\ \A i \in Peers : ~Connected(i)
  BY <1>1 DEF Known, Connected
<1>6. OneConnection /\ LookStands /\ SentToConnected
  BY <1>1, <1>5 DEF OneConnection, LookStands, SentToConnected, In, Idle, Tasks
<1>7. Counted
  BY <1>1, <1>5, FS_EmptySet DEF Init, Counted, Uncounted, Undecided, Idle, Tasks
<1> QED BY <1>2, <1>3, <1>4, <1>6, <1>7 DEF IInv, LocksOK

\* The inductive invariant of the peer table, the statistics and their locks.
THEOREM Invariance == Spec => []IInv
<1>1. IInv /\ [Next]_vars => IInv'
  <2> SUFFICES ASSUME IInv, [Next]_vars PROVE IInv'
    OBVIOUS
  <2>1. CASE UNCHANGED vars
    BY <2>1 DEF vars, IInv, TypeOK, LocksOK, InPlace, OneConnection, LookStands, ConnectedTo,
                Connected, SentToConnected, In, On, Counted, Known, Uncounted, Undecided
  <2>2. CASE Next
    BY <2>2, LoopKeeps, ManagerKeeps, ClientKeeps, PeerKeeps DEF Next, LoopStep
  <2> QED BY <2>1, <2>2
<1> QED BY <1>1, Initially, PTL DEF Spec

\* Every variable keeps its type.
THEOREM TypeCorrect == Spec => []TypeOK
<1>1. IInv => TypeOK
  BY DEF IInv
<1> QED BY <1>1, Invariance, PTL

\* The manager never connects twice to a configured peer: nobody else inserts between its
\* look at the table and its insertion, and the others only disconnect.
THEOREM OneLink == Spec => []OneConnection
<1>1. IInv => OneConnection
  BY DEF IInv
<1> QED BY <1>1, Invariance, PTL

\* A message is counted while its peer is connected, since its sender keeps reading the
\* table and whoever changes it writes.
THEOREM CountedWhileConnected == Spec => []SentToConnected
<1>1. IInv => SentToConnected
  BY DEF IInv
<1> QED BY <1>1, Invariance, PTL

\* The statistics never contradict each other.
THEOREM Consistent == Spec => []StatsConsistent
<1>1. IInv => StatsConsistent
  BY DEF IInv, TypeOK, Stats, Counted, StatsConsistent, Undecided
<1> QED BY <1>1, Invariance, PTL

\* A handler under way can go on, or the two circular waiters have met. Somebody holds the
\* statistics if they are asked for: he has all he asked for, unless he is the loop, which
\* then waits for the peers, and whoever holds those waits for it or for nothing.
LEMMA SomebodyReady ==
  ASSUME IInv
  PROVE  NoOtherWait
<1> SUFFICES ASSUME NEW i \in Tasks, task[i].at # "idle", ~Embrace
             PROVE  \E t \in Tasks : Ready(t)
  BY DEF NoOtherWait, In
<1>t. lock["peers"] \in Lock(Tasks) /\ lock["stats"] \in Lock(Tasks) /\ DOMAIN lock = Locks
  BY DEF IInv, TypeOK, Locks
<1>o. InOrder(lock["peers"]) /\ InOrder(lock["stats"])
  BY DEF IInv, LocksOK, Locks
<1>f. IsFiniteSet(Tasks)
  <2>1. IsFiniteSet(Clients \cup {Loop})
    BY TaskAssumption, FS_AddElement
  <2>2. IsFiniteSet((Clients \cup {Loop}) \cup {Manager})
    BY <2>1, FS_AddElement
  <2>3. Tasks = (Clients \cup {Loop}) \cup {Manager}
    BY DEF Tasks
  <2> QED BY <2>2, <2>3
<1>p. \A t \in Tasks : InPlace(t)
  BY DEF IInv
<1>a. /\ \A t : t \in Asking(lock["peers"]) <=> t \in Tasks /\ PeersWant(task[t].at) # "none"
      /\ \A t : t \in Asking(lock["stats"]) <=> t \in Tasks /\ StatsWant(task[t].at) # "none"
  BY <1>t, <1>p DEF Asking, Lock, InPlace
<1>r. ASSUME NEW t \in Tasks, task[t].at # "idle",
             PeersWant(task[t].at) = "none" \/ Holds(lock["peers"], t),
             StatsWant(task[t].at) = "none" \/ Holds(lock["stats"], t)
      PROVE  Ready(t)
  BY <1>t, <1>p, <1>r DEF Ready, In, Has, InPlace, Locks
<1>1. CASE Asking(lock["stats"]) # {}
  <2>1. PICK t \in Asking(lock["stats"]) : Holds(lock["stats"], t)
    BY <1>1, <1>f, <1>o, <1>t, SomebodyHolds
  <2>2. t \in Tasks /\ StatsWant(task[t].at) # "none" /\ task[t].at # "idle"
    BY <1>a DEF StatsWant
  <2>3. CASE PeersWant(task[t].at) = "none" \/ Holds(lock["peers"], t)
    BY <1>r, <2>1, <2>2, <2>3
  <2>4. CASE PeersWant(task[t].at) # "none" /\ ~Holds(lock["peers"], t)
    <3>1. task[t].at = "count"
      BY <1>p, <2>2, <2>4 DEF InPlace, StatsWant, PeersWant
    <3>2. t = Loop
      BY <1>p, <2>2, <3>1, TaskAssumption DEF InPlace, ManagerAt, ClientAt
    <3>3. PICK s \in Asking(lock["peers"]) : Holds(lock["peers"], s)
      BY <1>a, <1>f, <1>o, <1>t, <2>2, <2>4, SomebodyHolds
    <3>4. s \in Tasks /\ s # Loop /\ PeersWant(task[s].at) # "none" /\ task[s].at # "idle"
      BY <1>a, <2>4, <3>2, <3>3 DEF PeersWant
    <3>5. task[s].at \notin {"count_ok", "sent"}
      BY <2>4, <3>1, <3>2, <3>4 DEF Embrace, In, Has, Tasks
    <3>6. StatsWant(task[s].at) = "none"
      BY <1>p, <3>4, <3>5 DEF InPlace, ManagerAt, ClientAt, StatsWant, PeersWant
    <3> QED BY <1>r, <3>3, <3>4, <3>6
  <2> QED BY <2>3, <2>4
<1>2. CASE Asking(lock["stats"]) = {} /\ Asking(lock["peers"]) # {}
  <2>1. PICK t \in Asking(lock["peers"]) : Holds(lock["peers"], t)
    BY <1>2, <1>f, <1>o, <1>t, SomebodyHolds
  <2>2. t \in Tasks /\ PeersWant(task[t].at) # "none" /\ task[t].at # "idle"
    BY <1>a DEF PeersWant
  <2>3. StatsWant(task[t].at) = "none"
    BY <1>2, <1>a, <2>2
  <2> QED BY <1>r, <2>1, <2>2, <2>3
<1>3. CASE Asking(lock["stats"]) = {} /\ Asking(lock["peers"]) = {}
  BY <1>3, <1>a, <1>r
<1> QED BY <1>1, <1>2, <1>3

\* The one circular wait is the only one.
THEOREM OnlyOneWait == Spec => []NoOtherWait
<1> QED BY Invariance, SomebodyReady, PTL
=============================================================================
