--------------------------- MODULE NetworkManager ---------------------------
(***************************************************************************)
(* NetworkManager of network/mod.rs: the peer table and the statistics,    *)
(* each behind a lock, shared by the statistics loop, the peer manager and *)
(* the tasks that send, broadcast, disconnect and read. Handlers are cut   *)
(* where they wait for a lock or for a connection.                         *)
(***************************************************************************)
EXTENDS Integers, FiniteSets, RwLocks

CONSTANTS
  Clients,      \* tasks that call the public methods, one at a time each
  Loop,         \* update_statistics_loop
  Manager,      \* peer_manager
  Peers,        \* peer ids. Bound: a connection is made only while one is left
  Callsigns,    \* the configured peers
  AutoConnect,  \* those with auto_connect
  BadAddress,   \* those whose address does not parse
  Calls,        \* the calls clients make: all of AllCalls but for a bound
  MaxAttempts,  \* bound: the manager rests after this many attempts
  None

AllCalls == {"send", "broadcast", "disconnect", "read_stats", "read_peers"}
Tasks    == Clients \cup {Loop, Manager}

ASSUME TaskAssumption == /\ Loop \notin Clients /\ Manager \notin Clients /\ Loop # Manager
                         /\ IsFiniteSet(Clients)
ASSUME PeerAssumption == /\ IsFiniteSet(Peers) /\ None \notin Peers \cup Callsigns
                         /\ AutoConnect \subseteq Callsigns
ASSUME CallAssumption == Calls \subseteq AllCalls
ASSUME MaxAssumption  == MaxAttempts \in Nat

VARIABLES
  peers,   \* the peer table
  stats,   \* the counters that connections and the loop write
  lock,    \* the locks of the two
  task     \* where each task is, and its locals

vars == <<peers, stats, lock, task>>

\* inactive: no activity for 300 s; nothing ever renews a peer's last_activity.
Peer  == [callsign: Callsigns, status: {"Connected", "Reconnecting", "Disconnected"},
          inactive: BOOLEAN]
ASSUME NoneAssumption == None \notin Peer

Stats == [attempts: Nat, successful: Nat, failed: Nat, connected: Nat]
At    == {"idle", "tick", "count",
          "health", "look", "attempt", "dial", "add", "count_ok", "count_failed",
          "collect", "find", "sent", "disconnect", "read_stats", "read_peers"}

\* todo: the configured peers still to look at, or the peers still to send to.
Task == [at: At, on: Peers \cup Callsigns \cup {None}, todo: SUBSET (Peers \cup Callsigns)]
Idle == [at |-> "idle", on |-> None, todo |-> {}]

TypeOK ==
  /\ peers \in [Peers -> Peer \cup {None}]
  /\ stats \in Stats
  /\ lock \in [{"peers", "stats"} -> Lock(Tasks)]
  /\ task \in [Tasks -> Task]

Init ==
  /\ peers = [i \in Peers |-> None]
  /\ stats = [attempts |-> 0, successful |-> 0, failed |-> 0, connected |-> 0]
  /\ lock = [l \in {"peers", "stats"} |-> Open(Tasks)]
  /\ task = [t \in Tasks |-> Idle]

Known        == {i \in Peers : peers[i] # None}
Connected(i) == peers[i] # None /\ peers[i].status = "Connected"
ConnectedTo(c) == \E i \in Peers : Connected(i) /\ peers[i].callsign = c

----------------------------------------------------------------------------
(* Moving a task: it releases some locks, asks for another, and goes on.   *)

In(t, at) == task[t].at = at
On(t)     == task[t].on
Has(t, l) == Holds(lock[l], t)

\* Guards are dropped in the order of the code; nothing awaits between them.
After(t, released, l) == IF l \in released THEN Released(lock[l], t) ELSE lock[l]

Frees(t, released) == lock' = [l \in DOMAIN lock |-> After(t, released, l)]
Wants(t, released, wanted, want) ==
  lock' = [l \in DOMAIN lock |->
             IF l = wanted THEN Asked(After(t, released, l), t, want)
             ELSE After(t, released, l)]

Goto(t, at) == task' = [task EXCEPT ![t].at = at]
Ends(t)     == task' = [task EXCEPT ![t] = Idle]

----------------------------------------------------------------------------
(* update_statistics_loop: stats, then peers.                              *)

Tick ==
  /\ In(Loop, "idle")
  /\ Wants(Loop, {}, "stats", "write")
  /\ Goto(Loop, "tick")
  /\ UNCHANGED <<peers, stats>>

\* The statistics stay locked while the loop waits for the peers.
Uptime ==
  /\ In(Loop, "tick") /\ Has(Loop, "stats")
  /\ Wants(Loop, {}, "peers", "read")
  /\ Goto(Loop, "count")
  /\ UNCHANGED <<peers, stats>>

CountPeers ==
  /\ In(Loop, "count") /\ Has(Loop, "peers")
  /\ stats' = [stats EXCEPT !.connected = Cardinality({i \in Peers : Connected(i)})]
  /\ Frees(Loop, {"peers", "stats"})
  /\ Ends(Loop)
  /\ UNCHANGED peers

----------------------------------------------------------------------------
(* peer_manager: check_peer_health, then connect_to_peers.                 *)

StartHealth ==
  /\ In(Manager, "idle")
  /\ stats.attempts < MaxAttempts
  /\ Wants(Manager, {}, "peers", "write")
  /\ Goto(Manager, "health")
  /\ UNCHANGED <<peers, stats>>

\* The next configured peer, in any order, if any is left: the table is read for it.
NextLook(todo, released) ==
  IF todo = {}
  THEN Frees(Manager, released) /\ Ends(Manager)
  ELSE /\ Wants(Manager, released, "peers", "read")
       /\ \E c \in todo : task' = [task EXCEPT ![Manager] =
                                     [at |-> "look", on |-> c, todo |-> todo \ {c}]]

CheckHealth ==
  /\ In(Manager, "health") /\ Has(Manager, "peers")
  /\ peers' = [i \in Peers |-> IF Connected(i) /\ peers[i].inactive
                               THEN [peers[i] EXCEPT !.status = "Reconnecting"]
                               ELSE peers[i]]
  /\ NextLook(Callsigns, {"peers"})
  /\ UNCHANGED stats

\* The table is released before the connection is attempted.
MustConnect_Always(c) == c \in AutoConnect
MustConnect(c) == c \in AutoConnect /\ ~ConnectedTo(c)
Look_Held ==
  /\ In(Manager, "look") /\ Has(Manager, "peers")
  /\ IF MustConnect(On(Manager))
     THEN Wants(Manager, {}, "stats", "write") /\ Goto(Manager, "attempt")
     ELSE NextLook(task[Manager].todo, {"peers"})
  /\ UNCHANGED <<peers, stats>>
Look ==
  /\ In(Manager, "look") /\ Has(Manager, "peers")
  /\ IF MustConnect(On(Manager))
     THEN Wants(Manager, {"peers"}, "stats", "write") /\ Goto(Manager, "attempt")
     ELSE NextLook(task[Manager].todo, {"peers"})
  /\ UNCHANGED <<peers, stats>>

\* An address that does not parse ends the attempt, counted as neither.
Attempt ==
  /\ In(Manager, "attempt") /\ Has(Manager, "stats")
  /\ stats' = [stats EXCEPT !.attempts = @ + 1]
  /\ IF On(Manager) \in BadAddress
     THEN NextLook(task[Manager].todo, {"stats"})
     ELSE Frees(Manager, {"stats"}) /\ Goto(Manager, "dial")
  /\ UNCHANGED peers

Dial ==
  /\ In(Manager, "dial")
  /\ \/ /\ Known # Peers
        /\ Wants(Manager, {}, "peers", "write") /\ Goto(Manager, "add")
     \/ Wants(Manager, {}, "stats", "write") /\ Goto(Manager, "count_failed")
  /\ UNCHANGED <<peers, stats>>

\* A fresh id; the table stays locked while the statistics are waited for.
Add_Unlocked(i) ==
  /\ In(Manager, "add") /\ Has(Manager, "peers")
  /\ i \notin Known
  /\ peers' = [peers EXCEPT ![i] =
                 [callsign |-> On(Manager), status |-> "Connected", inactive |-> FALSE]]
  /\ Wants(Manager, {"peers"}, "stats", "write")
  /\ Goto(Manager, "count_ok")
  /\ UNCHANGED stats
Add(i) ==
  /\ In(Manager, "add") /\ Has(Manager, "peers")
  /\ i \notin Known
  /\ peers' = [peers EXCEPT ![i] =
                 [callsign |-> On(Manager), status |-> "Connected", inactive |-> FALSE]]
  /\ Wants(Manager, {}, "stats", "write")
  /\ Goto(Manager, "count_ok")
  /\ UNCHANGED stats

CountOk ==
  /\ In(Manager, "count_ok") /\ Has(Manager, "stats")
  /\ stats' = [stats EXCEPT !.successful = @ + 1]
  /\ NextLook(task[Manager].todo, {"peers", "stats"})
  /\ UNCHANGED peers

CountFailed_Down ==
  /\ In(Manager, "count_failed") /\ Has(Manager, "stats")
  /\ stats' = [stats EXCEPT !.failed = @ - 1]
  /\ NextLook(task[Manager].todo, {"stats"})
  /\ UNCHANGED peers
CountFailed ==
  /\ In(Manager, "count_failed") /\ Has(Manager, "stats")
  /\ stats' = [stats EXCEPT !.failed = @ + 1]
  /\ NextLook(task[Manager].todo, {"stats"})
  /\ UNCHANGED peers

----------------------------------------------------------------------------
(* The public methods.                                                     *)

\* The next peer to send to, in any order, if any is left.
NextSend(c, todo, released) ==
  IF todo = {}
  THEN Frees(c, released) /\ Ends(c)
  ELSE /\ Wants(c, released, "peers", "read")
       /\ \E i \in todo : task' = [task EXCEPT ![c] =
                                     [at |-> "find", on |-> i, todo |-> todo \ {i}]]

\* send_to_peer, of an id that may be unknown.
Send(c) ==
  /\ In(c, "idle") /\ "send" \in Calls
  /\ \E i \in Peers : NextSend(c, {i}, {})
  /\ UNCHANGED <<peers, stats>>

\* broadcast_message: the connected peers are collected first, and sent to one by one.
Broadcast(c) ==
  /\ In(c, "idle") /\ "broadcast" \in Calls
  /\ Wants(c, {}, "peers", "read") /\ Goto(c, "collect")
  /\ UNCHANGED <<peers, stats>>

Collect_Held(c) ==
  /\ In(c, "collect") /\ Has(c, "peers")
  /\ NextSend(c, {i \in Peers : Connected(i)}, {})
  /\ UNCHANGED <<peers, stats>>
Collect(c) ==
  /\ In(c, "collect") /\ Has(c, "peers")
  /\ NextSend(c, {i \in Peers : Connected(i)}, {"peers"})
  /\ UNCHANGED <<peers, stats>>

\* The table stays locked while the statistics are waited for. An unknown or unconnected
\* peer is an error, as may be the compression; broadcast_message passes over errors.
Find_Unlocked(c) ==
  /\ In(c, "find") /\ Has(c, "peers")
  /\ \/ Connected(On(c)) /\ Wants(c, {"peers"}, "stats", "write") /\ Goto(c, "sent")
     \/ NextSend(c, task[c].todo, {"peers"})
  /\ UNCHANGED <<peers, stats>>
Find(c) ==
  /\ In(c, "find") /\ Has(c, "peers")
  /\ \/ Connected(On(c)) /\ Wants(c, {}, "stats", "write") /\ Goto(c, "sent")
     \/ NextSend(c, task[c].todo, {"peers"})
  /\ UNCHANGED <<peers, stats>>

\* messages_sent and bytes_transmitted, which nothing reads, are left out.
CountSent(c) ==
  /\ In(c, "sent") /\ Has(c, "stats")
  /\ NextSend(c, task[c].todo, {"peers", "stats"})
  /\ UNCHANGED <<peers, stats>>

DisconnectStart(c) ==
  /\ In(c, "idle") /\ "disconnect" \in Calls
  /\ Wants(c, {}, "peers", "write")
  /\ \E i \in Peers : task' = [task EXCEPT ![c].at = "disconnect", ![c].on = i]
  /\ UNCHANGED <<peers, stats>>

Disconnect(c) ==
  /\ In(c, "disconnect") /\ Has(c, "peers")
  /\ peers' = IF On(c) \in Known THEN [peers EXCEPT ![On(c)].status = "Disconnected"]
              ELSE peers
  /\ Frees(c, {"peers"}) /\ Ends(c)
  /\ UNCHANGED stats

\* get_stats and get_connected_peers.
ReadStart(c) ==
  /\ In(c, "idle")
  /\ \/ "read_stats" \in Calls /\ Wants(c, {}, "stats", "read") /\ Goto(c, "read_stats")
     \/ "read_peers" \in Calls /\ Wants(c, {}, "peers", "read") /\ Goto(c, "read_peers")
  /\ UNCHANGED <<peers, stats>>

ReadDone(c) ==
  /\ \/ In(c, "read_stats") /\ Has(c, "stats") /\ Frees(c, {"stats"})
     \/ In(c, "read_peers") /\ Has(c, "peers") /\ Frees(c, {"peers"})
  /\ Ends(c)
  /\ UNCHANGED <<peers, stats>>

----------------------------------------------------------------------------

\* Five minutes pass for a peer.
GrowInactive(i) ==
  /\ i \in Known /\ ~peers[i].inactive
  /\ peers' = [peers EXCEPT ![i].inactive = TRUE]
  /\ UNCHANGED <<stats, lock, task>>

LoopStep    == Uptime \/ CountPeers
ManagerStep == CheckHealth \/ Look \/ Attempt \/ Dial \/ (\E i \in Peers : Add(i))
               \/ CountOk \/ CountFailed
ClientStep(c) == Collect(c) \/ Find(c) \/ CountSent(c) \/ Disconnect(c) \/ ReadDone(c)

Next ==
  \/ Tick \/ LoopStep
  \/ StartHealth \/ ManagerStep
  \/ \E c \in Clients :
       \/ Send(c) \/ Broadcast(c) \/ DisconnectStart(c) \/ ReadStart(c)
       \/ ClientStep(c)
  \/ \E i \in Peers : GrowInactive(i)

Spec == Init /\ [][Next]_vars

\* Intervals tick, a task that has its lock goes on, and a connection attempt ends.
Fairness ==
  /\ WF_vars(Tick) /\ WF_vars(LoopStep) /\ WF_vars(ManagerStep)
  /\ \A c \in Clients : WF_vars(ClientStep(c))

FairSpec == Spec /\ Fairness

----------------------------------------------------------------------------
(* Properties.                                                             *)

\* The peer table has at most one live connection to each configured peer, though the
\* table is not locked from the look-up to the insertion.
OneConnection ==
  \A i, j \in Peers :
    Connected(i) /\ Connected(j) /\ peers[i].callsign = peers[j].callsign => i = j

\* A message is counted as sent while its peer is still connected: no health check
\* and no disconnection comes between the look at the peer and the count.
SentToConnected == \A c \in Clients : In(c, "sent") => Connected(On(c))

\* The statistics agree: the loop never reports more connected peers than connections
\* were counted as made, though it counts in a table others write between its rounds;
\* and outcomes never outnumber attempts.
StatsConsistent ==
  /\ stats.connected <= stats.successful
  /\ stats.successful + stats.failed <= stats.attempts

\* The statistics loop holds the statistics and waits for the peers, which a task holds
\* that waits for the statistics.
Embrace ==
  /\ In(Loop, "count") /\ ~Has(Loop, "peers")
  /\ \E t \in Clients \cup {Manager} : task[t].at \in {"count_ok", "sent"}

\* Somebody can always go on, whatever queues on the two locks, but for that one circular
\* wait: a handler that is under way has the locks it asked for, or another one has.
Ready(t) == ~In(t, "idle") /\ \A l \in DOMAIN lock : lock[l][t].want = "none" \/ Has(t, l)
NoOtherWait == (\E t \in Tasks : ~In(t, "idle")) => Embrace \/ \E t \in Tasks : Ready(t)

\* Every call of a client and every round of the manager ends, unless the statistics loop
\* and another task wait for each other for ever: there is no other way to wait for ever.
CallsEnd ==
  \A t \in Clients \cup {Manager} : []<>In(t, "idle") \/ <>[]Embrace

\* What the loop's comment says: "Update statistics periodically".
StatsUpdated == []<>In(Loop, "idle")
=============================================================================
