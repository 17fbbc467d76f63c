\* Two clients, two configured peers of which one has a bad address, and two connections,
\* made one after the other. The system stops where the statistics loop and another task
\* wait for each other.
SPECIFICATION FairSpec
CONSTANTS
  None = None
  Loop = Loop
  Manager = Manager
  Clients = {c1, c2}
  Peers = {i1, i2}
  Callsigns = {"K1", "K2"}
  AutoConnect = {"K1", "K2"}
  BadAddress = {"K2"}
  Calls = {"send", "broadcast", "disconnect", "read_stats", "read_peers"}
  MaxAttempts = 3
INVARIANTS
  TypeOK
  OneConnection
  SentToConnected
  StatsConsistent
  NoOtherWait
PROPERTIES
  CallsEnd
CHECK_DEADLOCK FALSE
