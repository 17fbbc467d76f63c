\* One client composes a direct message, with the default delivery options or without.
SPECIFICATION LivesSpec
CONSTANTS
  Sides = {"message"}
  None = None
  Clients = {c1}
  Messages = {m1}
  Users = {"alice", "bob"}
  Admins = {}
  Members = {}
  Moderators = {}
  Requests <- LifeRequests
  Calls = {"compose"}
  MaxCache = 1
  Nobody = Nobody
  t1 = t1
  Tokens = {}
  Accounts = {u1}
  Durations <- AskedDurations
  Extensions <- AskedExtensions
  MaxPerUser = 1
  MaxDuration = 2
  Default = 2
  MaxCreates = 2
  MaxLate = 1
  Guessers = {}
INVARIANTS
  AcceptedIsFetchable
