\* Two creates of one user at once.
SPECIFICATION LivesSpec
CONSTANTS
  Sides = {"session"}
  None = None
  Clients = {}
  Messages = {m1}
  Users = {"alice", "bob"}
  Admins = {}
  Members = {}
  Moderators = {}
  Requests <- LifeRequests
  Calls = {}
  MaxCache = 1
  Nobody = Nobody
  t1 = t1
  Tokens = {t1, t2}
  Accounts = {u1}
  Durations <- AskedDurations
  Extensions <- AskedExtensions
  MaxPerUser = 1
  MaxDuration = 2
  Default = 2
  MaxCreates = 2
  MaxLate = 1
  Guessers = {}
INVARIANTS
  WithinLimit
