\* One message, with everything two clients can do to it. Sessions of two users, who get
\* over the limit by overlapping creates; the default duration is above max_duration, so
\* that a renewal can tell them apart. Logins of one user by three clients.
SPECIFICATION LivesSpec
CONSTANTS
  Sides = {"message", "session", "login"}
  None = None
  Clients = {c1, c2}
  Messages = {m1}
  Users = {"alice", "bob", "carol"}
  Admins = {}
  Members = {"alice", "bob"}
  Moderators = {"carol"}
  Requests <- LifeRequests
  Calls = {"compose", "get", "list", "read", "delete"}
  MaxCache = 1
  Nobody = Nobody
  t1 = t1
  Tokens = {t1, t2, t3}
  Accounts = {u1, u2}
  Durations <- AskedDurations
  Extensions <- AskedExtensions
  MaxPerUser = 1
  MaxDuration = 2
  Default = 3
  MaxCreates = 2
  MaxLate = 1
  Guessers = {c1, c2, c3}
INVARIANTS
  TypeOK
  AcceptedIsSent
  UnreadableUnhandled
  LifeCapped
  GuessesBounded
PROPERTIES
  Promise
  StatusForward
  DeletionSeen
  PermitPromise
  OnlyExtendRevives
  LockEnds
