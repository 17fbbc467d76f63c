\* Two processes, two users, one group or two, two notifications, three messages, one licence.
SPECIFICATION NodeSpec
CONSTANTS
  Foci = {"schema", "setup", "members", "listing", "lists", "notes", "counts", "threads", "licences"}
  u1 = u1
  u2 = u2
  g1 = g1
  g2 = g2
  g3 = g3
  g4 = g4
  p1 = p1
  n1 = n1
  n2 = n2
  Procs = {p1, p2}
  DataTables = {"users", "groups"}
  Targets = {0, 4}
  MaxUndos = 2
  Callsigns = {"W1AW", "K1TTT"}
  NoCopy = "none"
  GroupIds = {g1, g2, g3, g4}
  Members = {u1, u2}
  Callers = {c1, c2}
  Private = {g3}
  Public = {g1, g4}
  Approving = {g2}
  ReadOnly = {g2}
  Roles = {"Owner"}
  NoMember = NoMember
  Uncached = Uncached
  Users = {u1}
  Notes = {n1, n2}
  Addressee <- ToOne
  Kind <- OfBoth
  Wishes <- NightChoices
  Hours = {3, 12}
  Days = {6}
  Listeners = {l1}
  NoChoice = NoChoice
  NotHeld = NotHeld
  Inboxes = {u1, u2}
  Mails = {1, 2, 3}
  Sender <- FromOne
  Recipient <- ToOther
  Desks = {d1, d2}
  NoMail = NoMail
  NoCount = NoCount
  Signs = {s1}
  Lookups = {k1, k2}
  MaxFetches = 3
CONSTRAINT Unharmed
INVARIANTS
  NodeTypeOK
  SchemaMatches
  StartFails
  OneNode
  CreatorOwns
  DeliveredAtMost
  ChoiceKept
  ThreadsHeld
  CountsRight
PROPERTIES
  PostersBelong
  ListsCatchUp
  SourceSpared
CHECK_DEADLOCK FALSE
