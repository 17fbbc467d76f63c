\* Two users, two passwords, three messages, and two clients.
SPECIFICATION TablesSpec
CONSTANTS
  Sides = {"roles", "passwords", "composes"}
  u1 = u1
  u2 = u2
  p1 = p1
  None = None
  Nobody = Nobody
  Clients = {c1, c2}
  Users = {u1, u2}
  First = {u1}
  Passwords = {p1, p2}
  Tokens = {t1}
  Bound = 1
  MaxAttempts = 1
  Lockout = 1
  Verification = TRUE
  Calls = {"login", "register", "change", "status", "role"}
  Texts = {1, 2, 3}
VIEW TablesView
SYMMETRY AnyClient
INVARIANTS
  TypeOK
  AdminRemains
  CopyCurrent
  SessionsCurrent
  ThreadsRooted
  DuplicateNeedsOverlap
PROPERTY
  StaysOut
