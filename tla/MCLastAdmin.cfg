\* Two administrators, who take each other's role away.
SPECIFICATION TablesSpec
CONSTANTS
  Sides = {"roles"}
  u1 = u1
  u2 = u2
  p1 = p1
  None = None
  Nobody = Nobody
  Clients = {c1, c2}
  Users = {u1, u2}
  First = {u1, u2}
  Passwords = {p1, p2}
  Tokens = {t1}
  Bound = 1
  MaxAttempts = 1
  Lockout = 1
  Verification = TRUE
  Calls = {"login", "register", "change", "status", "role"}
  Texts = {1}
VIEW TablesView
SYMMETRY AnyClient
INVARIANTS
  LastAdmin
