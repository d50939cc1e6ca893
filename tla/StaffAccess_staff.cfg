SPECIFICATION Spec
CONSTANTS
  u1 = u1 u2 = u2 s1 = s1 s2 = s2 p1 = p1 p2 = p2
  None = None
  Users = {u1, u2}
  Sessions = {s1, s2}
  Passes = {p1, p2}
  MaxGrants = 2
  Asked <- Asks
  Movers = {u2}
SYMMETRY Symmetry
INVARIANTS IInv RoleTrail ReviewTrail OneCredential
PROPERTIES RosterSpec
