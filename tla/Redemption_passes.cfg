SPECIFICATION Spec
CONSTANTS
  k1 = k1  k2 = k2
  p1 = p1  p2 = p2  p3 = p3
  a1 = a1  a2 = a2
  c1 = c1
  s1 = s1  s2 = s2
  o1 = o1
  None = None  Malformed = Malformed  Forged = Forged
  Keys = {k1}
  Passes = {p1, p2, p3}
  Attendees = {a1, a2}
  Checkpoints = {c1}
  Owner <- TwoAndOne
  CycleOf <- TwoCycles
  Rules <- WindowRules
  Settings <- WindowSettings
  Scanners = {s1}
  Staff = {o1}
  Kinds = {"issue", "reissue", "revoke", "record_decision", "release_decision"}
  Attempts = 3
  MaxTime = 1
SYMMETRY TwoPassSymmetry
INVARIANTS VerdictsStand PassDeadlocksOnly
PROPERTIES LedgerSpec
