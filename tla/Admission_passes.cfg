SPECIFICATION Spec
CONSTANTS
  d1 = d1  d2 = d2  d3 = d3
  p1 = p1  p2 = p2  p3 = p3
  o1 = o1  o2 = o2  t1 = t1  t2 = t2
  None = None
  Decisions = {d1, d2}
  Passes = {p1, p2}
  Organizers = {o1, o2}
  Tabs = {t1}
  Kinds = {"record", "release", "respond", "issue", "reissue", "revoke"}
  MaxVersion = 2
SYMMETRY Symmetry
INVARIANTS OutboxExact AuditExact PassChain IInv ReleaseDeadlocksOnly
PROPERTIES PassNeedsConfirmation JourneySpec
