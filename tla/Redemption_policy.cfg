SPECIFICATION Spec
CONSTANTS
  k1 = k1  k2 = k2
  p1 = p1  p2 = p2  p3 = p3
  a1 = a1  a2 = a2
  c1 = c1
  s1 = s1  s2 = s2
  o1 = o1
  None = None  Malformed = Malformed  Forged = Forged
  Keys = {k1, k2}
  Passes = {p1}
  Attendees = {a1}
  Checkpoints = {c1}
  Owner <- OneOwner
  CycleOf <- OneCycle
  Rules <- SomeRules
  Settings <- SomeSettings
  Scanners = {s1, s2}
  Staff = {o1}
  Kinds = {"put_entitlement", "delete_entitlement", "update_checkpoint", "delete_checkpoint"}
  Attempts = 3
  MaxTime = 0
SYMMETRY KeyScannerSymmetry
INVARIANTS IInv CheckpointsKept NoDeadlock
PROPERTIES RedeemedLawfully
