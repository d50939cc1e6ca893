SPECIFICATION Spec
CONSTANTS
  y1 = y1 y2 = y2 a1 = a1 a2 = a2 c1 = c1 c2 = c2 c3 = c3 main = main other = other o1 = o1 o2 = o2
  None = None Gone = Gone
  Cycles = {y1, y2}
  Activities = {a1, a2}
  Checkpoints = {c1, c2}
  Slugs = {main, other}
  Entrance = main
  Sessions = {o1, o2}
SYMMETRY Symmetry
INVARIANTS IInv AuditExact 
PROPERTIES SetupSpec EntranceAlone
