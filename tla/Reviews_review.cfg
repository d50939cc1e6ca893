SPECIFICATION Spec
CONSTANTS
  r1 = r1  r2 = r2  t1 = t1  t2 = t2  o1 = o1  o2 = o2  a = a  b = b
  None = None
  Reviewers = {r1}
  Tabs = {t1, t2}
  Organizers = {o1, o2}
  Contents = {a, b}
  Kinds = {"save", "submit", "grant", "assign", "decide"}
SYMMETRY Symmetry
INVARIANTS IInv
PROPERTIES NoBlindOverwrite DeskSpec
