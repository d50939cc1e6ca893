SPECIFICATION Spec
CONSTANTS
  r1 = r1  r2 = r2  t1 = t1  t2 = t2  o1 = o1  o2 = o2  a = a  b = b
  None = None
  Reviewers = {r1}
  Tabs = {t1}
  Organizers = {o1}
  Contents = {a, b}
  Kinds = {"save", "grant"}
SYMMETRY Symmetry
INVARIANTS MatchingDraftSaves
