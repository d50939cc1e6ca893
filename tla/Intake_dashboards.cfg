SPECIFICATION Spec
CONSTANTS
  t1 = t1  t2 = t2  o1 = o1  o2 = o2  Always = Always
  None = None
  Tabs = {t1, t2}
  Keys = {"hardware", "borrow", "equipment"}
  Question <- Chain
  Answers <- Drafted
  Complete <- Completed
  Blank <- NoAnswers
  Objects = {o1, o2}
  ResumeRequired = TRUE
  Opens = 1  Closes = 2  Horizon = 2
  MaxVersion = 2
  Lossy = TRUE
SYMMETRY Symmetry
INVARIANTS SubmittedAsAsked IInv
PROPERTIES SubmittedStable NoBlindOverwrite FilingSpec
CHECK_DEADLOCK FALSE
