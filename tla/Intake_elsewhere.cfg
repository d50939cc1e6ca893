SPECIFICATION Spec
CONSTANTS
  t1 = t1  t2 = t2  o1 = o1  o2 = o2  Always = Always
  None = None
  Tabs = {t1}
  Keys = {"hardware"}
  Question <- Single
  Answers <- DraftAnswers
  Complete <- CompleteAnswers
  Blank <- NoAnswers
  Objects = {}
  ResumeRequired = FALSE
  Opens = 0  Closes = 2  Horizon = 1
  MaxVersion = 2
  Lossy = FALSE
SYMMETRY Symmetry
PROPERTIES ChangedElsewhere
