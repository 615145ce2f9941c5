CONSTANTS
  a = a
  b = b
  c = c
  NoId = NoId
  Absent = Absent
  Broken = Broken
  NoForm = NoForm
  Ids <- ThreeIds
  Texts <- Titles
  Bodies <- ShortBodies
  Rests <- ShortBodies
  FormOrder <- BodyLast
SPECIFICATION Spec
SYMMETRY Symmetry
CONSTRAINT FewAtOnce
INVARIANTS ListIsCurrent SavedIsSelected
PROPERTIES SaveGoesWhereItBelongs SelectionMovesToNeighbour
CHECK_DEADLOCK FALSE
