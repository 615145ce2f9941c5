CONSTANTS
  a = a
  b = b
  c = c
  NoId = NoId
  Absent = Absent
  Broken = Broken
  NoForm = NoForm
  Ids <- TwoIds
  Texts <- Titles
  Bodies <- MCBodies
  Rests <- LongBodies
  FormOrder <- BodyLast
SPECIFICATION Spec
SYMMETRY Symmetry
PROPERTY EditingKeepsUntouchedFields
CHECK_DEADLOCK FALSE
