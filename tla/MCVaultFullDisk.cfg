CONSTANTS
  old = old
  new = new
  Absent = Absent
  Torn = Torn
  Contents <- MCContents
  SeqMod = 2
  MaxSecond = 1
  FlushMayFail = TRUE
  QuickRestart = FALSE
SPECIFICATION Spec
INVARIANT NeverHalfWritten
CHECK_DEADLOCK FALSE
