CONSTANTS
  old = old
  new = new
  Absent = Absent
  Torn = Torn
  Contents <- MCContents
  SeqMod = 2
  MaxSecond = 1
  FlushMayFail = FALSE
  QuickRestart = FALSE
SPECIFICATION Spec
INVARIANT NeverHalfWritten
PROPERTIES NewIdentifierIsFresh KeepsPromise
CHECK_DEADLOCK FALSE
